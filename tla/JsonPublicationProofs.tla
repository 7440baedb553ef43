----------------------- MODULE JsonPublicationProofs -----------------------
(***************************************************************************)
(* Proofs about JsonPublication, for any contents and any number of        *)
(* readers: the inductive invariant, one lemma per conjunct; that every    *)
(* step is one of AtomicDocument's; and what follows from both.            *)
(***************************************************************************)
EXTENDS JsonPublication, TLAPS

\* Every step keeps the types.
LEMMA TypeNext == TypeOK /\ [Next]_vars => TypeOK'
<1> SUFFICES ASSUME TypeOK, [Next]_vars PROVE TypeOK'
  OBVIOUS
<1> USE JsonPublicationAssumption DEF TypeOK, Directory, Entry, Step, Document, vars,
    diskVars, writerVars, readerVars
<1>1. ASSUME NEW v \in Value, Upsert(v) PROVE TypeOK'
  BY <1>1 DEF Upsert, Source, FirstStep
<1>2. ASSUME NEW v \in Value, Create(v) PROVE TypeOK'
  BY <1>2 DEF Create
<1>3. CASE Remove
  BY <1>3 DEF Remove
<1>4. CASE Link
  BY <1>4 DEF Link, Set, Goto, Return, Watch
<1>5. CASE Stabilize
  BY <1>5 DEF Stabilize, Sync, Goto
<1>6. CASE DropBackup
  BY <1>6 DEF DropBackup, Set, Goto, Watch
<1>7. CASE SyncDrop
  BY <1>7 DEF SyncDrop, Sync, Goto
<1>8. CASE Rotate
  BY <1>8 DEF Rotate, Rename, Goto, Watch
<1>9. CASE Discard
  BY <1>9 DEF Discard, Set, Goto, Watch
<1>10. CASE SyncRotation
  BY <1>10 DEF SyncRotation, Sync, Goto
<1>11. CASE Publish
  BY <1>11 DEF Publish, Set, Goto, Watch
<1>12. CASE Restore
  BY <1>12 DEF Restore, Rename, Return, Watch
<1>13. CASE Confirm
  BY <1>13 DEF Confirm, ConfirmCreation, ConfirmReplacement, Sync, Goto, Return
<1>14. CASE Cleanup
  BY <1>14 DEF Cleanup, Set, Goto, Return, Watch
<1>15. CASE SyncCleanup
  BY <1>15 DEF SyncCleanup, Sync, Return
<1>16. CASE RemovePrimary
  BY <1>16 DEF RemovePrimary, Set, Goto, Return, Watch
<1>17. CASE SyncRemoval
  BY <1>17 DEF SyncRemoval, Sync, Return
<1>18. CASE Fail
  BY <1>18 DEF Fail, Return
<1>19. CASE Die
  BY <1>19 DEF Die, Return
<1>20. CASE PowerLoss
  BY <1>20 DEF PowerLoss, Return
<1>21. ASSUME NEW r \in Reader, StartRead(r) PROVE TypeOK'
  BY <1>21 DEF StartRead, Look, Answer
<1>22. ASSUME NEW r \in Reader, Classify(r) PROVE TypeOK'
  BY <1>22 DEF Classify, Look, Answer
<1>23. ASSUME NEW r \in Reader, ClassifyBackup(r) PROVE TypeOK'
  BY <1>23 DEF ClassifyBackup, Look, Answer
<1>24. ASSUME NEW r \in Reader, ReadPrimary(r) PROVE TypeOK'
  BY <1>24 DEF ReadPrimary, Look, Answer
<1>25. ASSUME NEW r \in Reader, ReadBackup(r) PROVE TypeOK'
  BY <1>25 DEF ReadBackup, Look, Answer
<1>26. CASE UNCHANGED vars
  BY <1>26
<1> QED
  BY <1>1, <1>2, <1>3, <1>4, <1>5, <1>6, <1>7, <1>8, <1>9, <1>10, <1>11, <1>12, <1>13,
      <1>14, <1>15, <1>16, <1>17, <1>18, <1>19, <1>20, <1>21, <1>22, <1>23, <1>24, <1>25, <1>26
      DEF Next, Write, Begin, Replace, Read

\* KindOK is inductive.
LEMMA KindNext == TypeOK /\ KindOK /\ OutcomesOK /\ [Next]_vars => KindOK'
<1> SUFFICES ASSUME TypeOK /\ KindOK /\ OutcomesOK, [Next]_vars PROVE KindOK'
  OBVIOUS
<1> USE JsonPublicationAssumption DEF TypeOK, Directory, Entry, Step, Document, Whole, vars,
    diskVars, writerVars, readerVars, KindOK, OutcomesOK
<1>1. ASSUME NEW v \in Value, Upsert(v) PROVE KindOK'
  BY <1>1 DEF Upsert, Source, FirstStep
<1>2. ASSUME NEW v \in Value, Create(v) PROVE KindOK'
  BY <1>2 DEF Create
<1>3. CASE Remove
  BY <1>3 DEF Remove
<1>4. CASE Link
  BY <1>4 DEF Link, Set, Goto, Return, Watch
<1>5. CASE Stabilize
  BY <1>5 DEF Stabilize, Sync, Goto
<1>6. CASE DropBackup
  BY <1>6 DEF DropBackup, Set, Goto, Watch
<1>7. CASE SyncDrop
  BY <1>7 DEF SyncDrop, Sync, Goto
<1>8. CASE Rotate
  BY <1>8 DEF Rotate, Rename, Goto, Watch
<1>9. CASE Discard
  BY <1>9 DEF Discard, Set, Goto, Watch
<1>10. CASE SyncRotation
  BY <1>10 DEF SyncRotation, Sync, Goto
<1>11. CASE Publish
  BY <1>11 DEF Publish, Set, Goto, Watch
<1>12. CASE Restore
  BY <1>12 DEF Restore, Rename, Return, Watch
<1>13. CASE Confirm
  BY <1>13 DEF Confirm, ConfirmCreation, ConfirmReplacement, Sync, Goto, Return
<1>14. CASE Cleanup
  BY <1>14 DEF Cleanup, Set, Goto, Return, Watch
<1>15. CASE SyncCleanup
  BY <1>15 DEF SyncCleanup, Sync, Return
<1>16. CASE RemovePrimary
  BY <1>16 DEF RemovePrimary, Set, Goto, Return, Watch
<1>17. CASE SyncRemoval
  BY <1>17 DEF SyncRemoval, Sync, Return
<1>18. CASE Fail
  BY <1>18 DEF Fail, Return
<1>19. CASE Die
  BY <1>19 DEF Die, Return
<1>20. CASE PowerLoss
  BY <1>20 DEF PowerLoss, Return
<1>21. ASSUME NEW r \in Reader, StartRead(r) PROVE KindOK'
  BY <1>21 DEF StartRead, Look, Answer
<1>22. ASSUME NEW r \in Reader, Classify(r) PROVE KindOK'
  BY <1>22 DEF Classify, Look, Answer
<1>23. ASSUME NEW r \in Reader, ClassifyBackup(r) PROVE KindOK'
  BY <1>23 DEF ClassifyBackup, Look, Answer
<1>24. ASSUME NEW r \in Reader, ReadPrimary(r) PROVE KindOK'
  BY <1>24 DEF ReadPrimary, Look, Answer
<1>25. ASSUME NEW r \in Reader, ReadBackup(r) PROVE KindOK'
  BY <1>25 DEF ReadBackup, Look, Answer
<1>26. CASE UNCHANGED vars
  BY <1>26
<1> QED
  BY <1>1, <1>2, <1>3, <1>4, <1>5, <1>6, <1>7, <1>8, <1>9, <1>10, <1>11, <1>12, <1>13,
      <1>14, <1>15, <1>16, <1>17, <1>18, <1>19, <1>20, <1>21, <1>22, <1>23, <1>24, <1>25, <1>26
      DEF Next, Write, Begin, Replace, Read

\* WriterOK is inductive.
LEMMA WriterNext == TypeOK /\ KindOK /\ OutcomesOK /\ WriterOK /\ [Next]_vars => WriterOK'
<1> SUFFICES ASSUME TypeOK /\ KindOK /\ OutcomesOK /\ WriterOK, [Next]_vars PROVE WriterOK'
  OBVIOUS
<1> USE JsonPublicationAssumption DEF TypeOK, Directory, Entry, Step, Document, Whole, vars,
    diskVars, writerVars, readerVars, KindOK, WriterOK, OutcomesOK
<1>1. ASSUME NEW v \in Value, Upsert(v) PROVE WriterOK'
  BY <1>1 DEF Upsert, Source, FirstStep
<1>2. ASSUME NEW v \in Value, Create(v) PROVE WriterOK'
  BY <1>2 DEF Create
<1>3. CASE Remove
  BY <1>3 DEF Remove
<1>4. CASE Link
  BY <1>4 DEF Link, Set, Goto, Return, Watch
<1>5. CASE Stabilize
  BY <1>5 DEF Stabilize, Sync, Goto
<1>6. CASE DropBackup
  BY <1>6 DEF DropBackup, Set, Goto, Watch
<1>7. CASE SyncDrop
  BY <1>7 DEF SyncDrop, Sync, Goto
<1>8. CASE Rotate
  BY <1>8 DEF Rotate, Rename, Goto, Watch
<1>9. CASE Discard
  BY <1>9 DEF Discard, Set, Goto, Watch
<1>10. CASE SyncRotation
  BY <1>10 DEF SyncRotation, Sync, Goto
<1>11. CASE Publish
  BY <1>11 DEF Publish, Set, Goto, Watch
<1>12. CASE Restore
  BY <1>12 DEF Restore, Rename, Return, Watch
<1>13. CASE Confirm
  BY <1>13 DEF Confirm, ConfirmCreation, ConfirmReplacement, Sync, Goto, Return
<1>14. CASE Cleanup
  BY <1>14 DEF Cleanup, Set, Goto, Return, Watch
<1>15. CASE SyncCleanup
  BY <1>15 DEF SyncCleanup, Sync, Return
<1>16. CASE RemovePrimary
  BY <1>16 DEF RemovePrimary, Set, Goto, Return, Watch
<1>17. CASE SyncRemoval
  BY <1>17 DEF SyncRemoval, Sync, Return
<1>18. CASE Fail
  BY <1>18 DEF Fail, Return
<1>19. CASE Die
  BY <1>19 DEF Die, Return
<1>20. CASE PowerLoss
  BY <1>20 DEF PowerLoss, Return
<1>21. ASSUME NEW r \in Reader, StartRead(r) PROVE WriterOK'
  BY <1>21 DEF StartRead, Look, Answer
<1>22. ASSUME NEW r \in Reader, Classify(r) PROVE WriterOK'
  BY <1>22 DEF Classify, Look, Answer
<1>23. ASSUME NEW r \in Reader, ClassifyBackup(r) PROVE WriterOK'
  BY <1>23 DEF ClassifyBackup, Look, Answer
<1>24. ASSUME NEW r \in Reader, ReadPrimary(r) PROVE WriterOK'
  BY <1>24 DEF ReadPrimary, Look, Answer
<1>25. ASSUME NEW r \in Reader, ReadBackup(r) PROVE WriterOK'
  BY <1>25 DEF ReadBackup, Look, Answer
<1>26. CASE UNCHANGED vars
  BY <1>26
<1> QED
  BY <1>1, <1>2, <1>3, <1>4, <1>5, <1>6, <1>7, <1>8, <1>9, <1>10, <1>11, <1>12, <1>13,
      <1>14, <1>15, <1>16, <1>17, <1>18, <1>19, <1>20, <1>21, <1>22, <1>23, <1>24, <1>25, <1>26
      DEF Next, Write, Begin, Replace, Read

\* OutcomesOK is inductive.
LEMMA OutcomesNext == TypeOK /\ KindOK /\ OutcomesOK /\ WriterOK /\ [Next]_vars => OutcomesOK'
<1> SUFFICES ASSUME TypeOK /\ KindOK /\ OutcomesOK /\ WriterOK, [Next]_vars PROVE OutcomesOK'
  OBVIOUS
<1> USE JsonPublicationAssumption DEF TypeOK, Directory, Entry, Step, Document, Whole, vars,
    diskVars, writerVars, readerVars, KindOK, WriterOK, OutcomesOK
<1>1. ASSUME NEW v \in Value, Upsert(v) PROVE OutcomesOK'
  BY <1>1 DEF Upsert, Source, FirstStep
<1>2. ASSUME NEW v \in Value, Create(v) PROVE OutcomesOK'
  BY <1>2 DEF Create
<1>3. CASE Remove
  BY <1>3 DEF Remove
<1>4. CASE Link
  BY <1>4 DEF Link, Set, Goto, Return, Watch
<1>5. CASE Stabilize
  BY <1>5 DEF Stabilize, Sync, Goto
<1>6. CASE DropBackup
  <2>1. /\ dir' = [dir EXCEPT !["backup"] = None]
       /\ outcomes' = outcomes \cup {[d EXCEPT !["backup"] = None] : d \in outcomes}
    BY <1>6 DEF DropBackup, Set
  <2>2. dir' \in outcomes'
    BY <2>1
  <2>3. kind' = kind /\ step = "dropBackup" /\ step' = "syncDrop"
    BY <1>6 DEF DropBackup, Set, Goto, Return
  <2>4. ASSUME NEW d \in outcomes, NEW u \in {d, [d EXCEPT !["backup"] = None]}
       PROVE  /\ u["backup"] # Torn
              /\ u["primary"] = Torn => u["backup"] \in Value
              /\ kind = "journal" => u["backup"] = None
              /\ step' \in {"syncDrop", "syncCleanup"} => u["primary"] = dir'["primary"]
    <3>1. CASE u = d
      BY <2>1, <2>3, <3>1
    <3>2. CASE u = [d EXCEPT !["backup"] = None]
      BY <2>1, <2>3, <3>2
    <3> QED
      BY <3>1, <3>2
  <2>5. dir'["primary"] # Torn
    BY <2>1, <2>3
  <2>6. \A u \in outcomes' :
          /\ u["backup"] # Torn
          /\ u["primary"] = Torn => u["backup"] \in Value
          /\ kind' = "journal" => u["backup"] = None
          /\ step' \in {"syncDrop", "syncCleanup"} => u["primary"] = dir'["primary"]
    BY <2>1, <2>3, <2>4
  <2> QED
    BY <2>2, <2>3, <2>5, <2>6
<1>7. CASE SyncDrop
  BY <1>7 DEF SyncDrop, Sync, Goto
<1>8. CASE Rotate
  <2>1. /\ dir' = [dir EXCEPT !["primary"] = None, !["backup"] = dir["primary"]]
       /\ outcomes' = outcomes \cup {[d EXCEPT !["primary"] = None, !["backup"] = dir["primary"]] : d \in outcomes}
    BY <1>8 DEF Rotate, Rename
  <2>2. dir' \in outcomes'
    BY <2>1
  <2>3. kind' = kind /\ step = "rotate" /\ step' = "syncRotation"
    BY <1>8 DEF Rotate, Rename, Goto, Return
  <2>4. ASSUME NEW d \in outcomes, NEW u \in {d, [d EXCEPT !["primary"] = None, !["backup"] = dir["primary"]]}
       PROVE  /\ u["backup"] # Torn
              /\ u["primary"] = Torn => u["backup"] \in Value
              /\ kind = "journal" => u["backup"] = None
              /\ step' \in {"syncDrop", "syncCleanup"} => u["primary"] = dir'["primary"]
    <3>1. CASE u = d
      BY <2>1, <2>3, <3>1
    <3>2. CASE u = [d EXCEPT !["primary"] = None, !["backup"] = dir["primary"]]
      BY <2>1, <2>3, <3>2
    <3> QED
      BY <3>1, <3>2
  <2>5. dir'["primary"] # Torn
    BY <2>1, <2>3
  <2>6. \A u \in outcomes' :
          /\ u["backup"] # Torn
          /\ u["primary"] = Torn => u["backup"] \in Value
          /\ kind' = "journal" => u["backup"] = None
          /\ step' \in {"syncDrop", "syncCleanup"} => u["primary"] = dir'["primary"]
    BY <2>1, <2>3, <2>4
  <2> QED
    BY <2>2, <2>3, <2>5, <2>6
<1>9. CASE Discard
  <2>1. /\ dir' = [dir EXCEPT !["primary"] = None]
       /\ outcomes' = outcomes \cup {[d EXCEPT !["primary"] = None] : d \in outcomes}
    BY <1>9 DEF Discard, Set
  <2>2. dir' \in outcomes'
    BY <2>1
  <2>3. kind' = kind /\ step = "discard" /\ step' = "syncRotation"
    BY <1>9 DEF Discard, Set, Goto, Return
  <2>4. ASSUME NEW d \in outcomes, NEW u \in {d, [d EXCEPT !["primary"] = None]}
       PROVE  /\ u["backup"] # Torn
              /\ u["primary"] = Torn => u["backup"] \in Value
              /\ kind = "journal" => u["backup"] = None
              /\ step' \in {"syncDrop", "syncCleanup"} => u["primary"] = dir'["primary"]
    <3>1. CASE u = d
      BY <2>1, <2>3, <3>1
    <3>2. CASE u = [d EXCEPT !["primary"] = None]
      BY <2>1, <2>3, <3>2
    <3> QED
      BY <3>1, <3>2
  <2>5. dir'["primary"] # Torn
    BY <2>1, <2>3
  <2>6. \A u \in outcomes' :
          /\ u["backup"] # Torn
          /\ u["primary"] = Torn => u["backup"] \in Value
          /\ kind' = "journal" => u["backup"] = None
          /\ step' \in {"syncDrop", "syncCleanup"} => u["primary"] = dir'["primary"]
    BY <2>1, <2>3, <2>4
  <2> QED
    BY <2>2, <2>3, <2>5, <2>6
<1>10. CASE SyncRotation
  BY <1>10 DEF SyncRotation, Sync, Goto
<1>11. CASE Publish
  <2>1. /\ dir' = [dir EXCEPT !["primary"] = asked]
       /\ outcomes' = outcomes \cup {[d EXCEPT !["primary"] = asked] : d \in outcomes}
    BY <1>11 DEF Publish, Set
  <2>2. dir' \in outcomes'
    BY <2>1
  <2>3. kind' = kind /\ step = "publish" /\ step' = "confirm"
    BY <1>11 DEF Publish, Set, Goto, Return
  <2>4. ASSUME NEW d \in outcomes, NEW u \in {d, [d EXCEPT !["primary"] = asked]}
       PROVE  /\ u["backup"] # Torn
              /\ u["primary"] = Torn => u["backup"] \in Value
              /\ kind = "journal" => u["backup"] = None
              /\ step' \in {"syncDrop", "syncCleanup"} => u["primary"] = dir'["primary"]
    <3>1. CASE u = d
      BY <2>1, <2>3, <3>1
    <3>2. CASE u = [d EXCEPT !["primary"] = asked]
      BY <2>1, <2>3, <3>2
    <3> QED
      BY <3>1, <3>2
  <2>5. dir'["primary"] # Torn
    BY <2>1, <2>3
  <2>6. \A u \in outcomes' :
          /\ u["backup"] # Torn
          /\ u["primary"] = Torn => u["backup"] \in Value
          /\ kind' = "journal" => u["backup"] = None
          /\ step' \in {"syncDrop", "syncCleanup"} => u["primary"] = dir'["primary"]
    BY <2>1, <2>3, <2>4
  <2> QED
    BY <2>2, <2>3, <2>5, <2>6
<1>12. CASE Restore
  <2>1. /\ dir' = [dir EXCEPT !["backup"] = None, !["primary"] = dir["backup"]]
       /\ outcomes' = outcomes \cup {[d EXCEPT !["backup"] = None, !["primary"] = dir["backup"]] : d \in outcomes}
    BY <1>12 DEF Restore, Rename
  <2>2. dir' \in outcomes'
    BY <2>1
  <2>3. kind' = kind /\ step = "publish" /\ step' = "idle"
    BY <1>12 DEF Restore, Rename, Goto, Return
  <2>4. ASSUME NEW d \in outcomes, NEW u \in {d, [d EXCEPT !["backup"] = None, !["primary"] = dir["backup"]]}
       PROVE  /\ u["backup"] # Torn
              /\ u["primary"] = Torn => u["backup"] \in Value
              /\ kind = "journal" => u["backup"] = None
              /\ step' \in {"syncDrop", "syncCleanup"} => u["primary"] = dir'["primary"]
    <3>1. CASE u = d
      BY <2>1, <2>3, <3>1
    <3>2. CASE u = [d EXCEPT !["backup"] = None, !["primary"] = dir["backup"]]
      BY <2>1, <2>3, <3>2
    <3> QED
      BY <3>1, <3>2
  <2>5. dir'["primary"] # Torn
    BY <2>1, <2>3
  <2>6. \A u \in outcomes' :
          /\ u["backup"] # Torn
          /\ u["primary"] = Torn => u["backup"] \in Value
          /\ kind' = "journal" => u["backup"] = None
          /\ step' \in {"syncDrop", "syncCleanup"} => u["primary"] = dir'["primary"]
    BY <2>1, <2>3, <2>4
  <2> QED
    BY <2>2, <2>3, <2>5, <2>6
<1>13. CASE Confirm
  BY <1>13 DEF Confirm, ConfirmCreation, ConfirmReplacement, Sync, Goto, Return
<1>14. CASE Cleanup
  BY <1>14 DEF Cleanup, Set, Goto, Return, Watch
<1>15. CASE SyncCleanup
  BY <1>15 DEF SyncCleanup, Sync, Return
<1>16. CASE RemovePrimary
  BY <1>16 DEF RemovePrimary, Set, Goto, Return, Watch
<1>17. CASE SyncRemoval
  BY <1>17 DEF SyncRemoval, Sync, Return
<1>18. CASE Fail
  BY <1>18 DEF Fail, Return
<1>19. CASE Die
  BY <1>19 DEF Die, Return
<1>20. CASE PowerLoss
  BY <1>20 DEF PowerLoss, Return
<1>21. ASSUME NEW r \in Reader, StartRead(r) PROVE OutcomesOK'
  BY <1>21 DEF StartRead, Look, Answer
<1>22. ASSUME NEW r \in Reader, Classify(r) PROVE OutcomesOK'
  BY <1>22 DEF Classify, Look, Answer
<1>23. ASSUME NEW r \in Reader, ClassifyBackup(r) PROVE OutcomesOK'
  BY <1>23 DEF ClassifyBackup, Look, Answer
<1>24. ASSUME NEW r \in Reader, ReadPrimary(r) PROVE OutcomesOK'
  BY <1>24 DEF ReadPrimary, Look, Answer
<1>25. ASSUME NEW r \in Reader, ReadBackup(r) PROVE OutcomesOK'
  BY <1>25 DEF ReadBackup, Look, Answer
<1>26. CASE UNCHANGED vars
  BY <1>26
<1> QED
  BY <1>1, <1>2, <1>3, <1>4, <1>5, <1>6, <1>7, <1>8, <1>9, <1>10, <1>11, <1>12, <1>13,
      <1>14, <1>15, <1>16, <1>17, <1>18, <1>19, <1>20, <1>21, <1>22, <1>23, <1>24, <1>25, <1>26
      DEF Next, Write, Begin, Replace, Read

\* ReaderOK is inductive.
LEMMA ReaderNext == TypeOK /\ KindOK /\ OutcomesOK /\ WriterOK /\ ReaderOK /\ [Next]_vars => ReaderOK'
<1> SUFFICES ASSUME TypeOK /\ KindOK /\ OutcomesOK /\ WriterOK /\ ReaderOK, [Next]_vars
             PROVE  ReaderOK'
  OBVIOUS
<1> USE JsonPublicationAssumption DEF TypeOK, Directory, Entry, Step, Document, Whole, vars,
    diskVars, writerVars, readerVars, KindOK, WriterOK, OutcomesOK, ReaderOK
<1>1. ASSUME NEW v \in Value, Upsert(v) PROVE ReaderOK'
  BY <1>1 DEF Upsert, Source, FirstStep
<1>2. ASSUME NEW v \in Value, Create(v) PROVE ReaderOK'
  BY <1>2 DEF Create
<1>3. CASE Remove
  BY <1>3 DEF Remove
<1>4. CASE Link
  BY <1>4 DEF Link, Set, Goto, Return, Watch
<1>5. CASE Stabilize
  BY <1>5 DEF Stabilize, Sync, Goto
<1>6. CASE DropBackup
  BY <1>6 DEF DropBackup, Set, Goto, Watch
<1>7. CASE SyncDrop
  BY <1>7 DEF SyncDrop, Sync, Goto
<1>8. CASE Rotate
  BY <1>8 DEF Rotate, Rename, Goto, Watch
<1>9. CASE Discard
  BY <1>9 DEF Discard, Set, Goto, Watch
<1>10. CASE SyncRotation
  BY <1>10 DEF SyncRotation, Sync, Goto
<1>11. CASE Publish
  BY <1>11 DEF Publish, Set, Goto, Watch
<1>12. CASE Restore
  BY <1>12 DEF Restore, Rename, Return, Watch
<1>13. CASE Confirm
  BY <1>13 DEF Confirm, ConfirmCreation, ConfirmReplacement, Sync, Goto, Return
<1>14. CASE Cleanup
  BY <1>14 DEF Cleanup, Set, Goto, Return, Watch
<1>15. CASE SyncCleanup
  BY <1>15 DEF SyncCleanup, Sync, Return
<1>16. CASE RemovePrimary
  BY <1>16 DEF RemovePrimary, Set, Goto, Return, Watch
<1>17. CASE SyncRemoval
  BY <1>17 DEF SyncRemoval, Sync, Return
<1>18. CASE Fail
  BY <1>18 DEF Fail, Return
<1>19. CASE Die
  BY <1>19 DEF Die, Return
<1>20. CASE PowerLoss
  BY <1>20 DEF PowerLoss, Return
<1>21. ASSUME NEW r \in Reader, StartRead(r) PROVE ReaderOK'
  BY <1>21 DEF StartRead, Look, Answer
<1>22. ASSUME NEW r \in Reader, Classify(r) PROVE ReaderOK'
  BY <1>22 DEF Classify, Look, Answer
<1>23. ASSUME NEW r \in Reader, ClassifyBackup(r) PROVE ReaderOK'
  BY <1>23 DEF ClassifyBackup, Look, Answer
<1>24. ASSUME NEW r \in Reader, ReadPrimary(r) PROVE ReaderOK'
  BY <1>24 DEF ReadPrimary, Look, Answer
<1>25. ASSUME NEW r \in Reader, ReadBackup(r) PROVE ReaderOK'
  BY <1>25 DEF ReadBackup, Look, Answer
<1>26. CASE UNCHANGED vars
  BY <1>26
<1> QED
  BY <1>1, <1>2, <1>3, <1>4, <1>5, <1>6, <1>7, <1>8, <1>9, <1>10, <1>11, <1>12, <1>13,
      <1>14, <1>15, <1>16, <1>17, <1>18, <1>19, <1>20, <1>21, <1>22, <1>23, <1>24, <1>25, <1>26
      DEF Next, Write, Begin, Replace, Read

\* ReadsCurrent is inductive.
LEMMA ReadsNext == TypeOK /\ WriterOK /\ ReaderOK /\ ReadsCurrent /\ [Next]_vars => ReadsCurrent'
<1> SUFFICES ASSUME TypeOK /\ WriterOK /\ ReaderOK /\ ReadsCurrent, [Next]_vars
             PROVE  ReadsCurrent'
  OBVIOUS
<1> USE JsonPublicationAssumption DEF TypeOK, Directory, Entry, Step, Document, Whole, vars,
    diskVars, writerVars, readerVars, WriterOK, ReaderOK, ReadsCurrent
<1>1. ASSUME NEW v \in Value, Upsert(v) PROVE ReadsCurrent'
  BY <1>1 DEF Upsert, Source, FirstStep
<1>2. ASSUME NEW v \in Value, Create(v) PROVE ReadsCurrent'
  BY <1>2 DEF Create
<1>3. CASE Remove
  BY <1>3 DEF Remove
<1>4. CASE Link
  BY <1>4 DEF Link, Set, Goto, Return, Watch
<1>5. CASE Stabilize
  BY <1>5 DEF Stabilize, Sync, Goto
<1>6. CASE DropBackup
  BY <1>6 DEF DropBackup, Set, Goto, Watch
<1>7. CASE SyncDrop
  BY <1>7 DEF SyncDrop, Sync, Goto
<1>8. CASE Rotate
  BY <1>8 DEF Rotate, Rename, Goto, Watch
<1>9. CASE Discard
  BY <1>9 DEF Discard, Set, Goto, Watch
<1>10. CASE SyncRotation
  BY <1>10 DEF SyncRotation, Sync, Goto
<1>11. CASE Publish
  BY <1>11 DEF Publish, Set, Goto, Watch
<1>12. CASE Restore
  BY <1>12 DEF Restore, Rename, Return, Watch
<1>13. CASE Confirm
  BY <1>13 DEF Confirm, ConfirmCreation, ConfirmReplacement, Sync, Goto, Return
<1>14. CASE Cleanup
  BY <1>14 DEF Cleanup, Set, Goto, Return, Watch
<1>15. CASE SyncCleanup
  BY <1>15 DEF SyncCleanup, Sync, Return
<1>16. CASE RemovePrimary
  BY <1>16 DEF RemovePrimary, Set, Goto, Return, Watch
<1>17. CASE SyncRemoval
  BY <1>17 DEF SyncRemoval, Sync, Return
<1>18. CASE Fail
  BY <1>18 DEF Fail, Return
<1>19. CASE Die
  BY <1>19 DEF Die, Return
<1>20. CASE PowerLoss
  BY <1>20 DEF PowerLoss, Return
<1>21. ASSUME NEW r \in Reader, StartRead(r) PROVE ReadsCurrent'
  BY <1>21 DEF StartRead, Look, Answer
<1>22. ASSUME NEW r \in Reader, Classify(r) PROVE ReadsCurrent'
  BY <1>22 DEF Classify, Look, Answer
<1>23. ASSUME NEW r \in Reader, ClassifyBackup(r) PROVE ReadsCurrent'
  BY <1>23 DEF ClassifyBackup, Look, Answer
<1>24. ASSUME NEW r \in Reader, ReadPrimary(r) PROVE ReadsCurrent'
  BY <1>24 DEF ReadPrimary, Look, Answer
<1>25. ASSUME NEW r \in Reader, ReadBackup(r) PROVE ReadsCurrent'
  BY <1>25 DEF ReadBackup, Look, Answer
<1>26. CASE UNCHANGED vars
  BY <1>26
<1> QED
  BY <1>1, <1>2, <1>3, <1>4, <1>5, <1>6, <1>7, <1>8, <1>9, <1>10, <1>11, <1>12, <1>13,
      <1>14, <1>15, <1>16, <1>17, <1>18, <1>19, <1>20, <1>21, <1>22, <1>23, <1>24, <1>25, <1>26
      DEF Next, Write, Begin, Replace, Read


\* A change of one entry that makes each directory hold document x does so for dir.
LEMMA SetSurvivors ==
    ASSUME TypeOK, dir \in outcomes, NEW e \in Entry, NEW c, NEW x, Set(e, c),
           \A d \in outcomes : Document([d EXCEPT ![e] = c]) = x
    PROVE  Document(dir') = x /\ Survivors' = Survivors \cup {x}
<1>1. dir' = [dir EXCEPT ![e] = c] /\ outcomes' = outcomes \cup {[d EXCEPT ![e] = c] : d \in outcomes}
  BY DEF Set
<1>2. Document(dir') = x
  BY <1>1
<1>3. Survivors' = {Document(d) : d \in outcomes'}
  BY DEF Survivors, Document
<1>4. Survivors' = Survivors \cup {x}
  BY <1>1, <1>3 DEF Survivors
<1> QED
  BY <1>2, <1>4

\* A rename that moves the document in dir to where it is found moves it everywhere.
LEMMA RenameSurvivors ==
    ASSUME TypeOK, dir \in outcomes, NEW from \in Entry, NEW to \in Entry, from # to,
           Rename(from, to), Whole(dir[from]), from = "backup" => ~Whole(dir["primary"])
    PROVE  Document(dir') = Document(dir) /\ Survivors' = Survivors
<1> DEFINE moved(d) == [d EXCEPT ![from] = None, ![to] = dir[from]]
<1>1. dir' = moved(dir) /\ outcomes' = outcomes \cup {moved(d) : d \in outcomes}
  BY DEF Rename
<1>2. Document(dir) = dir[from]
  BY DEF Document, Entry, Whole
<1>3. \A d \in outcomes : Document(moved(d)) = dir[from]
  BY JsonPublicationAssumption DEF TypeOK, Directory, Document, Entry, Whole
<1>4. Survivors' = {Document(d) : d \in outcomes'}
  BY DEF Survivors, Document
<1>5. Survivors' = Survivors \cup {dir[from]}
  <2>1. {Document(d) : d \in outcomes'} = {Document(d) : d \in outcomes} \cup {dir[from]}
    BY <1>1, <1>3
  <2> QED
    BY <1>4, <2>1 DEF Survivors
<1>6. dir[from] \in Survivors
  BY <1>2 DEF Survivors
<1> QED
  BY <1>1, <1>2, <1>3, <1>5, <1>6

\* Every step is one of the atomic document, or changes nothing of it.
LEMMA Simulation == Inv /\ [Next]_vars => [Atomic!Next]_(Atomic!vars)
<1> SUFFICES ASSUME Inv, [Next]_vars PROVE Atomic!Next \/ UNCHANGED Atomic!vars
  OBVIOUS
<1> USE JsonPublicationAssumption DEF Inv
<1> DEFINE request == IF step = "idle" THEN {} ELSE {asked}
<1>0. TypeOK' /\ KindOK' /\ WriterOK' /\ OutcomesOK'
  BY TypeNext, KindNext, WriterNext, OutcomesNext
<1>a. UNCHANGED diskVars => Document(dir') = Document(dir) /\ Survivors' = Survivors
  BY DEF Survivors, Document, diskVars
<1>b. Sync => Document(dir') = Document(dir) /\ Survivors' = {Document(dir)}
  BY DEF Survivors, Document, Sync
<1>c. dir \in outcomes
  BY DEF OutcomesOK

<1>1. ASSUME NEW v \in Value, Upsert(v) PROVE Atomic!Next \/ UNCHANGED Atomic!vars
  <2>1. Atomic!Begin(v)
    BY <1>1, <1>a DEF Upsert, Source, FirstStep, Atomic!Begin, diskVars
  <2> QED
    BY <2>1 DEF Atomic!Next
<1>2. ASSUME NEW v \in Value, Create(v) PROVE Atomic!Next \/ UNCHANGED Atomic!vars
  <2>1. Atomic!Begin(v)
    BY <1>2, <1>a DEF Create, Source, FirstStep, Atomic!Begin, diskVars
  <2> QED
    BY <2>1 DEF Atomic!Next
<1>3. CASE Remove
  <2>1. Atomic!Begin(None)
    BY <1>3, <1>a DEF Remove, Atomic!Begin, diskVars
  <2> QED
    BY <2>1 DEF Atomic!Next
<1>4. CASE Link
  <2>1. CASE dir["primary"] = None
    <3>1. Set("primary", asked) /\ Goto("confirm")
      BY <1>4, <2>1 DEF Link
    <3>2. \A d \in outcomes : Document([d EXCEPT !["primary"] = asked]) = asked
      BY <1>4 DEF Link, WriterOK, Whole, Document, TypeOK, Directory, Entry
    <3>3. Document(dir') = asked /\ Survivors' = Survivors \cup {asked}
      BY <1>c, <3>1, <3>2, SetSurvivors DEF Entry
    <3>4. Atomic!Publish
      BY <1>4, <3>1, <3>3 DEF Link, Goto, Atomic!Publish
    <3> QED
      BY <3>4 DEF Atomic!Next
  <2>2. CASE dir["primary"] # None
    <3>1. Return("existing") /\ UNCHANGED diskVars
      BY <1>4, <2>2 DEF Link
    <3>2. Document(dir) # None
      BY <1>4, <2>2 DEF Link, OutcomesOK, TypeOK, Directory, Entry, Document
    <3>3. Atomic!End("existing")
      BY <1>4, <1>a, <3>1, <3>2 DEF Link, Return, Atomic!End
    <3> QED
      BY <3>3 DEF Atomic!Next, Atomic!Report
  <2> QED
    BY <2>1, <2>2
<1>5. CASE Stabilize
  <2>1. Atomic!Flush
    BY <1>5, <1>b DEF Stabilize, Goto, Atomic!Flush
  <2> QED
    BY <2>1 DEF Atomic!Next
<1>6. CASE SyncDrop
  <2>1. Atomic!Flush
    BY <1>6, <1>b DEF SyncDrop, Goto, Atomic!Flush
  <2> QED
    BY <2>1 DEF Atomic!Next
<1>7. CASE SyncRotation
  <2>1. Atomic!Flush
    BY <1>7, <1>b DEF SyncRotation, Goto, Atomic!Flush
  <2> QED
    BY <2>1 DEF Atomic!Next
<1>8. CASE DropBackup
  <2>1. Set("backup", None) /\ step # "idle" /\ step' # "idle" /\ UNCHANGED <<asked, report>>
    BY <1>8 DEF DropBackup, Goto
  <2>2. outcomes = {dir}
    BY <1>8 DEF DropBackup, OutcomesOK, WriterOK, TypeOK, Directory, Entry, Whole
  <2>3. Document([dir EXCEPT !["backup"] = None]) = Document(dir)
    BY <1>8 DEF DropBackup, WriterOK, TypeOK, Directory, Entry, Document, Whole
  <2>4. Document(dir') = Document(dir) /\ Survivors' = Survivors \cup {Document(dir)}
    BY <1>c, <2>1, <2>2, <2>3, SetSurvivors DEF Entry
  <2>5. Survivors = {Document(dir)}
    BY <2>2 DEF Survivors
  <2> QED
    BY <2>1, <2>4, <2>5 DEF Atomic!vars
<1>9. CASE Discard
  <2>1. Set("primary", None) /\ step # "idle" /\ step' # "idle" /\ UNCHANGED <<asked, report>>
    BY <1>9 DEF Discard, Goto
  <2>2. outcomes = {dir}
    BY <1>9 DEF Discard, OutcomesOK, WriterOK, TypeOK, Directory, Entry, Whole
  <2>3. Document([dir EXCEPT !["primary"] = None]) = Document(dir)
    BY <1>9 DEF Discard, WriterOK, TypeOK, Directory, Entry, Document, Whole
  <2>4. Document(dir') = Document(dir) /\ Survivors' = Survivors \cup {Document(dir)}
    BY <1>c, <2>1, <2>2, <2>3, SetSurvivors DEF Entry
  <2>5. Survivors = {Document(dir)}
    BY <2>2 DEF Survivors
  <2> QED
    BY <2>1, <2>4, <2>5 DEF Atomic!vars
<1>10. CASE Rotate
  <2>1. Document(dir') = Document(dir) /\ Survivors' = Survivors
    BY <1>10, <1>c, RenameSurvivors DEF Rotate, WriterOK, Entry
  <2> QED
    BY <1>10, <2>1 DEF Rotate, Goto, Atomic!vars
<1>11. CASE Publish
  <2>1. Set("primary", asked) /\ Goto("confirm")
    BY <1>11 DEF Publish
  <2>2. \A d \in outcomes : Document([d EXCEPT !["primary"] = asked]) = asked
    BY <1>11 DEF Publish, WriterOK, Whole, Document, TypeOK, Directory, Entry
  <2>3. Document(dir') = asked /\ Survivors' = Survivors \cup {asked}
    BY <1>c, <2>1, <2>2, SetSurvivors DEF Entry
  <2>4. Atomic!Publish
    BY <1>11, <2>1, <2>3 DEF Publish, Goto, Atomic!Publish
  <2> QED
    BY <2>4 DEF Atomic!Next
<1>12. CASE Restore
  <2>1. Document(dir') = Document(dir) /\ Survivors' = Survivors
    BY <1>12, <1>c, RenameSurvivors DEF Restore, WriterOK, Entry, Whole
  <2>2. Atomic!End("failed")
    BY <1>12, <2>1 DEF Restore, Return, Atomic!End
  <2> QED
    BY <2>2 DEF Atomic!Next, Atomic!Report
<1>13. CASE Confirm
  <2>1. Document(dir) = asked
    BY <1>13 DEF Confirm, ConfirmCreation, ConfirmReplacement, WriterOK, Document, Whole
  <2>2. CASE Sync /\ Goto("cleanup")
    <3>1. Atomic!Flush
      BY <1>13, <1>b, <2>2 DEF Confirm, ConfirmCreation, ConfirmReplacement, Goto, Atomic!Flush
    <3> QED
      BY <3>1 DEF Atomic!Next
  <2>3. CASE Sync /\ (Return("durable") \/ Return("failed"))
    <3>1. Atomic!End("durable") \/ Atomic!End("failed")
      BY <1>13, <1>b, <2>1, <2>3 DEF Confirm, ConfirmCreation, ConfirmReplacement, Return, Atomic!End
    <3> QED
      BY <3>1 DEF Atomic!Next, Atomic!Report
  <2>4. CASE Return("unconfirmed") /\ UNCHANGED diskVars
    <3>1. Atomic!End("unconfirmed")
      BY <1>13, <1>a, <2>1, <2>4 DEF Confirm, ConfirmCreation, ConfirmReplacement, Return, Atomic!End
    <3> QED
      BY <3>1 DEF Atomic!Next, Atomic!Report
  <2> QED
    BY <1>13, <2>2, <2>3, <2>4 DEF Confirm, ConfirmCreation, ConfirmReplacement
<1>14. CASE Cleanup
  <2>1. outcomes = {dir} /\ Document(dir) = asked
    BY <1>14 DEF Cleanup, WriterOK, OutcomesOK, Document, Whole
  <2>2. Survivors = {Document(dir)}
    BY <2>1 DEF Survivors
  <2>3. CASE Set("backup", None) /\ Goto("syncCleanup")
    <3>1. Document([dir EXCEPT !["backup"] = None]) = asked
      BY <1>14 DEF Cleanup, WriterOK, TypeOK, Directory, Entry, Document, Whole
    <3>2. Document(dir') = asked /\ Survivors' = Survivors \cup {asked}
      BY <1>c, <2>1, <2>3, <3>1, SetSurvivors DEF Entry
    <3> QED
      BY <1>14, <2>1, <2>2, <2>3, <3>2 DEF Cleanup, Goto, Atomic!vars
  <2>4. CASE Return("durable") /\ UNCHANGED diskVars
    <3>1. Atomic!End("durable")
      BY <1>14, <1>a, <2>1, <2>2, <2>4 DEF Cleanup, Return, Atomic!End
    <3> QED
      BY <3>1 DEF Atomic!Next, Atomic!Report
  <2> QED
    BY <1>14, <2>3, <2>4 DEF Cleanup
<1>15. CASE SyncCleanup
  <2>1. Document(dir) = asked /\ \A d \in outcomes : Document(d) = asked
    BY <1>15 DEF SyncCleanup, WriterOK, OutcomesOK, Document, Whole
  <2>2. Survivors = {Document(dir)}
    BY <1>c, <2>1 DEF Survivors
  <2>3. Document(dir') = Document(dir) /\ Survivors' = {Document(dir)}
    BY <1>15, <1>a, <1>b, <2>2 DEF SyncCleanup
  <2>4. Atomic!End("durable")
    BY <1>15, <2>1, <2>3 DEF SyncCleanup, Return, Atomic!End
  <2> QED
    BY <2>4 DEF Atomic!Next, Atomic!Report
<1>16. CASE RemovePrimary
  <2>1. CASE dir["primary"] # None
    <3>1. Set("primary", None) /\ Goto("syncRemoval") /\ asked = None
      BY <1>16, <2>1 DEF RemovePrimary, WriterOK
    <3>2. \A d \in outcomes : Document([d EXCEPT !["primary"] = None]) = None
      BY <1>16 DEF RemovePrimary, KindOK, OutcomesOK, Document, TypeOK, Directory, Entry
    <3>3. Document(dir') = None /\ Survivors' = Survivors \cup {None}
      BY <1>c, <3>1, <3>2, SetSurvivors DEF Entry
    <3>4. Atomic!Publish
      BY <1>16, <3>1, <3>3 DEF RemovePrimary, Goto, Atomic!Publish
    <3> QED
      BY <3>4 DEF Atomic!Next
  <2>2. CASE dir["primary"] = None
    <3>1. Atomic!End("failed")
      BY <1>16, <1>a, <2>2 DEF RemovePrimary, Return, Atomic!End
    <3> QED
      BY <3>1 DEF Atomic!Next, Atomic!Report
  <2> QED
    BY <2>1, <2>2
<1>17. CASE SyncRemoval
  <2>1. Document(dir) = None /\ asked = None
    BY <1>17 DEF SyncRemoval, WriterOK, KindOK, OutcomesOK, Document
  <2>2. Atomic!End("durable")
    BY <1>17, <1>b, <2>1 DEF SyncRemoval, Return, Atomic!End
  <2> QED
    BY <2>2 DEF Atomic!Next, Atomic!Report
<1>18. CASE Fail
  <2>1. Atomic!End("failed")
    BY <1>18, <1>a DEF Fail, Return, Atomic!End
  <2> QED
    BY <2>1 DEF Atomic!Next, Atomic!Report
<1>19. CASE Die
  <2>1. Atomic!Die
    BY <1>19, <1>a DEF Die, Return, Atomic!Die
  <2> QED
    BY <2>1 DEF Atomic!Next
<1>20. CASE PowerLoss
  <2>1. Document(dir') \in Survivors
    BY <1>20 DEF PowerLoss, Survivors, Document
  <2>2. Survivors' = {Document(dir')}
    BY <1>20 DEF PowerLoss, Survivors, Document
  <2>3. Atomic!PowerLoss
    BY <1>20, <2>1, <2>2 DEF PowerLoss, Return, Atomic!PowerLoss
  <2> QED
    BY <2>3 DEF Atomic!Next
<1>21. ASSUME NEW r \in Reader, StartRead(r) PROVE Atomic!Next \/ UNCHANGED Atomic!vars
  BY <1>21, <1>a DEF StartRead, diskVars, writerVars, Atomic!vars
<1>22. ASSUME NEW r \in Reader, Classify(r) PROVE Atomic!Next \/ UNCHANGED Atomic!vars
  BY <1>22, <1>a DEF Classify, diskVars, writerVars, Atomic!vars
<1>23. ASSUME NEW r \in Reader, ClassifyBackup(r) PROVE Atomic!Next \/ UNCHANGED Atomic!vars
  BY <1>23, <1>a DEF ClassifyBackup, diskVars, writerVars, Atomic!vars
<1>24. ASSUME NEW r \in Reader, ReadPrimary(r) PROVE Atomic!Next \/ UNCHANGED Atomic!vars
  BY <1>24, <1>a DEF ReadPrimary, diskVars, writerVars, Atomic!vars
<1>25. ASSUME NEW r \in Reader, ReadBackup(r) PROVE Atomic!Next \/ UNCHANGED Atomic!vars
  BY <1>25, <1>a DEF ReadBackup, diskVars, writerVars, Atomic!vars
<1>26. CASE UNCHANGED vars
  BY <1>26, <1>a DEF vars, diskVars, writerVars, Atomic!vars
<1> QED
  BY <1>1, <1>2, <1>3, <1>4, <1>5, <1>6, <1>7, <1>8, <1>9, <1>10, <1>11, <1>12, <1>13,
      <1>14, <1>15, <1>16, <1>17, <1>18, <1>19, <1>20, <1>21, <1>22, <1>23, <1>24, <1>25, <1>26
      DEF Next, Write, Begin, Replace, Read

\* The initial states satisfy the invariant.
LEMMA InitInv == Init => Inv
BY JsonPublicationAssumption
DEF Init, Inv, TypeOK, Directory, Entry, Step, WriterOK, OutcomesOK, KindOK, ReaderOK,
    ReadsCurrent,
    Whole, Document

\* The inductive invariant holds for any contents and any number of readers.
THEOREM InductiveInvariant == Spec => []Inv
<1>1. Inv /\ [Next]_vars => Inv'
  BY TypeNext, KindNext, WriterNext, OutcomesNext, ReaderNext, ReadsNext DEF Inv
<1> QED
  BY InitInv, <1>1, PTL DEF Spec

\* Files, directories and steps keep to their types.
THEOREM TypeCorrect == Spec => []TypeOK
<1>1. Inv => TypeOK
  BY DEF Inv
<1> QED
  BY InductiveInvariant, <1>1, PTL

\* A reader without the lock gets a value that was the document's during its read.
THEOREM ReadersCurrent == Spec => []ReadsCurrent
<1>1. Inv => ReadsCurrent
  BY DEF Inv
<1> QED
  BY InductiveInvariant, <1>1, PTL

\* The primary and the backup, written, abandoned and lost in part, implement a document
\* that changes at once and keeps what was reported durable.
THEOREM Implements == Spec => AtomicSpec
<1>1. Init => Atomic!Init
  BY DEF Init, Atomic!Init, Survivors, Document
<1> QED
  BY <1>1, InductiveInvariant, Simulation, PTL DEF Spec, AtomicSpec, Atomic!Spec

\* A mutable document that no loss of power can take away stays so.
THEOREM KeepsDocument == Spec => DocumentKept
<1>1. Inv /\ [Next]_vars =>
        [kind = "mutable" /\ None \notin Survivors => None \notin Survivors']_vars
  <2> SUFFICES ASSUME Inv, [Next]_vars, kind = "mutable", None \notin Survivors
               PROVE  None \notin Survivors'
    OBVIOUS
  <2>1. dir \in outcomes
    BY DEF Inv, OutcomesOK
  <2>2. Document(dir) # None
    BY <2>1 DEF Survivors
  <2>3. step # "idle" => asked # None
    BY JsonPublicationAssumption DEF Inv, KindOK, WriterOK, Whole
  <2>4. Atomic!Next \/ UNCHANGED Atomic!vars
    BY Simulation
  <2> QED
    BY <2>2, <2>3, <2>4
    DEF Atomic!Next, Atomic!Begin, Atomic!Publish, Atomic!Flush, Atomic!End, Atomic!Die,
        Atomic!PowerLoss, Atomic!vars
<1> QED
  BY <1>1, InductiveInvariant, PTL DEF Spec, DocumentKept

=============================================================================
