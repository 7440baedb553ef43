--------------------------- MODULE AtomicDocument ---------------------------
(***************************************************************************)
(* What zhold's JSON documents promise to the code above them: a document  *)
(* has one value, a write replaces it at once or not at all, and what is   *)
(* left after a loss of power is the last value that was reported durable, *)
(* or one that was written after it.  JsonPublication implements this.     *)
(***************************************************************************)
CONSTANTS
    Value,      \* contents of a document
    None        \* no document

VARIABLES
    value,      \* what a reader finds
    survivors,  \* what a reader may find after a loss of power
    request,    \* the value that a write under way wants, in a set; {} without one
    report      \* what the last write said

vars == <<value, survivors, request, report>>

Report == {"none", "durable", "unconfirmed", "existing", "failed"}

Init ==
    /\ value \in Value \cup {None} /\ survivors = {value}
    /\ request = {} /\ report = "none"

\* A write begins; None asks for the removal of the document.
Begin(v) ==
    /\ request = {} /\ request' = {v} /\ report' = "none"
    /\ UNCHANGED <<value, survivors>>

\* The one moment at which the document changes.
Publish ==
    /\ value' \in request
    /\ survivors' = survivors \cup request
    /\ UNCHANGED <<request, report>>

\* The value that is visible is on the disk.
Flush == survivors' = {value} /\ UNCHANGED <<value, request, report>>

\* A write ends, with a flush or without.  It says "durable" of its own value only,
\* and only when no other can come back; "unconfirmed" of its own value; "failed"
\* leaves the caller in doubt.
End(said) ==
    /\ request # {} /\ request' = {}
    /\ survivors' \in {survivors, {value}}
    /\ said = "durable" => request = {value} /\ survivors' = {value}
    /\ said = "unconfirmed" => request = {value}
    /\ said = "existing" => value # None
    /\ report' = said
    /\ UNCHANGED value

\* The writer dies.
Die == request' = {} /\ report' = "none" /\ UNCHANGED <<value, survivors>>

PowerLoss ==
    /\ value' \in survivors /\ survivors' = {value'}
    /\ request' = {} /\ report' = "none"

Next ==
    \/ \E v \in Value \cup {None} : Begin(v)
    \/ Publish \/ Flush \/ Die \/ PowerLoss
    \/ \E said \in Report : End(said)

Spec == Init /\ [][Next]_vars

=============================================================================
