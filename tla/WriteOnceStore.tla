--------------------------- MODULE WriteOnceStore ---------------------------
(***************************************************************************)
(* What the tier stack promises for files that are written once: a file    *)
(* has no content, or one content that never changes and is never lost,    *)
(* however it moves between tiers.  The promise ends for a file that is    *)
(* exposed, which can only happen to one that has its content.             *)
(***************************************************************************)
CONSTANTS Files, Data, Absent

VARIABLES
    content,    \* the content of each file, Absent for none
    exposed     \* the files that may lose their content

storeState == <<content, exposed>>

Init ==
    /\ content = [f \in Files |-> Absent]
    /\ exposed = {}

Store(f, d) ==
    /\ content[f] = Absent
    /\ content' = [content EXCEPT ![f] = d]
    /\ UNCHANGED exposed

Expose(f) ==
    /\ content[f] # Absent
    /\ exposed' = exposed \cup {f}
    /\ UNCHANGED content

\* Exposed files lose their content, or a copy of it comes back.
Waver ==
    /\ content' \in [Files -> Data \cup {Absent}]
    /\ \A f \in Files \ exposed : content'[f] = content[f]
    /\ UNCHANGED exposed

Next ==
    \/ \E f \in Files : Expose(f) \/ \E d \in Data : Store(f, d)
    \/ Waver

Spec == Init /\ [][Next]_storeState
=============================================================================
