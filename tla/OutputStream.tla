---------------------------- MODULE OutputStream ----------------------------
(***************************************************************************)
(* What cmd/output_manager.go promises its callers: an ordered stream of   *)
(* events.  A line is accepted or refused and counted; accepted events are *)
(* served one at a time in the order of acceptance; a line goes to the     *)
(* writer in place, a swap leaves that writer or installs the next; the    *)
(* stream ends only when every accepted line is delivered.                 *)
(***************************************************************************)
EXTENDS Naturals, Sequences

CONSTANTS Lines, Swap

VARIABLES accepted,    \* the events taken on, in order
          delivered,   \* the events served, each with the writer that is in place
          current,     \* that writer
          refused,     \* lines turned away
          ended        \* Close has returned

streamVars == <<accepted, delivered, current, refused, ended>>

StreamInit ==
    /\ accepted = <<>>
    /\ delivered = <<>>
    /\ current = 0
    /\ refused = 0
    /\ ended = FALSE

AcceptLine ==
    /\ ~ended
    /\ \E line \in Lines : accepted' = Append(accepted, line)
    /\ UNCHANGED <<delivered, current, refused, ended>>

\* A swap may come too late: it is accepted and never served.
AcceptSwap ==
    /\ accepted' = Append(accepted, Swap)
    /\ UNCHANGED <<delivered, current, refused, ended>>

Refuse ==
    /\ ~ended
    /\ refused' = refused + 1
    /\ UNCHANGED <<accepted, delivered, current, ended>>

Undelivered == (Len(delivered) + 1)..Len(accepted)

Deliver ==
    /\ ~ended
    /\ Undelivered # {}
    /\ LET ev == accepted[Len(delivered) + 1]
       IN  /\ current' \in (IF ev = Swap THEN {current, current + 1} ELSE {current})
           /\ delivered' = Append(delivered, [ev |-> ev, writer |-> current'])
    /\ UNCHANGED <<accepted, refused, ended>>

LineWaits == \E i \in Undelivered : accepted[i] # Swap

End ==
    /\ ~ended
    /\ ~LineWaits
    /\ ended' = TRUE
    /\ UNCHANGED <<accepted, delivered, current, refused>>

StreamNext == AcceptLine \/ AcceptSwap \/ Refuse \/ Deliver \/ End

StreamSpec == StreamInit /\ [][StreamNext]_streamVars

\* A line that was accepted does not wait for ever.
FairStreamSpec == StreamSpec /\ WF_streamVars(LineWaits /\ Deliver)

=============================================================================
