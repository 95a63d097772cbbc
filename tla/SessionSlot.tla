----------------------------- MODULE SessionSlot -----------------------------
(***************************************************************************)
(* What the receiving server promises about upload sessions: one slot,     *)
(* claimed by a request that waits for the user, then either given back or *)
(* turned into the active session of that same request, which ends once.   *)
(* No session displaces another one and no session comes back.             *)
(***************************************************************************)

CONSTANTS Sessions,    \* the session identifiers the server may draw
          NoSession    \* the value of a slot nobody holds

VARIABLES slot,    \* the single slot and who holds it
          seen     \* the sessions that ever claimed the slot

slotVars == <<slot, seen>>

Free == [kind |-> "Free", sid |-> NoSession]
Pending(s) == [kind |-> "Pending", sid |-> s]
Active(s) == [kind |-> "Active", sid |-> s]

SlotTypeOK == /\ slot \in {Free} \cup {Pending(s) : s \in Sessions}
                                 \cup {Active(s) : s \in Sessions}
              /\ seen \subseteq Sessions

SlotInit == slot = Free /\ seen = {}

\* A new request takes the free slot.
SlotClaim(s) == /\ slot = Free
                /\ s \notin seen
                /\ slot' = Pending(s)
                /\ seen' = seen \cup {s}

\* A request that was declined, withdrawn or abandoned gives the slot back.
SlotRelease(s) == /\ slot = Pending(s)
                  /\ slot' = Free
                  /\ UNCHANGED seen

\* The user accepted: the waiting request becomes the active session.
SlotActivate(s) == /\ slot = Pending(s)
                   /\ slot' = Active(s)
                   /\ UNCHANGED seen

\* The session completed, was cancelled or timed out.
SlotEnd(s) == /\ slot = Active(s)
              /\ slot' = Free
              /\ UNCHANGED seen

SlotNext == \E s \in Sessions :
                SlotClaim(s) \/ SlotRelease(s) \/ SlotActivate(s) \/ SlotEnd(s)

SlotSpec == SlotInit /\ [][SlotNext]_slotVars
==============================================================================
