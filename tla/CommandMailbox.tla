--------------------------- MODULE CommandMailbox ---------------------------
(***************************************************************************)
(* What the command path promises, without threads, locks or wake-ups:     *)
(* requests travel in the order they were sent to one register per device; *)
(* a device performs the command its register holds, at one instant, and   *)
(* a one-shot command leaves the register empty at that same instant.      *)
(* So no command is skipped over by a later one that was sent before it,   *)
(* no device performs a byte that is not the latest one, and emptying a    *)
(* register never throws away a newer command.                             *)
(***************************************************************************)
EXTENDS Naturals, Sequences

CONSTANTS
  Requests,       \* messages that may be sent
  Capacity,       \* how many may be under way
  Slot,           \* the registers
  HasSlot(_),     \* does this message go to a register?
  SlotFor(_),     \* ... and to which
  Commands(_),    \* the bytes the device behind a register obeys
  Clears(_)       \* the one-shot commands among them

VARIABLES
  inflight,       \* messages sent and not yet delivered, oldest first
  reg,            \* the register of each device
  device,         \* the command each device performed last, 0 at first
  up              \* is anybody there to deliver and to perform?

vars == <<inflight, reg, device, up>>

Init == /\ inflight = << >>
        /\ reg = [s \in Slot |-> 0]
        /\ device = [s \in Slot |-> 0]
        /\ up = TRUE

Accept(r) == /\ Len(inflight) < Capacity
             /\ inflight' = Append(inflight, r)
             /\ UNCHANGED <<reg, device, up>>

Put == /\ up
       /\ inflight # << >>
       /\ HasSlot(Head(inflight))
       /\ reg' = [reg EXCEPT ![SlotFor(Head(inflight))] = Head(inflight).text]
       /\ inflight' = Tail(inflight)
       /\ UNCHANGED <<device, up>>

Discard == /\ up
           /\ inflight # << >>
           /\ ~HasSlot(Head(inflight))
           /\ inflight' = Tail(inflight)
           /\ UNCHANGED <<reg, device, up>>

Serve(s) == /\ up
            /\ reg[s] \in Commands(s)
            /\ device' = [device EXCEPT ![s] = reg[s]]
            /\ reg' = [reg EXCEPT ![s] = IF reg[s] \in Clears(s) THEN 0 ELSE @]
            /\ UNCHANGED <<inflight, up>>

(* The receiving program ends, and with it at most the one message that it *)
(* had taken and not delivered; what is still queued stays queued.         *)
Crash == /\ up
         /\ up' = FALSE
         /\ \/ inflight' = inflight
            \/ inflight # << >> /\ inflight' = Tail(inflight)
         /\ UNCHANGED <<reg, device>>

Next == \/ \E r \in Requests : Accept(r)
        \/ Put
        \/ Discard
        \/ Crash
        \/ \E s \in Slot : Serve(s)

Spec == Init /\ [][Next]_vars
=============================================================================
