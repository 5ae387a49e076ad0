-------------------------- MODULE SubepochSampling --------------------------
(***************************************************************************)
(* What a fragment promises, without lazy flushes, counters or rho: in     *)
(* each epoch every flow is assigned one or two of the epoch's slots; each *)
(* packet that arrives belongs to one slot, by its time, and is added to   *)
(* the sample of this slot if its flow is assigned to it, and to no other; *)
(* the report holds the slots that sampled anything.                       *)
(***************************************************************************)
EXTENDS Sketch

CONSTANTS MaxSlots,  \* the largest number of slots of an epoch
          Length     \* the length of an epoch

VARIABLES phase,    \* "idle" or "open"
          slots,    \* the number of slots of the current or next epoch
          windows,  \* the slots each flow is assigned to
          samples,  \* the sample of each slot
          report,   \* the samples reported for the last epoch, by slot
          clock,    \* the time of the epoch's last packet, from the epoch's start
          last,     \* the flow of this packet, in a set that is empty without one
          arrived   \* the number of packets of the epoch, sampled or not

vars == <<phase, slots, windows, samples, report, clock, last, arrived>>

Slots == 0 .. slots - 1
NoWindows == [f \in Flows |-> {}]
Assignments == {{a, b} : a \in Slots, b \in Slots}  \* one or two slots

\* All slots have the same length, the last one and what remains.
SlotLength == IF slots > Length THEN 1 ELSE Length \div slots
InSlot(t, i) ==
    /\ i * SlotLength <= t
    /\ i # slots - 1 => t < (i + 1) * SlotLength

Init ==
    /\ phase = "idle"
    /\ slots \in 1 .. MaxSlots
    /\ windows = NoWindows
    /\ samples = <<>>
    /\ report = <<>>
    /\ clock = 0
    /\ last = {}
    /\ arrived = 0

Begin ==
    /\ phase = "idle"
    /\ phase' = "open"
    /\ windows' \in [Flows -> Assignments]
    /\ samples' = [i \in Slots |-> EmptySketch]
    /\ report' = <<>>
    /\ clock' = 0
    /\ last' = {}
    /\ arrived' = 0
    /\ UNCHANGED slots

\* A packet of flow f arrives at time t.
Packet(f, t) ==
    /\ phase = "open"
    /\ clock <= t
    /\ clock' = t
    /\ last' = {f}
    /\ arrived' = arrived + 1
    /\ samples' = [i \in Slots |-> IF InSlot(t, i) /\ i \in windows[f]
                                   THEN Update(samples[i], f)
                                   ELSE samples[i]]
    /\ UNCHANGED <<phase, slots, windows, report>>

Close ==
    /\ phase = "open"
    /\ phase' = "idle"
    /\ report' = [i \in {j \in Slots : samples[j] # EmptySketch} |-> samples[i]]
    /\ slots' \in 1 .. MaxSlots
    /\ windows' = NoWindows
    /\ samples' = <<>>
    /\ clock' = 0
    /\ last' = {}
    /\ UNCHANGED arrived

Next ==
    \/ Begin
    \/ \E f \in Flows, t \in 0 .. Length - 1 : Packet(f, t)
    \/ Close

Spec == Init /\ [][Next]_vars

=============================================================================
