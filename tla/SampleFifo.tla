---------------------------- MODULE SampleFifo -----------------------------
(***************************************************************************)
(* What src/docs/en/modules/rtcfifo.md promises of the store for sensor    *)
(* readings, without ring, indices and compression: a bounded first-in,    *)
(* first-out queue that evicts its oldest sample when it is full, and all  *)
(* of them when a sample fits neither its names nor its time base.  A      *)
(* reset in the middle of an operation leaves it damaged, until it is      *)
(* emptied the next time.                                                  *)
(***************************************************************************)
EXTENDS Naturals, Sequences

CONSTANTS
  Samples,   \* [value, decimals, tag]: samples without their timestamps
  Times,     \* timestamps
  Fits(_, _) \* whether a timestamp can be stored behind an earlier one

VARIABLES
  damaged,   \* a reset has interrupted an operation
  samples,   \* the samples, the oldest first
  names,     \* the slots for sensor names, 0 where one is free
  last,      \* the timestamp of the last sample
  room       \* how many samples there is room for

vars == <<damaged, samples, names, last, room>>

Init ==
  /\ damaged = TRUE
  /\ samples = << >>
  /\ names = << >>
  /\ last = 0
  /\ room = 0

\* Empty, of any size.  Names may be left over from an earlier use.
Prepare ==
  /\ damaged' = FALSE
  /\ samples' = << >>
  /\ names' \in Seq(Nat)
  /\ last' = 0
  /\ room' \in Nat \ {0}

\* Slot i is the one for a name: its own, or the first free one.
SlotFor(tag, i) ==
  /\ names[i] \in {tag, 0}
  /\ \A j \in 1 .. i - 1 : names[j] \notin {tag, 0}

\* A sample that fits: the oldest makes room for it if there is none.
Add(s, t) ==
  /\ ~damaged
  /\ samples = << >> \/ Fits(t, last)
  /\ \E i \in 1 .. Len(names) :
       /\ SlotFor(s.tag, i)
       /\ names' = [names EXCEPT ![i] = s.tag]
  /\ samples' = Append(IF Len(samples) = room THEN Tail(samples) ELSE samples, s)
  /\ last' = t
  /\ UNCHANGED <<damaged, room>>

\* A sample that does not, or that finds the store damaged: it starts anew.
Restart(s, t) ==
  /\ \/ damaged /\ names' \in Seq(Nat) \ {<< >>} /\ room' \in Nat \ {0}
     \/ /\ \/ samples # << >> /\ ~Fits(t, last)
           \/ ~ \E i \in 1 .. Len(names) : SlotFor(s.tag, i)
        /\ Len(names') = Len(names)
        /\ room' = room
  /\ names' = [i \in 1 .. Len(names') |-> IF i = 1 THEN s.tag ELSE 0]
  /\ damaged' = FALSE
  /\ samples' = <<s>>
  /\ last' = t

\* The n oldest samples are taken out.
Take(n) ==
  /\ ~damaged
  /\ n \in 1 .. Len(samples)
  /\ samples' = SubSeq(samples, n + 1, Len(samples))
  /\ UNCHANGED <<damaged, names, last, room>>

\* A reset comes in between.
Interrupt == Init'

Next ==
  \/ Prepare
  \/ \E s \in Samples, t \in Times : Add(s, t) \/ Restart(s, t)
  \/ \E n \in 1 .. Len(samples) : Take(n)
  \/ Interrupt

Spec == Init /\ [][Next]_vars
============================================================================
