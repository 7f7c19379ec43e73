-------------------------- MODULE AtLeastOnceQueue --------------------------
(***************************************************************************)
(* What the execution queue promises about one entry of a priority stream, *)
(* with every mechanism (streams, consumer groups, idle times, dead-letter *)
(* stream, crashes) left out:                                              *)
(*                                                                         *)
(*   absent -> ready -> claimed -> settled                                 *)
(*                                                                         *)
(* An entry may be worked on any number of times while it is claimed, but  *)
(* it settles only when one of those runs succeeded or after a dead-letter *)
(* copy of it has been written, and a settled entry is never claimed again.*)
(* Capacity trimming may drop an entry that is not settled; nothing else   *)
(* may.                                                                    *)
(***************************************************************************)
CONSTANT Entries        \* identities of the stream entries

VARIABLES status,       \* entry -> lifecycle state
          succeeded,    \* entries some handler run has completed successfully
          buried        \* entries copied to the dead-letter stream

avars == <<status, succeeded, buried>>

Lifecycle == {"absent", "ready", "claimed", "settled", "dropped"}

Init ==
    /\ status = [i \in Entries |-> "absent"]
    /\ succeeded = {}
    /\ buried = {}

\* S moves from the states From to the state to.
Move(S, From, to) ==
    /\ \A i \in S : status[i] \in From
    /\ status' = [i \in Entries |-> IF i \in S THEN to ELSE status[i]]

\* A new entry becomes ready; capacity trimming may drop older ones with it.
Publish(i, Dropped) ==
    /\ status[i] = "absent"
    /\ i \notin Dropped
    /\ \A k \in Dropped : status[k] \in {"ready", "claimed"}
    /\ status' = [k \in Entries |-> IF k = i THEN "ready"
                                    ELSE IF k \in Dropped THEN "dropped"
                                    ELSE status[k]]
    /\ UNCHANGED <<succeeded, buried>>

Deliver(S) == Move(S, {"ready", "claimed"}, "claimed") /\ UNCHANGED <<succeeded, buried>>

\* A handler run of an entry ends well (it may be a late duplicate run).
Complete(i) ==
    /\ status[i] \in {"claimed", "settled", "dropped"}
    /\ succeeded' = succeeded \cup {i}
    /\ UNCHANGED <<status, buried>>

\* A dead-letter copy of an entry is written.
Bury(i) ==
    /\ status[i] \in {"claimed", "settled", "dropped"}
    /\ buried' = buried \cup {i}
    /\ UNCHANGED <<status, succeeded>>

Settle(i) ==
    /\ i \in succeeded \cup buried
    /\ Move({i}, {"claimed"}, "settled")
    /\ UNCHANGED <<succeeded, buried>>

Next ==
    \/ \E i \in Entries, Dropped \in SUBSET Entries : Publish(i, Dropped)
    \/ \E S \in SUBSET Entries : Deliver(S)
    \/ \E i \in Entries : Complete(i) \/ Bury(i) \/ Settle(i)

Spec == Init /\ [][Next]_avars

TypeOK ==
    /\ status \in [Entries -> Lifecycle]
    /\ succeeded \subseteq Entries
    /\ buried \subseteq Entries

=============================================================================
