---------------------------- MODULE DateChannel ----------------------------
(***************************************************************************)
(* What producers and consumers promise, whatever carries the dates        *)
(* (prodcons.c, prodcons2.c, prodcons3.c): a reader displays the dates of  *)
(* its channel in their order, and no two displays show the same date.     *)
(*                                                                         *)
(* A memory segment holds the last date only, which is displayed where it  *)
(* is.  A queue forgets none until it is removed, but a date is lost with  *)
(* the reader that had received it, and the dates that several readers     *)
(* received are displayed in any order.                                    *)
(***************************************************************************)
EXTENDS Integers, Sequences, FiniteSetsExt

CONSTANTS Channels, Readers, None

VARIABLES
  lossy,    \* whether a date replaces the one before it
  clock,    \* the last date written
  removed,  \* the channels that were removed
  waiting,  \* the dates in each channel that nobody has displayed
  reads,    \* the channel of each reader
  held,     \* the date that a reader has received and not displayed, or 0
  shown,    \* the dates each reader has displayed, in their order
  ended     \* the readers that display nothing any more

vars == <<lossy, clock, removed, waiting, reads, held, shown, ended>>

Init ==
  /\ lossy \in BOOLEAN
  /\ clock = 0
  /\ removed = {} /\ ended = {}
  /\ waiting = [c \in Channels |-> {}]
  /\ reads = [r \in Readers |-> None]
  /\ held = [r \in Readers |-> 0]
  /\ shown = [r \in Readers |-> <<>>]

Write(c) ==
  /\ c \notin removed
  /\ clock' > clock
  /\ waiting' = [waiting EXCEPT ![c] = (IF lossy THEN {} ELSE @) \cup {clock'}]
  /\ UNCHANGED <<lossy, removed, reads, held, shown, ended>>

Open(r, c) ==
  /\ r \notin ended /\ reads[r] = None
  /\ reads' = [reads EXCEPT ![r] = c]
  /\ UNCHANGED <<lossy, clock, removed, waiting, held, shown, ended>>

(* The oldest date of the reader's channel leaves it. *)
Oldest(r) == Min(waiting[reads[r]])

Leaves(r) ==
  /\ r \notin ended /\ reads[r] \in Channels
  /\ waiting[reads[r]] # {}
  /\ waiting' = [waiting EXCEPT ![reads[r]] = @ \ {Oldest(r)}]

Take(r) ==
  /\ ~lossy /\ held[r] = 0
  /\ Leaves(r)
  /\ held' = [held EXCEPT ![r] = Oldest(r)]
  /\ UNCHANGED <<lossy, clock, removed, reads, shown, ended>>

Show(r) ==
  /\ r \notin ended /\ held[r] # 0
  /\ shown' = [shown EXCEPT ![r] = Append(@, held[r])]
  /\ held' = [held EXCEPT ![r] = 0]
  /\ UNCHANGED <<lossy, clock, removed, waiting, reads, ended>>

ShowInPlace(r) ==
  /\ lossy
  /\ Leaves(r)
  /\ shown' = [shown EXCEPT ![r] = Append(@, Oldest(r))]
  /\ UNCHANGED <<lossy, clock, removed, reads, held, ended>>

End(r) ==
  /\ ended' = ended \cup {r}
  /\ held' = [held EXCEPT ![r] = 0]
  /\ UNCHANGED <<lossy, clock, removed, waiting, reads, shown>>

(* The dates of the channel are lost, and none is written any more. *)
Remove(c) ==
  /\ ~lossy
  /\ removed' = removed \cup {c}
  /\ waiting' = [waiting EXCEPT ![c] = {}]
  /\ UNCHANGED <<lossy, clock, reads, held, shown, ended>>

Next ==
  \/ \E c \in Channels : Write(c) \/ Remove(c) \/ \E r \in Readers : Open(r, c)
  \/ \E r \in Readers : Take(r) \/ Show(r) \/ ShowInPlace(r) \/ End(r)

Spec == Init /\ [][Next]_vars

(* What the channel is for: a reader displays later and later dates, and no
   date is displayed twice, by one reader or by two. *)
DisplayedOnce ==
  /\ \A r \in Readers : \A i, j \in DOMAIN shown[r] : i < j => shown[r][i] < shown[r][j]
  /\ \A r, q \in Readers : r # q =>
       \A i \in DOMAIN shown[r], j \in DOMAIN shown[q] : shown[r][i] # shown[q][j]

=============================================================================
