------------------------------ MODULE Consensus ------------------------------
(***************************************************************************)
(* The polls of workers about a task or a plan (consensus.py).  A vote      *)
(* reads the whole record, adds to its list and writes the record back, on  *)
(* a connection of its own: votes cast at once overwrite each other.  Only  *)
(* how many voted for what matters here; the same voter may vote twice.     *)
(***************************************************************************)
EXTENDS Naturals

CONSTANTS
  Voters,   \* threads in cast_vote
  Polls,    \* pairs of a target and a topic
  Quorums,  \* values of quorum_required
  MaxVotes, \* bound on the votes cast in one poll
  None

VARIABLES
  records,  \* consensus_records: of each poll its row, or None
  ballot    \* of each voter the record it read, with the vote it adds

vars == <<records, ballot>>

Decisions == {"approve", "reject", "refine"}
Votes == [Decisions -> Nat]
Record == [status: {"pending", "reached", "failed"}, quorum: Quorums, votes: Votes]
Ballot == [poll: Polls, record: Record, vote: Decisions]

TypeOK ==
  /\ records \in [Polls -> Record \cup {None}]
  /\ ballot \in [Voters -> Ballot \cup {None}]

Init == records = [p \in Polls |-> None] /\ ballot = [v \in Voters |-> None]

Count(votes) == votes["approve"] + votes["reject"] + votes["refine"]

-----------------------------------------------------------------------------
\* create_poll: ON CONFLICT DO NOTHING.
CreatePoll(p, quorum) ==
  /\ records[p] = None
  /\ records' = [records EXCEPT ![p] =
       [status |-> "pending", quorum |-> quorum, votes |-> [d \in Decisions |-> 0]]]
  /\ UNCHANGED ballot

\* cast_vote: the record is read; one that is settled is returned as it is.
ReadRecord(v, p, d) ==
  /\ ballot[v] = None
  /\ records[p] # None /\ records[p].status = "pending" /\ Count(records[p].votes) < MaxVotes
  /\ ballot' = [ballot EXCEPT ![v] = [poll |-> p, record |-> records[p], vote |-> d]]
  /\ UNCHANGED records

\* A slip for TLC: the outcome is taken before the vote is added.
SlipTally(record, vote) ==
  LET votes == [record.votes EXCEPT ![vote] = @ + 1] IN
  [record EXCEPT !.votes = votes,
     !.status = IF Count(votes) < record.quorum THEN "pending"
                ELSE IF record.votes["approve"] >= record.votes["reject"] THEN "reached" ELSE "failed"]

\* The vote is added, and the poll settled when there are enough.
Tally(record, vote) ==
  LET votes == [record.votes EXCEPT ![vote] = @ + 1] IN
  [record EXCEPT !.votes = votes,
     !.status = IF Count(votes) < record.quorum THEN "pending"
                ELSE IF votes["approve"] >= votes["reject"] THEN "reached" ELSE "failed"]

\* The whole record is written, over whatever was written since it was read.
WriteRecord(v) ==
  /\ ballot[v] # None
  /\ records' = [records EXCEPT ![ballot[v].poll] = Tally(ballot[v].record, ballot[v].vote)]
  /\ ballot' = [ballot EXCEPT ![v] = None]

Next ==
  \/ \E p \in Polls, quorum \in Quorums : CreatePoll(p, quorum)
  \/ \E v \in Voters, p \in Polls, d \in Decisions : ReadRecord(v, p, d)
  \/ \E v \in Voters : WriteRecord(v)

Spec == Init /\ [][Next]_vars

-----------------------------------------------------------------------------
\* However votes overwrite each other, a settled poll holds the votes that
\* settle it: as many as its quorum, and the decision is what they say; and a
\* poll that has its quorum is not left open (ConsensusEngine.cast_vote).
Backed(record) ==
  /\ record.status = "pending" => Count(record.votes) = 0 \/ Count(record.votes) < record.quorum
  /\ record.status # "pending" =>
       /\ Count(record.votes) >= record.quorum
       /\ (record.status = "reached") <=> (record.votes["approve"] >= record.votes["reject"])

DecisionBacked == \A p \in Polls : records[p] # None => Backed(records[p])
=============================================================================
