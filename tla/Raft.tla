-------------------------------- MODULE Raft --------------------------------
(***************************************************************************)
(* The consensus protocol of src/src/raft/raft.rs over a network that      *)
(* loses, duplicates and reorders messages.                                *)
(*                                                                         *)
(* A handler of Raft takes the node's state and a message and leaves a     *)
(* state and messages to send.  It is an operator with that result; step   *)
(* puts the handlers together, and an action of the system applies them to *)
(* one node.  The driver that handles a Ready is not part of the           *)
(* repository: here it takes a Ready after every step, stores its entries  *)
(* and its hard state and then puts its messages on the network.  What a   *)
(* crash between these does, and the entries a Ready has to apply, are in  *)
(* RawNode.  Timers are abstracted to a tick that may fire at any moment.  *)
(***************************************************************************)
EXTENDS RaftLog, Integers, FiniteSets

CONSTANTS
    Node,
    NONE,       \* no node
    Elections,  \* bound: the elections a timer may start, as pairs of node and term
    Heartbeats, \* bound: the heartbeats a timer may send, as pairs of node and commit index
    Proposals,  \* bound: the proposals a client may make, as pairs of node and last index
    Mortal,     \* the nodes that may stop and start again
    MaxEntries  \* bound on the length of a log, which repeated appends make grow

ASSUME NodeAssumption == NONE \notin Node /\ IsFiniteSet(Node)
ASSUME BoundsAssumption ==
    /\ Elections \cup Heartbeats \cup Proposals \subseteq Node \X Nat
    /\ Mortal \subseteq Node
    /\ MaxEntries \in Nat

VARIABLES
    node,   \* the state of each Raft instance
    stored, \* the entries each node has stored, by index, and the last index written
    msgs    \* every message ever sent

vars == <<node, stored, msgs>>

Message(type, s, to, index) ==
    [type |-> type, from |-> s.id, to |-> to, term |-> s.term, log_term |-> 0, index |-> index,
     entries |-> << >>, commit |-> 0, reject |-> FALSE]

\* The outcome of a handler.
Out(s, out) == [s |-> s, out |-> out]

Panic(s) == Out([s EXCEPT !.state = "Panicked"], {})

Peers(s) == DOMAIN s.prs

quorum(s) == (Cardinality(Peers(s)) + 1) \div 2 + 1
-----------------------------------------------------------------------------
(* Roles. *)

become_follower(s, term, lead) ==
    [s EXCEPT !.term = term, !.lead = lead, !.state = "Follower", !.vote = NONE,
              !.granted = {}, !.rejected = {}]

become_candidate(s) ==
    [s EXCEPT !.term = @ + 1, !.state = "Candidate", !.vote = s.id,
              !.granted = {s.id}, !.rejected = {}, !.lead = NONE]

TermOrZero(log, index) ==
    IF term_sync(log, index) = {} THEN 0 ELSE CHOOSE t \in term_sync(log, index) : TRUE

\* send_append slices out of range when next_index has sunk below the first
\* entry, or when it lies past the end of a log whose indexes have gaps.
SendPanics(s, to) ==
    LET next == s.prs[to].next
        first == first_index(s.log)
    IN  /\ next <= last_index(s.log)
        /\ next < first \/ next - first > Len(s.log.entries)


send_append(s, to) ==
    LET next == s.prs[to].next
        first == first_index(s.log)
        last == last_index(s.log)
        end == IF last - first + 1 < Len(s.log.entries) THEN last - first + 1 ELSE Len(s.log.entries)
    IN  IF next > last + 1 THEN {}
        ELSE {[Message("Append", s, to, next - 1) EXCEPT
                  !.log_term = TermOrZero(s.log, next - 1),
                  !.entries = IF next <= last THEN SubSeq(s.log.entries, next - first + 1, end) ELSE << >>,
                  !.commit = s.log.committed]}

bcast_append(s) ==
    IF \E to \in Peers(s) : SendPanics(s, to) THEN Panic(s)
    ELSE Out(s, UNION {send_append(s, to) : to \in Peers(s)})

\* Every peer is taken to be up to date until it says otherwise, and an entry
\* of the new term goes into the log.
become_leader(s) ==
    LET last == last_index(s.log)
        noop == <<Entry(s.term, last + 1, s.id)>>
    IN  IF AppendPanics(s.log, noop) THEN Panic(s)
        ELSE bcast_append([s EXCEPT !.state = "Leader", !.lead = s.id,
                 !.prs = [p \in Peers(s) |-> [match |-> 0, next |-> last + 1]],
                 !.log = append(@, noop)])

campaign(s) ==
    LET c == become_candidate(s)
        last == last_index(s.log)
    IN  IF quorum(s) = 1 THEN become_leader(c)
        ELSE Out(c, {[Message("RequestVote", c, to, last) EXCEPT !.log_term = t] :
                        to \in Peers(s), t \in term_sync(s.log, last)})
-----------------------------------------------------------------------------
(* Voting. *)

handle_request_vote(s, m) ==
    LET last == last_index(s.log)
        last_term == TermOrZero(s.log, last)
        can_vote == s.vote \in {NONE, m.from}
        log_ok == m.log_term > last_term \/ (m.log_term = last_term /\ m.index >= last)
        answer == Message("RequestVoteResponse", s, m.from, 0)
    IN  IF m.term = s.term /\ can_vote /\ log_ok
        THEN Out([s EXCEPT !.vote = m.from], {answer})
        ELSE Out(s, {[answer EXCEPT !.reject = TRUE]})

\* Mutant: every answer is recorded as a vote.
VoteResponseIgnoresReject(s, m) ==
    LET c == [s EXCEPT !.granted = @ \cup {m.from}]
    IN  IF m.term # s.term THEN Out(s, {})
        ELSE IF Cardinality(c.granted) >= quorum(s) THEN become_leader(c) ELSE Out(c, {})

handle_request_vote_response(s, m) ==
    LET c == [s EXCEPT !.granted = IF m.reject THEN @ \ {m.from} ELSE @ \cup {m.from},
                       !.rejected = IF m.reject THEN @ \cup {m.from} ELSE @ \ {m.from}]
    IN  IF m.term # s.term THEN Out(s, {})
        ELSE IF Cardinality(c.granted) >= quorum(s) THEN become_leader(c)
        ELSE IF Cardinality(c.rejected) >= quorum(s) THEN Out(become_follower(c, c.term, NONE), {})
        ELSE Out(c, {})
-----------------------------------------------------------------------------
(* Replication. *)

\* A follower never commits past its own log.
CommitTo(log, commit) ==
    [log EXCEPT !.committed = IF commit <= @ THEN @
                              ELSE IF commit <= last_index(log) THEN commit ELSE last_index(log)]

handle_append_entries(s, m) ==
    LET f == [s EXCEPT !.lead = m.from]
        last == last_index(s.log)
        log == CommitTo(append(s.log, m.entries), m.commit)
        answer(index) == Message("AppendResponse", s, m.from, index)
        rejection(index) == [answer(index) EXCEPT !.reject = TRUE]
    IN  IF m.term < s.term THEN Out(s, {rejection(0)})
        ELSE IF m.index > last THEN Out(f, {rejection(last)})
        ELSE IF term_sync(s.log, m.index) = {} THEN Out(f, {})
        ELSE IF m.index > 0 /\ term_sync(s.log, m.index) # {m.log_term}
             THEN Out(f, {rejection(m.index - 1)})
        ELSE IF AppendPanics(s.log, m.entries) THEN Panic(s)
        ELSE Out([f EXCEPT !.log = log], {answer(last_index(log))})

handle_heartbeat(s, m) ==
    IF m.term < s.term THEN Out(s, {})
    ELSE Out([s EXCEPT !.lead = m.from, !.log = CommitTo(@, m.commit)],
             {Message("HeartbeatResponse", s, m.from, 0)})

\* The quorum-th largest match index of the peers; the leader is not counted.
CommitIndex(s) ==
    CHOOSE i \in {s.prs[p].match : p \in Peers(s)} :
        /\ Cardinality({p \in Peers(s) : s.prs[p].match >= i}) >= quorum(s)
        /\ Cardinality({p \in Peers(s) : s.prs[p].match > i}) < quorum(s)

maybe_commit(s) ==
    IF /\ Cardinality(Peers(s)) >= quorum(s)
       /\ CommitIndex(s) > s.log.committed
       /\ term_sync(s.log, CommitIndex(s)) = {s.term}
    THEN [s EXCEPT !.log.committed = CommitIndex(s)]
    ELSE s

update_match(pr, index) == [match |-> index, next |-> index + 1]

decrease_next(pr, index) ==
    [pr EXCEPT !.next = IF pr.next > 1 /\ pr.next > index + 1 THEN index + 1 ELSE pr.next - 1]

SendTo(s, to) == IF SendPanics(s, to) THEN Panic(s) ELSE Out(s, send_append(s, to))

handle_append_response(s, m) ==
    LET r == [s EXCEPT !.prs[m.from] = decrease_next(@, m.index)]
        a == maybe_commit([s EXCEPT !.prs[m.from] = update_match(@, m.index)])
    IN  IF m.term < s.term THEN Out(s, {})
        ELSE IF m.reject THEN SendTo(r, m.from)
        ELSE IF a.prs[m.from].next <= last_index(a.log) THEN SendTo(a, m.from)
        ELSE Out(a, {})

handle_heartbeat_response(s, m) ==
    IF m.term >= s.term /\ s.prs[m.from].next <= last_index(s.log) THEN SendTo(s, m.from)
    ELSE Out(s, {})
-----------------------------------------------------------------------------
(* step: a message of a later term makes a follower first; then the role   *)
(* decides.  A candidate follows the sender of MsgAppend or MsgHeartbeat   *)
(* whatever its term.                                                      *)

Catchup(s, m) ==
    IF m.term <= s.term THEN s
    ELSE become_follower(s, m.term, IF m.type \in {"RequestVote", "Append"} THEN NONE ELSE m.from)

step_follower(s, m) ==
    CASE m.type = "Append"      -> handle_append_entries(s, m)
      [] m.type = "Heartbeat"   -> handle_heartbeat(s, m)
      [] m.type = "RequestVote" -> handle_request_vote(s, m)
      [] OTHER                  -> Out(s, {})

step_candidate(s, m) ==
    LET f == become_follower(s, m.term, m.from) IN
    CASE m.type = "Append"              -> handle_append_entries(f, m)
      [] m.type = "Heartbeat"           -> handle_heartbeat(f, m)
      [] m.type = "RequestVote"         -> handle_request_vote(s, m)
      [] m.type = "RequestVoteResponse" -> handle_request_vote_response(s, m)
      [] OTHER                          -> Out(s, {})

step_leader(s, m) ==
    CASE m.type = "AppendResponse"    -> handle_append_response(s, m)
      [] m.type = "HeartbeatResponse" -> handle_heartbeat_response(s, m)
      [] m.type = "RequestVote"       -> handle_request_vote(s, m)
      [] OTHER                        -> Out(s, {})

step(s, m) ==
    LET t == Catchup(s, m) IN
    CASE t.state = "Follower"  -> step_follower(t, m)
      [] t.state = "Candidate" -> step_candidate(t, m)
      [] t.state = "Leader"    -> step_leader(t, m)
-----------------------------------------------------------------------------
(* The system. *)

NewProgress(peers, log) == [p \in peers |-> [match |-> 0, next |-> last_index(log) + 1]]

NewNode(n) ==
    [id |-> n, term |-> 0, vote |-> NONE, state |-> "Follower", lead |-> NONE,
     granted |-> {}, rejected |-> {}, prs |-> NewProgress(Node \ {n}, EmptyLog), log |-> EmptyLog]

NothingStored == [log |-> << >>, last |-> 0]

Init ==
    /\ node = [n \in Node |-> NewNode(n)]
    /\ stored = [n \in Node |-> NothingStored]
    /\ msgs = {}

Alive(n) == node[n].state # "Panicked"

\* write_raft_log: a put per entry, so that of entries with the same index the
\* last one stays; and the last index of the raft state.
LastWith(es, i) ==
    CHOOSE p \in DOMAIN es : es[p].index = i /\ \A q \in DOMAIN es : es[q].index = i => q <= p

Store(d, es) ==
    LET written == {es[p].index : p \in DOMAIN es}
    IN  IF es = << >> THEN d
        ELSE [log |-> [i \in DOMAIN d.log \cup written |->
                          IF i \in written THEN es[LastWith(es, i)] ELSE d.log[i]],
              last |-> es[Len(es)].index]

\* After advance and after RaftLog::new the log of n is stabled up to the last
\* index written; the field of node[n].log, which counts while the log is empty and
\* nothing is stored, stays 0.
Stabled(n, log) == [log EXCEPT !.stabled = stored[n].last]

\* Node n is left in the outcome of a handler and its Ready is taken care of.  A
\* panic of either ends its process: what the handler had done is gone with it.
Apply(n, outcome) ==
    \E r \in {outcome} :
        LET log == Stabled(n, r.s.log)
            panics == r.s.state = "Panicked" \/ UnstablePanics(log)
        IN  /\ Len(r.s.log.entries) <= MaxEntries
            /\ node' = [node EXCEPT ![n] = IF panics THEN [@ EXCEPT !.state = "Panicked"] ELSE r.s]
            /\ stored' = [stored EXCEPT ![n] = IF panics THEN @ ELSE Store(@, unstable_entries(log))]
            /\ msgs' = IF panics THEN msgs ELSE msgs \cup r.out

\* The election timer of a follower or candidate, or RawNode::campaign.
Hup(n) ==
    /\ node[n].state \in {"Follower", "Candidate"}
    /\ <<n, node[n].term + 1>> \in Elections
    /\ Apply(n, campaign(node[n]))

bcast_heartbeat(s) ==
    Out(s, {[Message("Heartbeat", s, to, 0) EXCEPT !.commit = s.log.committed] : to \in Peers(s)})

\* The heartbeat timer of a leader.
Beat(n) ==
    /\ <<n, node[n].log.committed>> \in Heartbeats
    /\ node[n].state = "Leader"
    /\ Apply(n, bcast_heartbeat(node[n]))

\* A proposal at the leader.  A candidate ignores one; a follower's forwarded
\* MsgPropose is refused by RawNode::step at the leader and has no effect.
Propose(n) ==
    LET s == node[n]
        es == <<Entry(s.term, last_index(s.log) + 1, n)>>
    IN  /\ s.state = "Leader"
        /\ <<n, last_index(s.log)>> \in Proposals
        /\ Apply(n, IF AppendPanics(s.log, es) THEN Panic(s)
                    ELSE bcast_append(maybe_commit([s EXCEPT !.log = append(@, es)])))

\* RawNode::step.  The message stays on the network and may come again.
Receive(m) ==
    /\ Alive(m.to)
    /\ Apply(m.to, step(node[m.to], m))

\* read_raft_log stops at the first index that is missing.
ReadRaftLogTo(d, last) ==
    /\ 1..last \subseteq DOMAIN d.log
    /\ last = d.last \/ last + 1 \notin DOMAIN d.log

\* The process of n starts again from what it stored: RaftLog::new and Raft::new.
Restart(n) ==
    /\ n \in Mortal
    /\ \E last \in 0..stored[n].last :
          LET log == [node[n].log EXCEPT !.entries = [i \in 1..last |-> stored[n].log[i]]]
          IN  /\ ReadRaftLogTo(stored[n], last)
              /\ node' = [node EXCEPT ![n] =
                    [@ EXCEPT !.state = "Follower", !.lead = NONE, !.granted = {}, !.rejected = {},
                              !.prs = NewProgress(Peers(node[n]), log), !.log = log]]
    /\ UNCHANGED <<stored, msgs>>

Next ==
    \/ \E n \in Node : Hup(n) \/ Beat(n) \/ Propose(n) \/ Restart(n)
    \/ \E m \in msgs : Receive(m)

Spec == Init /\ [][Next]_vars
-----------------------------------------------------------------------------
(* Properties. *)

\* The nodes that granted c their vote in a term, c's own included.
VotersOf(c, term) ==
    {c} \cup {m.from : m \in {m \in msgs : /\ m.type = "RequestVoteResponse" /\ ~m.reject
                                            /\ m.to = c /\ m.term = term}}

\* Every entry of every log was made by a node that a majority voted for in
\* the entry's term: nobody writes to the log without an election.
ElectedAuthors ==
    \A n \in Node : \A i \in DOMAIN node[n].log.entries :
        LET e == node[n].log.entries[i]
        IN  2 * Cardinality(VotersOf(e.data, e.term)) > Cardinality(Node)

\* A leader adds to its log and never cuts it, whatever the log it started
\* from looked like after duplicated appends.
LeaderAppendOnly ==
    [][\A n \in Node :
          node[n].state = "Leader" /\ node'[n].state = "Leader" =>
              \A i \in DOMAIN node[n].log.entries :
                  /\ i \in DOMAIN node'[n].log.entries
                  /\ node'[n].log.entries[i] = node[n].log.entries[i]]_vars

\* What a node has committed is not rewritten in its log while it runs, not by a
\* late or repeated MsgAppend and not by a later leader: append panics before.
\* (A restart may put another entry there: it reads back what was last stored
\* under the index, see Store.)
CommittedNotOverwritten ==
    [][\A n \in Node : \A i \in DOMAIN node[n].log.entries :
          i <= node[n].log.committed =>
              \/ /\ i \in DOMAIN node'[n].log.entries
                 /\ node'[n].log.entries[i] = node[n].log.entries[i]
              \/ Restart(n)]_vars

=============================================================================
