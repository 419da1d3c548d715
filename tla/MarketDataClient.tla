-------------------------- MODULE MarketDataClient --------------------------
(***************************************************************************)
(* The market-data client's sequence-gap and rewind state machine          *)
(* (src/lib/client/market_data_client.cpp), driven by a MoldUDP64 feed     *)
(* over UDP and by a rewinder that answers retransmission requests.        *)
(*                                                                         *)
(* A packet is abstracted to the range of sequence numbers it carries      *)
(* (its MoldUDP64 header); its ITCH payload is abstracted to the fact that *)
(* each of those messages is applied once more to the order book.  The     *)
(* client is single-threaded: one Receive step is one whole call of        *)
(* MarketDataClient::parse.                                                *)
(*                                                                         *)
(* Environment: the exchange publishes messages 1..MaxSeq in packets of at *)
(* most MaxCount messages; the network may lose live packets, deliver them *)
(* in any order, and (when Duplicating) deliver one twice.  The rewinder   *)
(* answers each request with one or more packets; it ignores a request  *)
(* of count 0, and, when RewinderChecksSession, one whose session name is *)
(* not the feed's.                                                         *)
(***************************************************************************)
EXTENDS Naturals, Sequences, SequencesExt, FiniteSetsExt

CONSTANTS
  MaxSeq,                \* last sequence number the exchange publishes
  MaxCount,              \* most messages in one packet
  CountBits,             \* width of the MoldUDP64 message_count field (16)
  Duplicating,           \* the network may deliver a datagram twice
  RewinderChecksSession, \* the rewinder ignores requests for another session
  FeedSession,           \* the session name the feed carries
  UnsetSession           \* the value of a never-assigned m_sessionName

ASSUME MaxSeq \in Nat \ {0}
ASSUME MaxCount \in Nat \ {0}
ASSUME CountBits \in Nat \ {0}
ASSUME Duplicating \in BOOLEAN /\ RewinderChecksSession \in BOOLEAN

\* uint16_t message_count: a count is stored modulo 2^CountBits.
CountModulus == 2^CountBits

States == {"Initial", "Rewinding", "Continuous"}   \* Joined, Snapshotting unreachable

SeqNo == 1..MaxSeq

Packets == [kind : {"live", "rewound"}, seq : SeqNo, count : 1..MaxCount]

Requests == [seq : SeqNo, count : 0..(CountModulus - 1),
             session : {FeedSession, UnsetSession}]

VARIABLES
  state,          \* m_state
  missing,        \* m_missingSequenceNumbers (back = Last)
  lastRequested,  \* m_lastRequestedSequenceNumber
  rewindTill,     \* m_rewindNeededTillThisSequenceNumberExclusive
  nextExpected,   \* m_nextExpectedSeqNo
  undefinedRead,  \* back() was called on an empty missing vector
  published,      \* exchange: next sequence number to publish
  net,            \* datagrams in flight to the client
  requests,       \* rewind requests in flight to / queued at the rewinder
  applied         \* history: times each message was applied (saturating at 2)

clientVars == <<state, missing, lastRequested, rewindTill, nextExpected, undefinedRead>>
vars == <<clientVars, published, net, requests, applied>>

-----------------------------------------------------------------------------
(* Client state and helpers                                                *)

Init ==
  /\ state = "Initial"
  /\ missing = <<>>
  /\ lastRequested = 0
  /\ rewindTill = 0
  /\ nextExpected = 1
  /\ undefinedRead = FALSE
  /\ published = 1
  /\ net = {}
  /\ requests = {}
  /\ applied = [k \in SeqNo |-> 0]

\* Mutant: the per-message loop stops one message short of message_count.
ApplyPacketShort(s, c) ==
  [k \in SeqNo |-> IF k \in s..(s + c - 2) THEN Min({applied[k] + 1, 2})
                                             ELSE applied[k]]

\* parse() hands every packet to the ITCH parser first, whatever the state:
\* each message of the packet is applied to the builder.
ApplyPacket(s, c) ==
  [k \in SeqNo |-> IF k \in s..(s + c - 1) THEN Min({applied[k] + 1, 2})
                                             ELSE applied[k]]

\* Mutant: the count leaves out the received number's predecessor.
RewindRequestShort(expected, received) ==
  [seq     |-> expected,
   count   |-> (received - expected - 1) % CountModulus,
   session |-> UnsetSession]

\* The rewind request built by requestMissingPackets and sent by rewind():
\* the count is narrowed to uint16_t, and the session is m_sessionName,
\* which setSessionName (never called) would have set.
RewindRequest(expected, received) ==
  [seq     |-> expected,
   count   |-> (received - expected) % CountModulus,
   session |-> UnsetSession]

\* requestMissingPackets(expected, received) followed by rewind(): a request
\* only when received > expected, and then the state becomes Rewinding.
IssueRequest(expected, received, reqs) ==
  IF received > expected THEN reqs \cup {RewindRequest(expected, received)}
                         ELSE reqs

StateAfterRequest(expected, received, st) ==
  IF received > expected THEN "Rewinding" ELSE st

RequestMissing(expected, received, st, reqs) ==
  /\ state' = StateAfterRequest(expected, received, st)
  /\ requests' = IssueRequest(expected, received, reqs)

\* calculateNextSequenceNumber's gap test, made against the old counter.
GapDetected(s) == nextExpected # 0 /\ s # nextExpected

\* The loop over the received numbers while Rewinding: each number equal to
\* missing.back() pops it; back() of an empty vector is undefined.
RECURSIVE MatchRewound(_, _, _)
MatchRewound(m, r, hi) ==
  IF r > hi THEN [missing |-> m, emptyRead |-> FALSE]
  ELSE IF m = <<>> THEN [missing |-> m, emptyRead |-> TRUE]
  ELSE IF Last(m) = r THEN MatchRewound(Front(m), r + 1, hi)
  ELSE MatchRewound(m, r + 1, hi)

\* Mutant: the gap request starts at the counter's old value, as the
\* requestMissingPackets(expected, received) signature intends.
NormalFlowOldExpected(s, c, st, reqs) ==
  IF s > rewindTill
  THEN /\ nextExpected' = s + c
       /\ IF GapDetected(s)
          THEN RequestMissing(nextExpected, s, st, reqs)
          ELSE state' = st /\ requests' = reqs
  ELSE /\ nextExpected' = nextExpected
       /\ state' = st
       /\ requests' = reqs

\* The ordinary-flow tail of parse(): above the rewind boundary the counter
\* is recomputed and, on a gap, missing packets are requested between the
\* (already updated) counter and the received number.
NormalFlow(s, c, st, reqs) ==
  IF s > rewindTill
  THEN /\ nextExpected' = s + c
       /\ IF GapDetected(s)
          THEN RequestMissing(s + c, s, st, reqs)
          ELSE state' = st /\ requests' = reqs
  ELSE /\ nextExpected' = nextExpected
       /\ state' = st
       /\ requests' = reqs

-----------------------------------------------------------------------------
(* MarketDataClient::parse, one action per path through it                 *)

\* State Rewinding: match the packet's numbers against the missing list,
\* then finish, re-request the rest, or wait; then the ordinary-flow tail.
ParseRewinding(s, c) ==
  LET res == MatchRewound(missing, s, s + c - 1)
      m   == res.missing
  IN
  /\ state = "Rewinding"
  /\ missing' = m
  /\ undefinedRead' = (undefinedRead \/ res.emptyRead)
  /\ rewindTill' = rewindTill
  /\ IF m = <<>>
     THEN /\ lastRequested' = lastRequested
          /\ NormalFlow(s, c, "Continuous", requests)
     ELSE IF lastRequested # Last(m)
     THEN /\ lastRequested' = Last(m)
          /\ NormalFlow(s, c,
               StateAfterRequest(Last(m), Head(m) + 1, "Rewinding"),
               IssueRequest(Last(m), Head(m) + 1, requests))
     ELSE /\ lastRequested' = lastRequested
          /\ NormalFlow(s, c, "Rewinding", requests)

\* Mutant: the push_back loop runs down to 0.
ParseInitialSyncToZero(s, c) ==
  /\ state = "Initial"
  /\ s # 1
  /\ nextExpected = 1
  /\ missing' = [i \in 1..s |-> s - i]
  /\ lastRequested' = 1
  /\ rewindTill' = s
  /\ RequestMissing(1, s, state, requests)
  /\ UNCHANGED <<nextExpected, undefinedRead>>

\* Initial sync: the first packet is not number 1; every number below it is
\* missing, newest first, and [1, s) is requested.  parse() returns here.
ParseInitialSync(s, c) ==
  /\ state = "Initial"
  /\ s # 1
  /\ nextExpected = 1
  /\ missing' = [i \in 1..(s - 1) |-> s - i]
  /\ lastRequested' = 1
  /\ rewindTill' = s
  /\ RequestMissing(1, s, state, requests)
  /\ UNCHANGED <<nextExpected, undefinedRead>>

\* Neither branch taken: only the ordinary-flow tail runs.
ParseOrdinary(s, c) ==
  /\ state # "Rewinding"
  /\ ~(state = "Initial" /\ s # 1 /\ nextExpected = 1)
  /\ NormalFlow(s, c, state, requests)
  /\ UNCHANGED <<missing, lastRequested, rewindTill, undefinedRead>>

\* The receive loop hands a datagram to parse(); the datagram leaves the
\* network unless it is delivered again later.
Receive(p) ==
  /\ p \in net
  /\ \/ net' = net \ {p}
     \/ Duplicating /\ net' = net
  /\ applied' = ApplyPacket(p.seq, p.count)
  /\ \/ ParseRewinding(p.seq, p.count)
     \/ ParseInitialSync(p.seq, p.count)
     \/ ParseOrdinary(p.seq, p.count)
  /\ UNCHANGED published

-----------------------------------------------------------------------------
(* Environment: exchange feed, network and rewinder                        *)

Publish ==
  /\ published <= MaxSeq
  /\ \E c \in 1..MaxCount :
       /\ published + c - 1 <= MaxSeq
       /\ net' = net \cup {[kind |-> "live", seq |-> published, count |-> c]}
       /\ published' = published + c
  /\ UNCHANGED <<clientVars, requests, applied>>

LoseLive(p) ==
  /\ p \in net
  /\ p.kind = "live"
  /\ net' = net \ {p}
  /\ UNCHANGED <<clientVars, published, requests, applied>>

\* The rewinder answers the first c messages of a request in one packet and
\* keeps the rest of the request.  A request of count 0, or for a session
\* the rewinder does not serve, is never answered.
Serviceable(r) == r.count # 0 /\ (RewinderChecksSession => r.session = FeedSession)

RewinderServe(r) ==
  /\ r \in requests
  /\ Serviceable(r)
  /\ \E c \in 1..Min({r.count, MaxCount}) :
       /\ net' = net \cup {[kind |-> "rewound", seq |-> r.seq, count |-> c]}
       /\ requests' = (requests \ {r}) \cup
            (IF c < r.count
             THEN {[r EXCEPT !.seq = r.seq + c, !.count = r.count - c]}
             ELSE {})
  /\ UNCHANGED <<clientVars, published, applied>>

Next ==
  \/ Publish
  \/ \E p \in net : Receive(p)
  \/ \E p \in net : LoseLive(p)
  \/ \E r \in requests : RewinderServe(r)

\* The client's thread blocks in recvfrom and parses every datagram the
\* kernel delivers; the exchange keeps publishing; the rewinder keeps
\* serving.  Losing a packet is never forced.
Fairness ==
  /\ WF_vars(Publish)
  /\ \A p \in Packets : WF_vars(Receive(p))
  /\ \A r \in Requests : WF_vars(RewinderServe(r))

Spec == Init /\ [][Next]_vars /\ Fairness

-----------------------------------------------------------------------------
(* Properties                                                              *)

TypeOK ==
  /\ state \in States
  /\ missing \in Seq(SeqNo)
  /\ lastRequested \in 0..MaxSeq
  /\ rewindTill \in 0..MaxSeq
  /\ nextExpected \in 1..(MaxSeq + MaxCount)
  /\ undefinedRead \in BOOLEAN
  /\ published \in 1..(MaxSeq + 1)
  /\ net \subseteq Packets
  /\ requests \subseteq Requests
  /\ applied \in [SeqNo -> 0..2]

\* parse() reads missing.back() whenever it is Rewinding: the missing list
\* is never empty while Rewinding, and back() is never read from an empty
\* vector.
MissingBackDefined ==
  /\ ~undefinedRead
  /\ state = "Rewinding" => missing # <<>>

\* A number below the rewind boundary that is no longer missing has really
\* been applied to the book: the rewind bookkeeping never claims a message
\* it has not received.
RecoveredWereApplied ==
  \A k \in 1..(rewindTill - 1) :
    k \notin ToSet(missing) => applied[k] > 0

\* Once the client starts rewinding it eventually returns to Continuous.
CatchUp == (state = "Rewinding") ~> (state = "Continuous")

\* A gap the client can see is eventually filled: once a later message has
\* been applied, so that parse() has received a packet past the missing
\* one, the missing message is eventually applied too (spec 4.10: missing
\* packets are requested from the rewinder).
DetectedGapsFilled ==
  \A k \in SeqNo :
    (applied[k] = 0 /\ \E j \in (k + 1)..MaxSeq : applied[j] > 0) ~> (applied[k] > 0)

=============================================================================
