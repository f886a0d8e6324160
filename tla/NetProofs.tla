----------------------------- MODULE NetProofs -----------------------------
(***************************************************************************)
(* Proofs about Net, for any hosts, cache and ring size, number of tries   *)
(* and depth of nested calls, and about the network card under it.         *)
(***************************************************************************)
EXTENDS Net, E1000Rings, WellFoundedInduction, TLAPS

AllTags == Tags \cup Nat
NetFrames == [type : {"arp_request", "arp_other", "echo", "echo_reply", "other"},
              from : Hosts, tag : AllTags]
Packets == [type : {"echo", "echo_reply"}, to : Hosts, tag : AllTags]
SendCalls == [packet : Packets, attempt : 1..Attempts, left : 0..ResolveTicks]

-----------------------------------------------------------------------------
(* The invariants.                                                         *)

NetType ==
    /\ arp_cache \in [Slots -> [ip : MaybeHosts, mac : MaybeHosts]]
    /\ inbox \in Seq(NetFrames) /\ Len(inbox) <= RxSlots
    /\ calls \in Seq(SendCalls)
    /\ at \in {"loop", "poll", "check"}
    /\ ping \in {"idle", "sending", "waiting"}
    /\ pingNo \in Nat /\ elapsed \in 0..PingTicks
    /\ requested \subseteq Packets

\* A used slot of the cache holds the MAC of its address.
CacheTrue == \A i \in Slots : arp_cache[i].ip # NoHost => arp_cache[i].mac = arp_cache[i].ip

\* net_ping's own packet is the first of the waiting ones, and only while
\* net_ping has not sent it; without a ping nothing waits or runs.
OwnPacketFirst ==
    /\ ping = "idle" => calls = <<>> /\ at = "loop"
    /\ \A i \in 1..Len(calls) : calls[i].packet.type = "echo" => i = 1 /\ ping = "sending"

\* Requests that wait to be read, and replies that wait for a MAC, were asked.
AskedFor ==
    /\ \A i \in 1..Len(inbox) : inbox[i].type = "echo" => inbox[i] \in asked
    /\ \A i \in 1..Len(calls) :
          calls[i].packet.type = "echo_reply" =>
             Frame("echo", calls[i].packet.to, calls[i].packet.tag) \in asked

\* The loop of net_arp_resolve is at its head only without an answer.
Unanswered == calls # <<>> /\ at = "loop" => ~Cached(NextHop(Running.packet.to))

NetInv ==
    /\ NetType /\ CacheTrue /\ OwnPacketFirst /\ AskedFor /\ Unanswered
    /\ SentToNextHop /\ EchoAnswersRequest

\* One ping command: everything sent and answered is for its host, and numbered
\* by a ping that has begun.
OneCommand ==
    /\ pingNo <= SeqCount
    /\ \A p \in requested : p.type = "echo" /\ p.to = target /\ p.tag \in 1..pingNo
    /\ \A i \in 1..Len(inbox) : inbox[i].type = "echo_reply" =>
          inbox[i].from = target /\ inbox[i].tag \in 1..pingNo
    /\ \A i \in 1..Len(calls) : calls[i].packet.type = "echo" =>
          calls[i].packet.to = target /\ calls[i].packet.tag = pingNo
    /\ ping # "idle" => pingNo > 0

OneCommandInv == NetInv /\ OneCommand /\ ReplyIsOurs
-----------------------------------------------------------------------------
(* The cache and the frames that go out.                                   *)

LEMMA FirstIn ==
  ASSUME NEW S, S \subseteq Nat, S # {}
  PROVE  First(S) \in S
<1> DEFINE R == OpToRel(<, Nat)
<1>1. PICK x \in S : \A y \in S : ~(<<y, x>> \in R)
  <2> HIDE DEF R
  <2>1. IsWellFoundedOn(R, Nat)  BY NatLessThanWellFounded DEF R
  <2> QED  BY <2>1, WFMin
<1>2. R = {ss \in Nat \X Nat : ss[1] < ss[2]}  BY DEF OpToRel
<1>3. \A y \in S : ~(y < x)
  <2> SUFFICES ASSUME NEW y \in S, y < x PROVE <<y, x>> \in R  BY <1>1
  <2> HIDE DEF R
  <2>1. <<y, x>> \in Nat \X Nat /\ <<y, x>>[1] < <<y, x>>[2]  OBVIOUS
  <2> QED  BY <2>1, <1>2, Zenon
<1>4. \A y \in S : x <= y  BY <1>3
<1> QED  BY <1>4 DEF First

LEMMA HopOnLink ==
  ASSUME NEW ip \in Hosts
  PROVE  NextHop(ip) \in OnLink /\ NextHop(ip) \in Hosts /\ NextHop(ip) # NoHost
  BY HostsAssumption DEF NextHop, Hosts

\* A look into the cache brings the MAC of the address.
LEMMA CacheGet ==
  ASSUME CacheTrue, NEW h \in Hosts, Cached(h)
  PROVE  arp_cache_get(h) = h
<1>1. First(SlotsOf(h)) \in SlotsOf(h)
  BY FirstIn, SizesAssumption DEF Cached, SlotsOf, Slots
<1> QED  BY <1>1, HostsAssumption DEF arp_cache_get, SlotsOf, CacheTrue

\* Whichever slot is taken, it holds an address with its own MAC.
LEMMA CachePut ==
  ASSUME NetType, CacheTrue, NEW h \in Hosts, arp_cache' = arp_cache_put(h)
  PROVE  arp_cache' \in [Slots -> [ip : MaybeHosts, mac : MaybeHosts]] /\ CacheTrue'
<1>1. PICK slot \in Slots : arp_cache' = [arp_cache EXCEPT ![slot] = [ip |-> h, mac |-> h]]
  <2>1. \A ip : SlotsOf(ip) # {} => First(SlotsOf(ip)) \in Slots
    BY FirstIn, SizesAssumption DEF SlotsOf, Slots
  <2>2. 1 \in Slots  BY SizesAssumption DEF Slots
  <2> QED  BY <2>1, <2>2 DEF arp_cache_put
<1> QED  BY <1>1 DEF NetType, CacheTrue, MaybeHosts

\* A packet that goes to its next hop, and is asked for if it is a reply.
LEMMA SendFrame ==
  ASSUME SentToNextHop, EchoAnswersRequest, requested \subseteq Packets,
         NEW p \in Packets, NEW ok \in BOOLEAN,
         send_frame(p, NextHop(p.to), ok),
         p.type = "echo_reply" => Frame("echo", p.to, p.tag) \in asked,
         asked' = asked
  PROVE  /\ SentToNextHop' /\ EchoAnswersRequest' /\ requested' \subseteq Packets
         /\ requested' \subseteq requested \cup {p}
         /\ p.type = "echo_reply" => requested' = requested
<1>1. CASE ok  BY <1>1 DEF send_frame, SentToNextHop, EchoAnswersRequest
<1>2. CASE ~ok  BY <1>2 DEF send_frame, SentToNextHop, EchoAnswersRequest
<1> QED  BY <1>1, <1>2

\* ARP frames are none of the packets.
LEMMA SendArp ==
  ASSUME NEW type \in {"arp_request", "arp_reply"}, NEW to, send_arp(type, to)
  PROVE  SentToNextHop' /\ EchoAnswersRequest' /\ requested' = requested
  BY DEF send_arp, send_frame, Packet, SentToNextHop, EchoAnswersRequest
-----------------------------------------------------------------------------
(* What the shared parts of the actions do to the stack of calls.          *)

\* A resolve begins: the packet is pushed, its next hop is not cached.
LEMMA ResolvePushes ==
  ASSUME NetInv, NEW p \in Packets, Resolve(p), arp_cache' = arp_cache
  PROVE  /\ calls' \in Seq(SendCalls) /\ Len(calls') = Len(calls) + 1
         /\ \A i \in 1..Len(calls) : calls'[i] = calls[i]
         /\ calls'[Len(calls')].packet = p
         /\ at' = "loop" /\ Unanswered'
         /\ SentToNextHop' /\ EchoAnswersRequest' /\ requested' = requested
<1> DEFINE new == [packet |-> p, attempt |-> 1, left |-> ResolveTicks]
<1>1. new \in SendCalls  BY SizesAssumption DEF SendCalls
<1>2. /\ calls' \in Seq(SendCalls) /\ Len(calls') = Len(calls) + 1
      /\ \A i \in 1..Len(calls) : calls'[i] = calls[i]
      /\ calls'[Len(calls')] = new
  <2> HIDE DEF new
  <2>1. calls \in Seq(SendCalls) /\ calls' = Append(calls, new)
    BY DEF NetInv, NetType, Resolve, new
  <2> QED  BY <1>1, <2>1
<1>3. Unanswered'
  BY <1>2 DEF Unanswered, Running, Resolve, Cached, SlotsOf, NextHop
<1>4. SentToNextHop' /\ EchoAnswersRequest' /\ requested' = requested
  BY SendArp DEF Resolve
<1> QED  BY <1>2, <1>3, <1>4 DEF Resolve

\* A send returns: the last call is gone, and the caller polls on or has ended.
LEMMA ReturnPops ==
  ASSUME NetInv, calls # <<>>, NEW ok \in BOOLEAN, SendReturns(ok)
  PROVE  /\ calls' \in Seq(SendCalls) /\ Len(calls') = Len(calls) - 1
         /\ \A i \in 1..Len(calls') : calls'[i] = calls[i]
         /\ at' \in {"loop", "poll"}
         /\ at' = "loop" => calls' = <<>>
         /\ ping' \in {"idle", "sending", "waiting"}
         /\ ping' = "idle" => calls' = <<>> /\ at' = "loop"
         /\ ping' # ping => calls' = <<>>
         /\ UNCHANGED <<target, pingNo, ping_got_reply, elapsed, answer>>
         /\ Unanswered'
<1>1. calls \in Seq(SendCalls) /\ ping \in {"idle", "sending", "waiting"} /\ ping # "idle"
  BY DEF NetInv, NetType, OwnPacketFirst
<1>2. calls' = SubSeq(calls, 1, Len(calls) - 1)  BY DEF SendReturns, Front
<1>3. /\ calls' \in Seq(SendCalls) /\ Len(calls') = Len(calls) - 1
      /\ \A i \in 1..Len(calls') : calls'[i] = calls[i]
  <2>1. Len(calls) \in Nat /\ Len(calls) > 0  BY <1>1
  <2>2. \A i \in 1 .. Len(calls) - 1 : calls[i] \in SendCalls  BY <1>1
  <2>3. calls' = [i \in 1 .. Len(calls) - 1 |-> calls[i]]  BY <1>1, <1>2, <2>1
  <2>4. calls' \in Seq(SendCalls)  BY <1>1, <1>2, <2>1, <2>2, <2>3
  <2>5. Len(calls') = Len(calls) - 1
    <3>1. DOMAIN calls' = 1 .. Len(calls) - 1  BY <2>3
    <3>2. DOMAIN calls' = 1 .. Len(calls') /\ Len(calls') \in Nat  BY <2>4
    <3> QED  BY <2>1, <3>1, <3>2
  <2> QED  BY <2>1, <2>3, <2>4, <2>5
<1>4. Len(calls) <= 1 => calls' = <<>>  BY <1>1, <1>3
<1>5. CASE Len(calls) > 1 \/ ping = "waiting"
  <2>1. at' = "poll" /\ UNCHANGED pingVars  BY <1>5 DEF SendReturns
  <2> QED  BY <1>1, <1>3, <2>1 DEF pingVars, Unanswered
<1>6. CASE ~(Len(calls) > 1 \/ ping = "waiting")
  <2>1. /\ at' = "loop" /\ ping' = IF ok THEN "waiting" ELSE "idle"
        /\ UNCHANGED <<target, pingNo, ping_got_reply, elapsed, answer>>
    BY <1>6 DEF SendReturns
  <2>2. calls' = <<>>  BY <1>1, <1>4, <1>6
  <2> QED  BY <1>3, <2>1, <2>2 DEF Unanswered
<1> QED  BY <1>5, <1>6

\* A frame is read: what stays in the ring was there.
LEMMA ReadPops ==
  ASSUME NetInv, NEW type, PollReads(type)
  PROVE  /\ inbox' \in Seq(NetFrames) /\ Len(inbox') = Len(inbox) - 1
         /\ \A i \in 1..Len(inbox') : inbox'[i] = inbox[i + 1]
         /\ Len(inbox) > 0 /\ rx_frame' = inbox[1]
         /\ rx_frame' \in NetFrames /\ rx_frame'.type = type
         /\ asked' = asked /\ at = "poll"
<1>1. inbox \in Seq(NetFrames) /\ inbox # <<>> /\ inbox' = Tail(inbox)
  BY DEF NetInv, NetType, PollReads
<1> QED  BY <1>1 DEF PollReads, outside
-----------------------------------------------------------------------------
(* The steps.                                                              *)

LEMMA NetInit == Init => NetInv
<1> SUFFICES ASSUME Init PROVE NetInv  OBVIOUS
<1>1. NetType /\ CacheTrue
  BY SizesAssumption DEF Init, NetType, CacheTrue, MaybeHosts
<1>2. OwnPacketFirst /\ AskedFor /\ Unanswered /\ SentToNextHop /\ EchoAnswersRequest
  BY DEF Init, OwnPacketFirst, AskedFor, Unanswered, SentToNextHop, EchoAnswersRequest
<1> QED  BY <1>1, <1>2 DEF NetInv

\* The parts of NetInv that follow when calls, the cache and the frames sent and
\* received stay as they are.
LEMMA Quiet ==
  ASSUME NetInv,
         UNCHANGED <<arp_cache, inbox, calls, sent, requested, asked, pingNo>>,
         at' \in {"loop", "poll", "check"}, ping' \in {"idle", "sending", "waiting"},
         elapsed' \in 0..PingTicks,
         ping' # ping => calls = <<>>, ping' = "idle" => at' = "loop",
         calls # <<>> /\ at' = "loop" => ~Cached(NextHop(Running.packet.to))
  PROVE  NetInv'
<1>1. NetType' /\ CacheTrue'  BY DEF NetInv, NetType, CacheTrue
<1>2. OwnPacketFirst'  BY DEF NetInv, NetType, OwnPacketFirst
<1>3. AskedFor' /\ SentToNextHop' /\ EchoAnswersRequest'
  BY DEF NetInv, AskedFor, SentToNextHop, EchoAnswersRequest
<1>4. Unanswered'  BY DEF Unanswered, Running, Cached, SlotsOf
<1> QED  BY <1>1, <1>2, <1>3, <1>4 DEF NetInv

\* A packet of ours waits, or has been sent, for a host.
LEMMA OwnPacket ==
  ASSUME NetType, NEW h \in Hosts, NEW n \in Nat
  PROVE  Packet("echo", h, n) \in Packets
  BY DEF Packet, Packets, AllTags

LEMMA ReplyPacket ==
  ASSUME NEW f \in NetFrames
  PROVE  Packet("echo_reply", f.from, f.tag) \in Packets /\ f.from \in Hosts
  BY DEF Packet, Packets, NetFrames

\* Calls that keep their packets: time passes, another try begins.
LEMMA SamePackets ==
  ASSUME NetInv, calls' \in Seq(SendCalls), Len(calls') = Len(calls),
         \A i \in 1..Len(calls) : calls'[i].packet = calls[i].packet,
         UNCHANGED <<arp_cache, at, ping, inbox, asked>>
  PROVE  OwnPacketFirst' /\ AskedFor' /\ Unanswered'
<1>1. calls \in Seq(SendCalls)  BY DEF NetInv, NetType
<1>2. OwnPacketFirst'  BY <1>1 DEF NetInv, OwnPacketFirst
<1>3. AskedFor'  BY <1>1 DEF NetInv, AskedFor
<1>4. Unanswered'
  <2> SUFFICES ASSUME calls' # <<>>, at' = "loop"
               PROVE  ~Cached(NextHop(Running.packet.to))'
    BY DEF Unanswered
  <2>1. calls # <<>> /\ Len(calls) \in 1..Len(calls)  BY <1>1
  <2>2. calls'[Len(calls')].packet = calls[Len(calls)].packet  BY <2>1
  <2> QED  BY <2>1, <2>2 DEF NetInv, Unanswered, Running, Cached, SlotsOf, NextHop
<1> QED  BY <1>2, <1>3, <1>4

LEMMA NetPing ==
  ASSUME NetInv, NEW h \in Hosts, PingSends(h) \/ PingResolves(h)
  PROVE  NetInv'
<1> USE DEF NetInv
<1> DEFINE p == Packet("echo", h, pingNo')
<1>1. /\ ping = "idle" /\ calls = <<>> /\ pingNo' = pingNo + 1
      /\ elapsed' = 0 /\ UNCHANGED <<arp_cache, inbox, asked>>
  BY DEF PingSends, PingResolves, PingBegins, OwnPacketFirst, outside
<1>2. p \in Packets /\ p.to = h /\ p.type = "echo"
  BY <1>1, OwnPacket DEF NetType, Packet
<1>3. CacheTrue'  BY <1>1 DEF CacheTrue
<1>4. CASE PingSends(h)
  <2>1. PICK ok \in BOOLEAN : /\ send_frame(p, arp_cache_get(NextHop(h)), ok)
                              /\ ping' = IF ok THEN "waiting" ELSE "idle"
    BY <1>4 DEF PingSends
  <2>2. arp_cache_get(NextHop(h)) = NextHop(p.to)
    BY <1>2, <1>4, HopOnLink, CacheGet DEF PingSends
  <2>3. SentToNextHop' /\ EchoAnswersRequest' /\ requested' \subseteq Packets
    <3> HIDE DEF p
    <3> QED  BY <1>1, <1>2, <2>1, <2>2, SendFrame DEF NetType
  <2>4. calls' = <<>> /\ at' = "loop"  BY <1>1, <1>4 DEF PingSends
  <2>5. NetType'  BY <1>1, <2>1, <2>3, <2>4, SizesAssumption DEF NetType
  <2> QED
    BY <1>1, <1>3, <2>3, <2>4, <2>5 DEF OwnPacketFirst, AskedFor, Unanswered
<1>5. CASE PingResolves(h)
  <2>1. Resolve(p) /\ ping' = "sending"  BY <1>5 DEF PingResolves
  <2>2. /\ calls' \in Seq(SendCalls) /\ Len(calls') = 1
        /\ calls'[1].packet = p /\ at' = "loop" /\ Unanswered'
        /\ SentToNextHop' /\ EchoAnswersRequest' /\ requested' = requested
    <3> HIDE DEF p
    <3> QED  BY <1>1, <1>2, <2>1, ResolvePushes
  <2>3. NetType'  BY <1>1, <2>1, <2>2, SizesAssumption DEF NetType
  <2>4. OwnPacketFirst' /\ AskedFor'
    BY <1>1, <1>2, <2>1, <2>2 DEF OwnPacketFirst, AskedFor
  <2> QED  BY <1>3, <2>2, <2>3, <2>4
<1> QED  BY <1>4, <1>5

LEMMA NextTry ==
  ASSUME NEW r \in SendCalls, r.attempt < Attempts
  PROVE  LET new == [r EXCEPT !.attempt = @ + 1, !.left = ResolveTicks]
         IN  new \in SendCalls /\ new.packet = r.packet
<1>1. Attempts \in Nat /\ ResolveTicks \in Nat  BY SizesAssumption
<1>2. r.attempt + 1 \in 1..Attempts  BY <1>1 DEF SendCalls
<1> DEFINE s == [r EXCEPT !.attempt = r.attempt + 1]
           t == [s EXCEPT !.left = ResolveTicks]
<1>3. s \in SendCalls /\ s.packet = r.packet  BY <1>2 DEF SendCalls
<1>4. t \in SendCalls /\ t.packet = s.packet
  <2> HIDE DEF s
  <2> QED  BY <1>1, <1>3 DEF SendCalls
<1>5. t = [r EXCEPT !.attempt = @ + 1, !.left = ResolveTicks]  OBVIOUS
<1> QED  BY <1>3, <1>4, <1>5, Zenon

LEMMA NetResolve == ASSUME NetInv, ResolveSteps PROVE NetInv'
<1> USE DEF NetInv
<1> USE DEF outside
<1>1. CASE ResolvePolls
  <2>1. ping # "idle"  BY <1>1 DEF ResolvePolls, OwnPacketFirst
  <2> QED  BY <1>1, <2>1, Quiet DEF ResolvePolls, pingVars, NetType
<1>2. CASE ResolveWaits
  BY <1>2, Quiet DEF ResolveWaits, pingVars, NetType
<1>3. CASE ResolveRetries
  <2>1. /\ calls # <<>> /\ Running.attempt < Attempts
        /\ calls' = [calls EXCEPT ![Len(calls)].attempt = @ + 1,
                                  ![Len(calls)].left = ResolveTicks]
        /\ UNCHANGED <<arp_cache, inbox, at, pingVars, asked>>
    BY <1>3 DEF ResolveRetries
  <2>2. calls \in Seq(SendCalls) /\ Len(calls) \in 1..Len(calls)  BY <2>1 DEF NetType
  <2>3. /\ calls' \in Seq(SendCalls) /\ Len(calls') = Len(calls)
        /\ \A i \in 1..Len(calls) : calls'[i].packet = calls[i].packet
    <3> DEFINE n == Len(calls)
               new == [Running EXCEPT !.attempt = @ + 1, !.left = ResolveTicks]
    <3>1. Running \in SendCalls  BY <2>2 DEF Running
    <3>3. new \in SendCalls /\ new.packet = Running.packet
      BY <2>1, <3>1, NextTry, Zenon
    <3>4. calls' = [calls EXCEPT ![n] = new]  BY <2>1, <2>2 DEF Running
    <3>5. Running = calls[n]  BY DEF Running
    <3> HIDE DEF new
    <3> QED  BY <2>2, <3>3, <3>4, <3>5
  <2>4. SentToNextHop' /\ EchoAnswersRequest' /\ requested' = requested
    BY <1>3, SendArp DEF ResolveRetries
  <2>5. OwnPacketFirst' /\ AskedFor' /\ Unanswered'
    BY <2>1, <2>3, SamePackets DEF pingVars
  <2>6. NetType' /\ CacheTrue'  BY <2>1, <2>3, <2>4 DEF NetType, CacheTrue, pingVars
  <2> QED  BY <2>4, <2>5, <2>6
<1>4. ASSUME calls # <<>>, NEW ok \in BOOLEAN, SendReturns(ok),
             SentToNextHop', EchoAnswersRequest', requested' \subseteq Packets,
             UNCHANGED <<arp_cache, inbox, asked>>
      PROVE  NetInv'
  <2>1. /\ calls' \in Seq(SendCalls) /\ Len(calls') = Len(calls) - 1
        /\ \A i \in 1..Len(calls') : calls'[i] = calls[i]
        /\ at' \in {"loop", "poll"}
        /\ ping' \in {"idle", "sending", "waiting"}
        /\ ping' = "idle" => calls' = <<>> /\ at' = "loop"
        /\ ping' # ping => calls' = <<>>
        /\ UNCHANGED <<pingNo, elapsed>> /\ Unanswered'
    BY <1>4, ReturnPops
  <2>2. NetType' /\ CacheTrue'  BY <1>4, <2>1 DEF NetType, CacheTrue
  <2>3. calls \in Seq(SendCalls) /\ 1..Len(calls') \subseteq 1..Len(calls)
    BY <2>1 DEF NetType
  <2>4. OwnPacketFirst'
    BY <2>1, <2>3 DEF OwnPacketFirst
  <2>5. AskedFor'  BY <1>4, <2>1, <2>3 DEF AskedFor
  <2> QED  BY <1>4, <2>1, <2>2, <2>4, <2>5
<1>5. CASE ResolveTimesOut
  <2>1. /\ calls # <<>> /\ SendReturns(FALSE)
        /\ UNCHANGED <<arp_cache, inbox, sent, requested, asked>>
    BY <1>5 DEF ResolveTimesOut
  <2>2. SentToNextHop' /\ EchoAnswersRequest' /\ requested' \subseteq Packets
    BY <2>1 DEF SentToNextHop, EchoAnswersRequest, NetType
  <2> QED  BY <1>4, <2>1, <2>2
<1>6. CASE ResolveSends
  <2> DEFINE p == Running.packet
  <2>1. PICK ok \in BOOLEAN : send_frame(p, arp_cache_get(NextHop(p.to)), ok) /\ SendReturns(ok)
    BY <1>6 DEF ResolveSends
  <2>2. calls # <<>> /\ Cached(NextHop(p.to)) /\ UNCHANGED <<arp_cache, inbox, asked>>
    BY <1>6 DEF ResolveSends
  <2>3. calls \in Seq(SendCalls) /\ Len(calls) \in 1..Len(calls)  BY <2>2 DEF NetType
  <2>4. p \in Packets /\ p.to \in Hosts
    <3>1. Running \in SendCalls  BY <2>3 DEF Running
    <3>2. p \in Packets  BY <3>1 DEF SendCalls
    <3> QED  BY <3>2 DEF Packets
  <2>5. p.type = "echo_reply" => Frame("echo", p.to, p.tag) \in asked
    BY <2>3 DEF AskedFor, Running
  <2>6. arp_cache_get(NextHop(p.to)) = NextHop(p.to)
    BY <2>2, <2>4, HopOnLink, CacheGet
  <2>7. SentToNextHop' /\ EchoAnswersRequest' /\ requested' \subseteq Packets
    <3> HIDE DEF p
    <3> QED  BY <2>1, <2>2, <2>4, <2>5, <2>6, SendFrame DEF NetType
  <2> QED  BY <1>4, <2>1, <2>2, <2>7
<1> QED  BY <1>1, <1>2, <1>3, <1>5, <1>6 DEF ResolveSteps

LEMMA NetPingSteps == ASSUME NetInv, PingSteps PROVE NetInv'
<1> USE DEF NetInv, outside
<1>1. CASE PingPolls
  BY <1>1, Quiet DEF PingPolls, InPingLoop, pingVars, NetType
<1>2. CASE PingTimesOut
  BY <1>2, Quiet DEF PingTimesOut, InPingLoop, PingReturns, NetType
<1>3. CASE PingChecks
  <2>1. /\ ping' = ping \/ ping' = "idle"
        /\ calls = <<>> /\ UNCHANGED <<pingNo, elapsed>>
    BY <1>3 DEF PingChecks, InPingLoop, PingReturns, pingVars
  <2> QED  BY <1>3, <2>1, Quiet DEF PingChecks, NetType
<1> QED  BY <1>1, <1>2, <1>3 DEF PingSteps

LEMMA NetPoll == ASSUME NetInv, Poll PROVE NetInv'
<1> USE DEF NetInv
<1>1. CASE PollEnds
  <2>1. ping # "idle"  BY <1>1 DEF PollEnds, OwnPacketFirst
  <2> QED  BY <1>1, <2>1, Quiet DEF PollEnds, pingVars, outside, NetType
<1>2. ASSUME NEW type, PollReads(type), ping' = ping, pingNo' = pingNo, elapsed' = elapsed
      PROVE  /\ inbox' \in Seq(NetFrames) /\ Len(inbox') <= RxSlots
             /\ \A i \in 1..Len(inbox') : inbox'[i].type = "echo" => inbox'[i] \in asked'
             /\ rx_frame' \in NetFrames /\ rx_frame'.type = type
             /\ type = "echo" => rx_frame' \in asked
             /\ asked' = asked /\ at = "poll"
  <2>1. /\ inbox' \in Seq(NetFrames) /\ Len(inbox') = Len(inbox) - 1
        /\ \A i \in 1..Len(inbox') : inbox'[i] = inbox[i + 1]
        /\ Len(inbox) > 0 /\ rx_frame' = inbox[1]
        /\ rx_frame' \in NetFrames /\ rx_frame'.type = type
        /\ asked' = asked /\ at = "poll"
    BY <1>2, ReadPops
  <2>2. inbox \in Seq(NetFrames) /\ Len(inbox) \in Nat /\ Len(inbox) <= RxSlots
    BY DEF NetType
  <2>3. \A i \in 1..Len(inbox) : inbox[i].type = "echo" => inbox[i] \in asked
    BY DEF AskedFor
  <2>4. Len(inbox') <= RxSlots  BY <2>1, <2>2, SizesAssumption
  <2>5. \A i \in 1..Len(inbox') : i + 1 \in 1..Len(inbox)  BY <2>1, <2>2
  <2>6. 1 \in 1..Len(inbox)  BY <2>1, <2>2
  <2> QED  BY <2>1, <2>3, <2>4, <2>5, <2>6
\* A frame that leaves the stack of calls alone.
<1>3. ASSUME NEW type, PollReads(type), UNCHANGED <<calls, at, ping, pingNo, elapsed>>,
             arp_cache' \in [Slots -> [ip : MaybeHosts, mac : MaybeHosts]], CacheTrue',
             SentToNextHop', EchoAnswersRequest', requested' \subseteq Packets
      PROVE  NetInv'
  <2>1. /\ inbox' \in Seq(NetFrames) /\ Len(inbox') <= RxSlots
        /\ \A i \in 1..Len(inbox') : inbox'[i].type = "echo" => inbox'[i] \in asked'
        /\ asked' = asked /\ at = "poll"
    BY <1>2, <1>3
  <2>2. NetType'  BY <1>3, <2>1 DEF NetType
  <2>3. OwnPacketFirst' /\ AskedFor' /\ Unanswered'
    BY <1>3, <2>1 DEF OwnPacketFirst, AskedFor, Unanswered
  <2> QED  BY <1>3, <2>2, <2>3
<1>4. CASE handle_arp
  <2>1. PICK type \in {"arp_request", "arp_other"} :
           /\ PollReads(type)
           /\ arp_cache' = arp_cache_put(rx_frame'.from)
           /\ IF type = "arp_request" THEN send_arp("arp_reply", rx_frame'.from)
              ELSE UNCHANGED <<sent, requested>>
           /\ UNCHANGED <<calls, at, pingVars>>
    BY <1>4 DEF handle_arp
  <2>2. rx_frame'.from \in Hosts /\ asked' = asked
    BY <1>2, <2>1, ReplyPacket DEF pingVars
  <2>3. arp_cache' \in [Slots -> [ip : MaybeHosts, mac : MaybeHosts]] /\ CacheTrue'
    BY <2>1, <2>2, CachePut
  <2>4. SentToNextHop' /\ EchoAnswersRequest' /\ requested' = requested
    <3>1. CASE type = "arp_request"  BY <2>1, <3>1, SendArp
    <3>2. CASE type # "arp_request"
      BY <2>1, <2>2, <3>2 DEF SentToNextHop, EchoAnswersRequest
    <3> QED  BY <3>1, <3>2
  <2> QED  BY <1>3, <2>1, <2>3, <2>4 DEF pingVars, NetType
<1>5. ASSUME NEW type, PollReads(type), UNCHANGED <<arp_cache, sent, requested>>,
             UNCHANGED <<calls, at, ping, pingNo, elapsed>>
      PROVE  NetInv'
  <2>1. asked' = asked  BY <1>5 DEF PollReads, outside
  <2>2. arp_cache' \in [Slots -> [ip : MaybeHosts, mac : MaybeHosts]] /\ CacheTrue'
    BY <1>5 DEF NetType, CacheTrue
  <2>3. SentToNextHop' /\ EchoAnswersRequest' /\ requested' \subseteq Packets
    BY <1>5, <2>1 DEF SentToNextHop, EchoAnswersRequest, NetType
  <2> QED  BY <1>3, <1>5, <2>2, <2>3
<1>6. CASE handle_echo_reply  BY <1>5, <1>6 DEF handle_echo_reply
<1>7. CASE PollIgnores  BY <1>5, <1>7 DEF PollIgnores, pingVars
<1>8. CASE handle_echo
  <2> DEFINE f == rx_frame'
             reply == Packet("echo_reply", f.from, f.tag)
             hop == NextHop(f.from)
  <2>1. PollReads("echo") /\ UNCHANGED <<arp_cache, ping, pingNo, elapsed>>
    BY <1>8 DEF handle_echo, pingVars
  <2>2. /\ inbox' \in Seq(NetFrames) /\ Len(inbox') <= RxSlots
        /\ \A i \in 1..Len(inbox') : inbox'[i].type = "echo" => inbox'[i] \in asked'
        /\ f \in NetFrames /\ f.type = "echo" /\ f \in asked
        /\ asked' = asked /\ at = "poll"
    BY <1>2, <2>1
  <2>3. reply \in Packets /\ f.from \in Hosts  BY <2>2, ReplyPacket
  <2>4. reply.to = f.from /\ reply.type = "echo_reply"  BY DEF Packet
  <2>5. Frame("echo", reply.to, reply.tag) \in asked
    BY <2>2 DEF Packet, Frame, NetFrames
  <2>6. CacheTrue'  BY <2>1 DEF CacheTrue
  <2>7. CASE Resolve(reply)
    <3>1. /\ calls' \in Seq(SendCalls) /\ Len(calls') = Len(calls) + 1
          /\ \A i \in 1..Len(calls) : calls'[i] = calls[i]
          /\ calls'[Len(calls')].packet = reply
          /\ at' = "loop" /\ Unanswered'
          /\ SentToNextHop' /\ EchoAnswersRequest' /\ requested' = requested
      <4> HIDE DEF reply
      <4> QED  BY <2>1, <2>3, <2>7, ResolvePushes
    <3>2. NetType'  BY <2>1, <2>2, <3>1 DEF NetType
    <3>3. ping # "idle"  BY <2>2 DEF OwnPacketFirst
    <3>4. OwnPacketFirst'
      BY <2>1, <2>4, <3>1, <3>3 DEF OwnPacketFirst, NetType
    <3>5. AskedFor'
      <4> DEFINE q(i) == Frame("echo", calls'[i].packet.to, calls'[i].packet.tag) \in asked'
      <4>1. \A i \in 1..Len(calls') : i \in 1..Len(calls) \/ i = Len(calls')
        BY <3>1 DEF NetType
      <4>2. \A i \in 1..Len(calls) : calls'[i].packet.type = "echo_reply" => q(i)
        BY <2>2, <3>1 DEF AskedFor
      <4>3. q(Len(calls'))  BY <2>2, <2>5, <3>1
      <4> QED  BY <2>2, <4>1, <4>2, <4>3 DEF AskedFor
    <3> QED  BY <2>6, <3>1, <3>2, <3>4, <3>5
  <2>8. CASE /\ Cached(hop) /\ UNCHANGED <<calls, at>>
             /\ \E ok \in BOOLEAN : send_frame(reply, arp_cache_get(hop), ok)
    <3>1. PICK ok \in BOOLEAN : send_frame(reply, arp_cache_get(hop), ok)  BY <2>8
    <3>2. arp_cache_get(hop) = NextHop(reply.to)
      BY <2>3, <2>4, <2>8, HopOnLink, CacheGet
    <3>3. SentToNextHop' /\ EchoAnswersRequest' /\ requested' \subseteq Packets
      <4> HIDE DEF reply
      <4> QED  BY <2>2, <2>3, <2>5, <3>1, <3>2, SendFrame DEF NetType
    <3> QED  BY <1>3, <2>1, <2>6, <2>8, <3>3 DEF NetType
  <2> QED  BY <1>8, <2>7, <2>8 DEF handle_echo
<1> QED  BY <1>1, <1>4, <1>6, <1>7, <1>8 DEF Poll

LEMMA NetTick == ASSUME NetInv, Tick PROVE NetInv'
<1> USE DEF NetInv
<1>1. /\ calls' = [i \in DOMAIN calls |->
                     [calls[i] EXCEPT !.left = IF @ > 0 THEN @ - 1 ELSE 0]]
      /\ elapsed' = IF elapsed < PingTicks THEN elapsed + 1 ELSE elapsed
      /\ UNCHANGED <<arp_cache, inbox, at, ping, pingNo, sent, requested, asked>>
  BY DEF Tick, outside
<1>2. calls \in Seq(SendCalls) /\ DOMAIN calls = 1..Len(calls) /\ Len(calls) \in Nat
  BY DEF NetType
<1>3. \A i \in 1..Len(calls) : calls'[i] \in SendCalls /\ calls'[i].packet = calls[i].packet
  <2> SUFFICES ASSUME NEW i \in 1..Len(calls)
               PROVE  calls'[i] \in SendCalls /\ calls'[i].packet = calls[i].packet
    OBVIOUS
  <2> DEFINE r == calls[i]
             l == IF r.left > 0 THEN r.left - 1 ELSE 0
  <2>1. r \in SendCalls  BY <1>2
  <2>2. calls'[i] = [r EXCEPT !.left = l]  BY <1>1, <1>2
  <2>3. l \in 0..ResolveTicks  BY <2>1, SizesAssumption DEF SendCalls
  <2> HIDE DEF l, r
  <2> QED  BY <2>1, <2>2, <2>3 DEF SendCalls, r
<1>4. calls' \in Seq(SendCalls) /\ Len(calls') = Len(calls)
  <2>1. DOMAIN calls' = 1..Len(calls)  BY <1>1, <1>2
  <2>2. calls' = [i \in 1..Len(calls) |-> calls'[i]]  BY <1>1, <1>2
  <2>3. calls' \in [1..Len(calls) -> SendCalls]  BY <1>3, <2>2
  <2> QED  BY <1>2, <2>1, <2>3
<1>5. elapsed' \in 0..PingTicks  BY <1>1, SizesAssumption DEF NetType
<1>6. OwnPacketFirst' /\ AskedFor' /\ Unanswered'  BY <1>1, <1>3, <1>4, SamePackets
<1>7. NetType' /\ CacheTrue'  BY <1>1, <1>4, <1>5 DEF NetType, CacheTrue
<1>8. SentToNextHop' /\ EchoAnswersRequest'  BY <1>1 DEF SentToNextHop, EchoAnswersRequest
<1> QED  BY <1>6, <1>7, <1>8

\* What arrives is a frame from a host, and a reply answers a request sent.
LEMMA Arrivals ==
  ASSUME requested \subseteq Packets, NEW f \in Arriving
  PROVE  /\ f \in NetFrames
         /\ f.type = "echo_reply" =>
              \E p \in requested : f.from = p.to /\ f.tag = p.tag
<1>1. gateway_ip \in Hosts /\ OnLink \subseteq Hosts  BY HostsAssumption DEF Hosts
<1>2. CASE \E type \in {"arp_request", "arp_other"}, h \in OnLink : f = Frame(type, h, 0)
  BY <1>1, <1>2 DEF Frame, NetFrames, AllTags
<1>3. CASE \E h \in Hosts, tag \in Tags : f = Frame("echo", h, tag)
  BY <1>3 DEF Frame, NetFrames, AllTags
<1>4. CASE \E p \in requested : f = Frame("echo_reply", p.to, p.tag)
  <2>1. PICK p \in requested : f = Frame("echo_reply", p.to, p.tag)  BY <1>4
  <2>2. p.to \in Hosts /\ p.tag \in AllTags  BY DEF Packets
  <2> QED  BY <2>1, <2>2 DEF Frame, NetFrames
<1>5. CASE f = Frame("other", gateway_ip, 0)
  BY <1>1, <1>5 DEF Frame, NetFrames, AllTags
<1> QED  BY <1>2, <1>3, <1>4, <1>5 DEF Arriving

\* What the ring holds after an arrival.
LEMMA InboxAfter ==
  ASSUME NetInv, Arrive
  PROVE  \E f \in Arriving :
            /\ f \in NetFrames /\ inbox' \in Seq(NetFrames) /\ Len(inbox') <= RxSlots
            /\ asked \subseteq asked'
            /\ \A i \in 1..Len(inbox') :
                  (i \in 1..Len(inbox) /\ inbox'[i] = inbox[i])
                     \/ (inbox'[i] = f /\ (f.type = "echo" => f \in asked'))
<1> PICK f \in Arriving :
       /\ inbox' = IF Len(inbox) < RxSlots THEN Append(inbox, f) ELSE inbox
       /\ asked' = IF f.type = "echo" /\ Len(inbox) < RxSlots THEN asked \cup {f} ELSE asked
  BY DEF Arrive
<1>1. f \in NetFrames  BY Arrivals DEF NetInv, NetType
<1>2. inbox \in Seq(NetFrames) /\ Len(inbox) <= RxSlots /\ RxSlots \in Nat
  BY SizesAssumption DEF NetInv, NetType
<1>3. CASE Len(inbox) < RxSlots
  <2>1. inbox' = Append(inbox, f)  BY <1>3
  <2>2. /\ inbox' \in Seq(NetFrames) /\ Len(inbox') = Len(inbox) + 1
        /\ \A i \in 1..Len(inbox) : inbox'[i] = inbox[i]
        /\ inbox'[Len(inbox) + 1] = f
    BY <1>1, <1>2, <2>1
  <2>3. asked \subseteq asked' /\ (f.type = "echo" => f \in asked')  BY <1>3
  <2>4. \A i \in 1..Len(inbox') : i \in 1..Len(inbox) \/ i = Len(inbox) + 1
    BY <1>2, <2>2
  <2> WITNESS f \in Arriving
  <2> QED  BY <1>1, <1>2, <1>3, <2>2, <2>3, <2>4
<1>4. CASE ~(Len(inbox) < RxSlots)  BY <1>1, <1>2, <1>4
<1> QED  BY <1>3, <1>4

LEMMA NetArrive == ASSUME NetInv, Arrive PROVE NetInv'
<1> USE DEF NetInv
<1>1. UNCHANGED <<arp_cache, calls, at, ping, pingNo, elapsed, sent, requested>>
  BY DEF Arrive, pingVars
<1>2. PICK f \in Arriving :
         /\ inbox' \in Seq(NetFrames) /\ Len(inbox') <= RxSlots
         /\ asked \subseteq asked'
         /\ \A i \in 1..Len(inbox') :
               (i \in 1..Len(inbox) /\ inbox'[i] = inbox[i])
                  \/ (inbox'[i] = f /\ (f.type = "echo" => f \in asked'))
  BY InboxAfter
<1>3. NetType' /\ CacheTrue'  BY <1>1, <1>2 DEF NetType, CacheTrue
<1>4. OwnPacketFirst' /\ Unanswered' /\ SentToNextHop'
  BY <1>1 DEF OwnPacketFirst, Unanswered, SentToNextHop, Running, Cached, SlotsOf
<1>5. AskedFor' /\ EchoAnswersRequest'
  BY <1>1, <1>2 DEF AskedFor, EchoAnswersRequest
<1> QED  BY <1>3, <1>4, <1>5

LEMMA NetStep == NetInv /\ [Next]_vars => NetInv'
<1> SUFFICES ASSUME NetInv, [Next]_vars PROVE NetInv'  OBVIOUS
<1>1. CASE \E h \in Hosts : PingSends(h) \/ PingResolves(h)  BY <1>1, NetPing
<1>2. CASE Step  BY <1>2, NetPoll, NetResolve, NetPingSteps DEF Step
<1>3. CASE Tick  BY <1>3, NetTick
<1>4. CASE Arrive  BY <1>4, NetArrive
<1>5. CASE UNCHANGED vars
  BY <1>5, Quiet DEF vars, pingVars, outside, NetInv, NetType, OwnPacketFirst, Unanswered
<1> QED  BY <1>1, <1>2, <1>3, <1>4, <1>5 DEF Next

\* send_ipv4 and handle_icmp (net.c:220-249, 269-295): a packet goes to the MAC
\* of its next hop, and an echo reply carries what its receiver asked, however
\* deep resolves are nested and whatever is cached, evicted or read meanwhile.
THEOREM SendsCorrectly == Spec => [](SentToNextHop /\ EchoAnswersRequest)
<1>1. Spec => []NetInv  BY NetInit, NetStep, PTL DEF Spec
<1>2. NetInv => SentToNextHop /\ EchoAnswersRequest  BY DEF NetInv
<1> QED  BY <1>1, <1>2, PTL

\* net_arp_resolve (net.c:347-364) gives up only when its answer is not in the
\* cache.
THEOREM NoAnswerMissed == Spec => GivesUpUnanswered
<1>1. Spec => []NetInv  BY NetInit, NetStep, PTL DEF Spec
<1>2. NetInv /\ [Next]_vars =>
        [ResolveTimesOut => ~Cached(NextHop(Running.packet.to))]_vars
  BY DEF NetInv, Unanswered, ResolveTimesOut
<1> QED  BY <1>1, <1>2, PTL DEF Spec, GivesUpUnanswered

-----------------------------------------------------------------------------
(* One ping command.                                                       *)

\* A ping's number and its sequence number are the same.
LEMMA SequenceNumbers ==
  ASSUME NEW n \in 1..SeqCount
  PROVE  ping_wait_seq(n) = n
  BY SizesAssumption DEF ping_wait_seq

\* Steps that begin no ping, read no reply and let none arrive.
LEMMA CommandGoesOn ==
  ASSUME OneCommand, ReplyIsOurs, NetInv',
         UNCHANGED <<target, pingNo, ping_got_reply, answer>>,
         ping' # "idle" => ping # "idle",
         requested' \subseteq requested \cup {Packet("echo", target, pingNo)},
         requested' # requested => pingNo > 0,
         \A i \in 1..Len(inbox)' : \E j \in 1..Len(inbox) : inbox'[i] = inbox[j],
         \A i \in 1..Len(calls)' : calls'[i].packet.type = "echo" =>
            \E j \in 1..Len(calls) : calls'[i].packet = calls[j].packet
  PROVE  OneCommandInv'
<1>1. \A p \in requested' : p.type = "echo" /\ p.to = target /\ p.tag \in 1..pingNo
  <2> SUFFICES ASSUME NEW p \in requested' PROVE p.type = "echo" /\ p.to = target /\ p.tag \in 1..pingNo
    OBVIOUS
  <2>1. CASE p \in requested  BY <2>1 DEF OneCommand
  <2>2. CASE p = Packet("echo", target, pingNo) /\ pingNo > 0
    BY <2>2 DEF Packet, NetInv, NetType
  <2> QED  BY <2>1, <2>2
<1>2. ReplyIsOurs'  BY DEF ReplyIsOurs
<1>3. /\ pingNo' <= SeqCount /\ ping' # "idle" => pingNo' > 0
      /\ \A i \in 1..Len(inbox)' : inbox'[i].type = "echo_reply" =>
            inbox'[i].from = target' /\ inbox'[i].tag \in 1..pingNo'
      /\ \A i \in 1..Len(calls)' : calls'[i].packet.type = "echo" =>
            calls'[i].packet.to = target' /\ calls'[i].packet.tag = pingNo'
  BY DEF OneCommand
<1>4. OneCommand'  BY <1>1, <1>3 DEF OneCommand
<1> QED  BY <1>2, <1>4 DEF OneCommandInv

LEMMA CommandStep ==
  ASSUME MaxPings \in Nat, MaxPings <= SeqCount, OneCommandInv, [Next]_vars
  PROVE  OneCommandInv'
<1>1. NetInv' /\ NetInv /\ OneCommand /\ ReplyIsOurs  BY NetStep DEF OneCommandInv
<1>2. /\ calls \in Seq(SendCalls) /\ inbox \in Seq(NetFrames) /\ pingNo \in Nat
      /\ Len(calls) \in Nat /\ Len(inbox) \in Nat /\ SeqCount \in Nat \ {0}
  BY <1>1, SizesAssumption DEF NetInv, NetType
<1>3. ASSUME NEW h \in Hosts, PingSends(h) \/ PingResolves(h)
      PROVE  OneCommandInv'
  <2> DEFINE p == Packet("echo", h, pingNo')
  <2>1. /\ ping = "idle" /\ calls = <<>> /\ pingNo' = pingNo + 1 /\ pingNo < MaxPings
        /\ target' = h /\ ping_got_reply' = FALSE /\ inbox' = inbox
        /\ pingNo % SeqCount = 0 \/ h = target
    BY <1>1, <1>3 DEF PingSends, PingResolves, PingBegins, NetInv, OwnPacketFirst
  <2>2. pingNo > 0 => h = target  BY <1>2, <2>1
  <2>3. p.type = "echo" /\ p.to = h /\ p.tag = pingNo'  BY DEF Packet
  <2>4. requested' \subseteq requested \cup {p}
    <3>1. CASE PingSends(h)  BY <3>1 DEF PingSends, send_frame
    <3>2. CASE PingResolves(h)
      BY <3>2 DEF PingResolves, Resolve, send_arp, send_frame, Packet
    <3> QED  BY <1>3, <3>1, <3>2
  <2>5. \A i \in 1..Len(calls)' : calls'[i].packet = p
    <3>1. CASE PingSends(h)  BY <2>1, <3>1 DEF PingSends
    <3>2. CASE PingResolves(h)
      <4> HIDE DEF p
      <4>1. calls' = Append(calls, [packet |-> p, attempt |-> 1, left |-> ResolveTicks])
        BY <3>2 DEF PingResolves, Resolve, p
      <4> QED  BY <2>1, <4>1
    <3> QED  BY <1>3, <3>1, <3>2
  <2>6. \A q \in requested' : q.type = "echo" /\ q.to = target' /\ q.tag \in 1..pingNo'
    BY <1>1, <1>2, <2>1, <2>2, <2>3, <2>4 DEF OneCommand
  <2>7. \A i \in 1..Len(inbox') : inbox'[i].type = "echo_reply" =>
            inbox'[i].from = target' /\ inbox'[i].tag \in 1..pingNo'
    BY <1>1, <1>2, <2>1, <2>2 DEF OneCommand
  <2>8. pingNo' <= SeqCount /\ pingNo' > 0  BY <1>2, <2>1
  <2>9. OneCommand'
    <3> HIDE DEF p
    <3> QED  BY <2>1, <2>3, <2>5, <2>6, <2>7, <2>8 DEF OneCommand
  <2>10. ReplyIsOurs'  BY <2>1 DEF ReplyIsOurs
  <2> QED  BY <1>1, <2>9, <2>10 DEF OneCommandInv
\* The frames that wait were there, or stand one place further.
<1>4. ASSUME NEW type, PollReads(type)
      PROVE  \A i \in 1..Len(inbox)' : \E j \in 1..Len(inbox) : inbox'[i] = inbox[j]
  <2>1. /\ Len(inbox') = Len(inbox) - 1
        /\ \A i \in 1..Len(inbox') : inbox'[i] = inbox[i + 1]
    BY <1>1, <1>4, ReadPops
  <2>2. \A i \in 1..Len(inbox') : i + 1 \in 1..Len(inbox)  BY <1>2, <2>1
  <2> QED  BY <2>1, <2>2
\* Steps that only move through the loops.
<1>5. ASSUME UNCHANGED <<inbox, requested, target, pingNo, ping_got_reply, answer>>,
             ping' # "idle" => ping # "idle",
             \A i \in 1..Len(calls)' : \E j \in 1..Len(calls) : calls'[i].packet = calls[j].packet
      PROVE  OneCommandInv'
  <2>1. requested' \subseteq requested \cup {Packet("echo", target, pingNo)}  BY <1>5
  <2> QED  BY <1>1, <1>5, <2>1, CommandGoesOn
<1>6. CASE ResolveSteps
  <2>1. CASE ResolvePolls  BY <1>5, <2>1 DEF ResolvePolls, pingVars
  <2>2. CASE ResolveWaits  BY <1>5, <2>2 DEF ResolveWaits, pingVars
  <2>3. CASE ResolveRetries
    <3>1. \A i \in 1..Len(calls)' : i \in 1..Len(calls) /\ calls'[i].packet = calls[i].packet
      <4>1. calls' = [calls EXCEPT ![Len(calls)].attempt = @ + 1,
                                   ![Len(calls)].left = ResolveTicks]
        BY <2>3 DEF ResolveRetries
      <4>2. Len(calls') = Len(calls)  BY <1>2, <4>1
      <4> QED  BY <1>2, <4>1, <4>2 DEF SendCalls
    <3>2. requested' = requested  BY <2>3, SendArp DEF ResolveRetries
    <3> QED  BY <1>5, <2>3, <3>1, <3>2 DEF ResolveRetries, pingVars
  <2>4. ASSUME calls # <<>>, NEW ok \in BOOLEAN, SendReturns(ok)
        PROVE  /\ \A i \in 1..Len(calls)' : \E j \in 1..Len(calls) : calls'[i].packet = calls[j].packet
               /\ UNCHANGED <<target, pingNo, ping_got_reply, answer>>
               /\ ping # "idle"
    <3>1. /\ Len(calls') = Len(calls) - 1
          /\ \A i \in 1..Len(calls') : calls'[i] = calls[i]
          /\ UNCHANGED <<target, pingNo, ping_got_reply, elapsed, answer>>
      BY <1>1, <2>4, ReturnPops
    <3>2. \A i \in 1..Len(calls') : i \in 1..Len(calls)  BY <1>2, <3>1
    <3>3. ping # "idle"  BY <1>1, <2>4 DEF NetInv, OwnPacketFirst
    <3> QED  BY <3>1, <3>2, <3>3
  <2>5. CASE ResolveTimesOut  BY <1>5, <2>4, <2>5 DEF ResolveTimesOut
  <2>6. CASE ResolveSends
    <3> DEFINE p == Running.packet
    <3>1. PICK ok \in BOOLEAN : send_frame(p, arp_cache_get(NextHop(p.to)), ok) /\ SendReturns(ok)
      BY <2>6 DEF ResolveSends
    <3>2. calls # <<>> /\ inbox' = inbox  BY <2>6 DEF ResolveSends
    <3>3. Len(calls) \in 1..Len(calls) /\ Running \in SendCalls  BY <1>2, <3>2 DEF Running
    <3>4. p \in Packets  BY <3>3 DEF SendCalls
    <3>5. p.type = "echo" => p = Packet("echo", target, pingNo)
      <4>1. p.type = "echo" => p.to = target /\ p.tag = pingNo
        BY <1>1, <3>3 DEF OneCommand, Running
      <4> HIDE DEF p
      <4> QED  BY <3>4, <4>1 DEF Packet, Packets
    <3>6. requested' \subseteq requested \cup {Packet("echo", target, pingNo)}
      <4> HIDE DEF p
      <4> QED  BY <3>1, <3>5 DEF send_frame
    <3>7. pingNo > 0  BY <1>1, <3>1, <3>2, <2>4 DEF OneCommand
    <3> QED  BY <1>1, <2>4, <3>1, <3>2, <3>6, <3>7, CommandGoesOn
  <2> QED  BY <1>6, <2>1, <2>2, <2>3, <2>5, <2>6 DEF ResolveSteps
<1>7. CASE PingSteps
  <2>1. /\ UNCHANGED <<inbox, requested, calls, target, pingNo, ping_got_reply, answer>>
        /\ ping # "idle"
    BY <1>7 DEF PingSteps, PingPolls, PingTimesOut, PingChecks, PingReturns, InPingLoop, pingVars
  <2> QED  BY <1>5, <2>1
<1>8. CASE PollEnds  BY <1>5, <1>8 DEF PollEnds, pingVars
<1>9. CASE PollIgnores
  <2>1. UNCHANGED <<calls, requested, ping, target, pingNo, ping_got_reply, answer>>
    BY <1>9 DEF PollIgnores, pingVars
  <2> QED  BY <1>1, <1>4, <1>9, <2>1, CommandGoesOn DEF PollIgnores
<1>10. CASE handle_arp
  <2>1. PICK type : /\ PollReads(type) /\ UNCHANGED <<calls, at, pingVars>>
                    /\ requested' = requested
    BY <1>10, SendArp DEF handle_arp
  <2> QED  BY <1>1, <1>4, <2>1, CommandGoesOn DEF pingVars
<1>11. CASE handle_echo
  <2> DEFINE reply == Packet("echo_reply", rx_frame'.from, rx_frame'.tag)
  <2>1. PollReads("echo") /\ UNCHANGED pingVars  BY <1>11 DEF handle_echo
  <2>2. rx_frame' \in NetFrames  BY <1>1, <2>1, ReadPops
  <2>3. reply.type = "echo_reply" /\ reply \in Packets  BY <2>2, ReplyPacket DEF Packet
  <2>4. requested' = requested
    BY <1>11 DEF handle_echo, Resolve, send_arp, send_frame, Packet
  <2>5. calls' = calls \/ calls' = Append(calls, [packet |-> reply, attempt |-> 1, left |-> ResolveTicks])
    BY <1>11 DEF handle_echo, Resolve
  <2>6. \A i \in 1..Len(calls)' : calls'[i].packet.type = "echo" =>
           \E j \in 1..Len(calls) : calls'[i].packet = calls[j].packet
    <3> HIDE DEF reply
    <3> QED  BY <1>2, <2>3, <2>5
  <2> QED  BY <1>1, <1>4, <2>1, <2>4, <2>6, CommandGoesOn DEF pingVars
\* A reply is taken when its number is this ping's: it came for this ping.
<1>12. CASE handle_echo_reply
  <2>1. /\ PollReads("echo_reply")
        /\ UNCHANGED <<calls, ping, target, pingNo, requested>>
    BY <1>12 DEF handle_echo_reply
  <2>2. /\ rx_frame' = inbox[1] /\ rx_frame' \in NetFrames /\ rx_frame'.type = "echo_reply"
        /\ Len(inbox) > 0
    BY <1>1, <2>1, ReadPops
  <2>3. rx_frame'.from = target /\ rx_frame'.tag \in 1..pingNo
    BY <1>1, <1>2, <2>2 DEF OneCommand
  <2>4. pingNo \in 1..SeqCount /\ rx_frame'.tag \in 1..SeqCount
    BY <1>1, <1>2, <2>3 DEF OneCommand
  <2>5. ReplyIsOurs'
    <3>1. CASE ping_wait_seq(rx_frame'.tag) = ping_wait_seq(pingNo)
      <4>1. answer' = rx_frame'  BY <1>12, <3>1 DEF handle_echo_reply
      <4>2. rx_frame'.tag = pingNo  BY <2>4, <3>1, SequenceNumbers
      <4>3. rx_frame' = Frame("echo_reply", target, pingNo)
        BY <2>2, <2>3, <4>2 DEF Frame, NetFrames
      <4> QED  BY <2>1, <4>1, <4>3 DEF ReplyIsOurs
    <3>2. CASE ping_wait_seq(rx_frame'.tag) # ping_wait_seq(pingNo)
      BY <1>1, <1>12, <2>1, <3>2 DEF handle_echo_reply, ReplyIsOurs
    <3> QED  BY <3>1, <3>2
  <2>6. OneCommand'  BY <1>1, <1>4, <2>1 DEF OneCommand
  <2> QED  BY <1>1, <2>5, <2>6 DEF OneCommandInv
<1>13. CASE Tick
  <2>1. /\ calls' = [i \in DOMAIN calls |->
                     [calls[i] EXCEPT !.left = IF @ > 0 THEN @ - 1 ELSE 0]]
        /\ UNCHANGED <<inbox, requested, ping, target, pingNo, ping_got_reply, answer>>
    BY <1>13 DEF Tick
  <2>2. calls' \in Seq(SendCalls)  BY <1>1 DEF NetInv, NetType
  <2>3. DOMAIN calls' = 1..Len(calls)  BY <1>2, <2>1
  <2>4. Len(calls') = Len(calls)  BY <1>2, <2>2, <2>3
  <2>5. \A i \in 1..Len(calls) : calls'[i].packet = calls[i].packet
    BY <1>2, <2>1 DEF SendCalls
  <2> QED  BY <1>5, <2>1, <2>4, <2>5
<1>14. CASE Arrive
  <2>1. UNCHANGED <<calls, requested, ping, target, pingNo, ping_got_reply, answer>>
    BY <1>14 DEF Arrive, pingVars
  <2>2. PICK f \in Arriving :
           \A i \in 1..Len(inbox') : (i \in 1..Len(inbox) /\ inbox'[i] = inbox[i])
                                       \/ inbox'[i] = f
    BY <1>1, <1>14, InboxAfter
  <2>3. f.type = "echo_reply" => f.from = target /\ f.tag \in 1..pingNo
    BY <1>1, Arrivals DEF NetInv, NetType, OneCommand
  <2>4. OneCommand'  BY <1>1, <2>1, <2>2, <2>3 DEF OneCommand
  <2>5. ReplyIsOurs'  BY <1>1, <2>1 DEF ReplyIsOurs
  <2> QED  BY <1>1, <2>4, <2>5 DEF OneCommandInv
<1>15. CASE UNCHANGED vars  BY <1>5, <1>15 DEF vars, pingVars
<1> QED  BY <1>3, <1>6, <1>7, <1>8, <1>9, <1>10, <1>11, <1>12, <1>13, <1>14, <1>15
         DEF Next, Step, Poll

\* net_ping and handle_icmp (net.c:269-280, 366-411): within one ping command a
\* reply that is reported answers the request just sent; late and repeated
\* replies to the command's earlier requests are not taken for it.
THEOREM ReportsOwnReply ==
  ASSUME MaxPings \in Nat, MaxPings <= SeqCount
  PROVE  Spec => []ReplyIsOurs
<1>1. Init => OneCommandInv
  BY NetInit, SizesAssumption DEF Init, OneCommandInv, OneCommand, ReplyIsOurs
<1>2. OneCommandInv /\ [Next]_vars => OneCommandInv'  BY CommandStep
<1>3. OneCommandInv => ReplyIsOurs  BY DEF OneCommandInv
<1> QED  BY <1>1, <1>2, <1>3, PTL DEF Spec
-----------------------------------------------------------------------------
(***************************************************************************)
(* The card below net.c, for rings of any size: both descriptor rings are  *)
(* first-in first-out queues, whatever the order in which the driver and   *)
(* the card touch them.                                                    *)
(***************************************************************************)
Card == INSTANCE E1000


Descriptors == [frame : 0..MaxFrames, DD : BOOLEAN]

-----------------------------------------------------------------------------
(* Arithmetic on a ring of n places.                                       *)

\* The place k after the place h, and the way from the place k to the place h.
Place(n, h, k) == IF h + k < n THEN h + k ELSE h + k - n
Way(n, h, k) == IF h >= k THEN h - k ELSE h - k + n

\* The index arithmetic of the driver goes round the ring.
LEMMA Places ==
  ASSUME NEW n \in Nat \ {0}, NEW h \in 0..n-1, NEW k \in 0..n
  PROVE  (h + k) % n = Place(n, h, k) /\ Place(n, h, k) \in 0..n-1
  BY DEF Place

LEMMA Ways ==
  ASSUME NEW n \in Nat \ {0}, NEW h \in 0..n-1, NEW k \in 0..n-1
  PROVE  (h - k) % n = Way(n, h, k) /\ Way(n, h, k) \in 0..n-1
  BY DEF Way

-----------------------------------------------------------------------------
(* The transmit ring.                                                      *)

TxPlace(h, k) == Place(NUM_TX_DESC, h, k)

\* Descriptors that hold a frame not yet sent: those handed to the card and,
\* between SendFill and SendTail, the one being filled.
Handed == accepted - sentCount
InUse == Handed + (IF pc = "send" THEN 1 ELSE 0)

TxType ==
    /\ tx_ring \in [0..NUM_TX_DESC-1 -> Descriptors]
    /\ tx_cur \in 0..NUM_TX_DESC-1 /\ TDH \in 0..NUM_TX_DESC-1
    /\ offered \in 0..MaxFrames /\ accepted \in 0..MaxFrames
    /\ wire \in 0..MaxFrames /\ sentCount \in 0..MaxFrames
    /\ pc \in {"idle", "send", "receive"}

\* The driver's index is the tail register, Handed places after the head; the
\* descriptors in use follow the head, none of them free, each with a frame.
TxInv ==
    /\ TxType
    /\ TDT = tx_cur
    /\ Handed \in Nat /\ InUse <= NUM_TX_DESC
    /\ accepted + (IF pc = "send" THEN 1 ELSE 0) <= offered
    /\ tx_cur = TxPlace(TDH, Handed)
    /\ \A k \in 0 .. InUse - 1 :
          LET d == tx_ring[TxPlace(TDH, k)] IN ~d.DD /\ d.frame \in Frames

-----------------------------------------------------------------------------
(* The receive ring.                                                       *)

RxPlace(h, k) == Place(NUM_RX_DESC, h, k)
RxWay(h, k) == Way(NUM_RX_DESC, h, k)

RxType ==
    /\ rx_ring \in [0..NUM_RX_DESC-1 -> Descriptors]
    /\ rx_cur \in 0..NUM_RX_DESC-1 /\ RDH \in 0..NUM_RX_DESC-1
    /\ RDT \in 0..NUM_RX_DESC-1
    /\ arrived \in 0..MaxFrames /\ received \in 0..MaxFrames
    /\ pc \in {"idle", "send", "receive"}

\* The driver's index is one place after the tail register, and a frame lies
\* only in the descriptors from RxFirst up to the head.
RxInv ==
    /\ RxType
    /\ rx_cur = RxPlace(RDT, 1)
    /\ pc = "receive" => RDH # rx_cur
    /\ \A i \in 0..NUM_RX_DESC-1 : rx_ring[i].DD =>
          RxWay(i, RxFirst) < RxWay(RDH, RxFirst)

-----------------------------------------------------------------------------
(* The transmit ring is a queue.                                           *)

LEMMA TxPlaces ==
  ASSUME NEW h \in 0..NUM_TX_DESC-1, NEW k \in 0..NUM_TX_DESC
  PROVE  /\ (h + k) % NUM_TX_DESC = TxPlace(h, k)
         /\ TxPlace(h, k) \in 0..NUM_TX_DESC-1
  BY Places, RingAssumption DEF TxPlace

\* The n frames from the place h on.
TxFrames(r, h, n) == [i \in 1..n |-> r[TxPlace(h, i - 1)].frame]

LEMMA TxQueueIs ==
  ASSUME NEW r, NEW h \in 0..NUM_TX_DESC-1, NEW n \in 0..NUM_TX_DESC
  PROVE  [i \in 1..n |-> r[(h + i - 1) % NUM_TX_DESC].frame] = TxFrames(r, h, n)
  <1>1. ASSUME NEW i \in 1..n
        PROVE  (h + i - 1) % NUM_TX_DESC = TxPlace(h, i - 1)
    <2>1. i - 1 \in 0..NUM_TX_DESC /\ h + i - 1 = h + (i - 1)
      BY RingAssumption
    <2>2. (h + (i - 1)) % NUM_TX_DESC = TxPlace(h, i - 1)
      BY <2>1, TxPlaces
    <2> QED BY <2>1, <2>2
  <1> QED BY <1>1 DEF TxFrames

LEMMA TxQueueOfState ==
  TxInv => TxQueue = TxFrames(tx_ring, TDH, Handed)
  <1> HAVE TxInv
  <1>1. Handed \in 0..NUM_TX_DESC
    BY RingAssumption DEF TxInv, InUse, Handed, TxType
  <1>2. TDH \in 0..NUM_TX_DESC-1
    BY DEF TxInv, TxType
  <1> QED BY <1>1, <1>2, TxQueueIs DEF TxQueue, Handed

\* The scalar part of TxInv.
LEMMA TxScalars ==
  ASSUME TxInv
  PROVE  /\ NUM_TX_DESC \in Nat /\ NUM_TX_DESC >= 2
         /\ TDH \in 0..NUM_TX_DESC-1 /\ tx_cur \in 0..NUM_TX_DESC-1
         /\ Handed \in 0..NUM_TX_DESC /\ TDT = tx_cur /\ tx_cur = TxPlace(TDH, Handed)
         /\ InUse = Handed + (IF pc = "send" THEN 1 ELSE 0) /\ InUse <= NUM_TX_DESC
         /\ accepted \in Nat /\ sentCount \in Nat /\ Handed = accepted - sentCount
  <1>1. NUM_TX_DESC \in Nat /\ NUM_TX_DESC >= 2
    BY RingAssumption
  <1>2. accepted \in Nat /\ sentCount \in Nat /\ Handed = accepted - sentCount
    BY BoundAssumption DEF TxInv, TxType, Handed
  <1>3. /\ TDH \in 0..NUM_TX_DESC-1 /\ tx_cur \in 0..NUM_TX_DESC-1
        /\ Handed \in Nat /\ TDT = tx_cur /\ tx_cur = TxPlace(TDH, Handed)
        /\ InUse = Handed + (IF pc = "send" THEN 1 ELSE 0) /\ InUse <= NUM_TX_DESC
    BY DEF TxInv, TxType, InUse
  <1>4. Handed \in 0..NUM_TX_DESC
    BY <1>1, <1>2, <1>3
  <1> QED BY <1>1, <1>2, <1>3, <1>4

LEMMA TxInit == Card!Init => TxInv
  BY RingAssumption, BoundAssumption
  DEF Card!Init, TxInv, TxType, Descriptors, Handed, InUse, TxPlace, Place

\* Every step keeps TxInv, and the queue is put to, taken from or left alone.
LEMMA TxSendFill ==
  ASSUME TxInv, Card!SendFill
  PROVE  /\ TxInv' /\ Handed' = Handed /\ wire' = wire
         /\ TxFrames(tx_ring, TDH, Handed)' = TxFrames(tx_ring, TDH, Handed)
  <1> USE RingAssumption, BoundAssumption
  <1>1. Handed < NUM_TX_DESC
    BY DEF TxInv, TxType, Card!SendFill, Handed, InUse, TxPlace, Place
  <1>2. \A k \in 0 .. Handed - 1 : TxPlace(TDH, k) # tx_cur
    BY <1>1 DEF TxInv, TxType, Handed, TxPlace, Place
  <1>3. TxType'
    BY DEF TxInv, TxType, Card!SendFill, Descriptors
  <1>4. Handed' = Handed /\ InUse' = Handed + 1
    BY DEF TxInv, TxType, Card!SendFill, Handed, InUse
  <1>5. \A k \in 0 .. Handed :
           LET d == tx_ring'[TxPlace(TDH, k)] IN ~d.DD /\ d.frame \in Frames
    <2> SUFFICES ASSUME NEW k \in 0 .. Handed
                 PROVE  /\ ~tx_ring'[TxPlace(TDH, k)].DD
                        /\ tx_ring'[TxPlace(TDH, k)].frame \in Frames
      OBVIOUS
    <2>1. CASE k = Handed
      BY <2>1 DEF TxInv, TxType, Card!SendFill, Handed, Descriptors, Frames
    <2>2. CASE k # Handed
      <3>1. k \in 0 .. InUse - 1 /\ k \in 0 .. Handed - 1
        BY <2>2 DEF TxInv, TxType, Handed, InUse
      <3>2. tx_ring'[TxPlace(TDH, k)] = tx_ring[TxPlace(TDH, k)]
        BY <1>2, <3>1 DEF TxInv, TxType, Card!SendFill, TxPlace, Place
      <3> QED BY <3>1, <3>2 DEF TxInv
    <2> QED BY <2>1, <2>2
  <1> QED BY <1>1, <1>2, <1>3, <1>4, <1>5 DEF TxInv, TxType, Card!SendFill, TxFrames, Handed

LEMMA TxSendTail ==
  ASSUME TxInv, Card!SendTail
  PROVE  /\ TxInv' /\ Handed \in 0..NUM_TX_DESC-1 /\ wire' = wire
         /\ \E x \in Frames : TxFrames(tx_ring, TDH, Handed)'
                               = Append(TxFrames(tx_ring, TDH, Handed), x)
  <1> USE RingAssumption, BoundAssumption
  <1>1. Handed \in 0..NUM_TX_DESC-1 /\ InUse = Handed + 1
    BY DEF TxInv, TxType, Card!SendTail, Handed, InUse
  <1>2. Handed' = Handed + 1 /\ InUse' = InUse
    BY DEF TxInv, TxType, Card!SendTail, Handed, InUse
  <1>3. tx_cur' = TxPlace(TDH, Handed')
    <2>1. Card!TxNext(tx_cur) = TxPlace(tx_cur, 1)
      BY TxPlaces DEF Card!TxNext, TxInv, TxType
    <2>2. tx_cur' = TxPlace(tx_cur, 1)
      BY <2>1 DEF Card!SendTail
    <2> QED BY <1>1, <1>2, <2>2, TxScalars DEF TxPlace, Place
  <1>4. tx_ring' = tx_ring /\ TDH' = TDH
    BY DEF Card!SendTail
  <1>5. TxInv'
    <2>1. TxType'
      <3>1. tx_cur' \in 0..NUM_TX_DESC-1
        BY <1>1, <1>2, <1>3, TxPlaces, TxScalars
      <3>2. accepted' \in 0..MaxFrames
        BY DEF TxInv, TxType, Card!SendTail
      <3> QED BY <3>1, <3>2 DEF TxInv, TxType, Card!SendTail
    <2>2. pc' = "idle" /\ TDT' = tx_cur'
      BY DEF Card!SendTail
    <2>3. accepted' + (IF pc' = "send" THEN 1 ELSE 0) <= offered'
      BY DEF TxInv, TxType, Card!SendTail
    <2>4. Handed' \in Nat /\ InUse' <= NUM_TX_DESC
      BY <1>1, <1>2, TxScalars
    <2>5. \A k \in 0 .. InUse' - 1 :
             LET d == tx_ring'[TxPlace(TDH', k)] IN ~d.DD /\ d.frame \in Frames
      BY <1>2, <1>4 DEF TxInv
    <2> QED BY <1>3, <1>4, <2>1, <2>2, <2>3, <2>4, <2>5 DEF TxInv
  <1>6. tx_ring[tx_cur].frame \in Frames
    BY <1>1 DEF TxInv
  <1>7. TxFrames(tx_ring, TDH, Handed)'
           = Append(TxFrames(tx_ring, TDH, Handed), tx_ring[tx_cur].frame)
    BY <1>1, <1>2, <1>4 DEF TxFrames, TxInv
  <1> QED BY <1>1, <1>5, <1>6, <1>7 DEF Card!SendTail

LEMMA TxCardSend ==
  ASSUME TxInv, Card!CardSend
  PROVE  /\ TxInv' /\ Handed \in 1..NUM_TX_DESC
         /\ wire' = Head(TxFrames(tx_ring, TDH, Handed))
         /\ TxFrames(tx_ring, TDH, Handed)' = Tail(TxFrames(tx_ring, TDH, Handed))
  <1> USE RingAssumption, BoundAssumption
  <1>1. Handed \in 1..NUM_TX_DESC-1
    <2>1. TDH # TDT
      BY DEF Card!CardSend
    <2> QED BY <2>1, TxScalars DEF TxPlace, Place
  <1>2. Handed' = Handed - 1 /\ InUse' = InUse - 1 /\ InUse \in 1..NUM_TX_DESC
    <2>1. sentCount' = sentCount + 1 /\ accepted' = accepted /\ pc' = pc
      BY DEF Card!CardSend
    <2> QED BY <1>1, <2>1, TxScalars DEF Handed, InUse
  <1>3. TDH \in 0..NUM_TX_DESC-1 /\ TDH' = TxPlace(TDH, 1)
    <2>1. TDH \in 0..NUM_TX_DESC-1 /\ 1 \in 0..NUM_TX_DESC  BY TxScalars
    <2>2. TDH' = (TDH + 1) % NUM_TX_DESC  BY DEF Card!TxNext, Card!CardSend
    <2> QED BY <2>1, <2>2, TxPlaces
  <1>4. \A k \in 0 .. NUM_TX_DESC - 1 : TxPlace(TDH', k) = TxPlace(TDH, k + 1)
    BY <1>3 DEF TxPlace, Place
  <1>5. \A k \in 1 .. NUM_TX_DESC - 1 :
           /\ TxPlace(TDH, k) # TDH
           /\ tx_ring'[TxPlace(TDH, k)] = tx_ring[TxPlace(TDH, k)]
    <2>1. \A k \in 1 .. NUM_TX_DESC - 1 :
             TxPlace(TDH, k) # TDH /\ TxPlace(TDH, k) \in 0..NUM_TX_DESC-1
      BY <1>3, TxScalars DEF TxPlace, Place
    <2> QED BY <2>1 DEF TxInv, TxType, Card!CardSend
  <1>6. \A i \in 0..NUM_TX_DESC-1 : tx_ring'[i].frame = tx_ring[i].frame
    BY DEF TxInv, TxType, Card!CardSend, Descriptors
  <1>7. TxInv'
    <2>1. TxType'
      <3>1. TDH' \in 0..NUM_TX_DESC-1
        BY <1>3 DEF TxPlace, Place
      <3>2. wire' \in 0..MaxFrames
        BY <1>3 DEF TxInv, TxType, Card!CardSend, Descriptors
      <3>3. sentCount' \in 0..MaxFrames
        BY <1>1 DEF TxInv, TxType, Card!CardSend, Handed
      <3>4. tx_ring' \in [0..NUM_TX_DESC-1 -> Descriptors]
        BY DEF TxInv, TxType, Card!CardSend, Descriptors
      <3> QED BY <3>1, <3>2, <3>3, <3>4 DEF TxInv, TxType, Card!CardSend
    <2>2. tx_cur' = TxPlace(TDH', Handed')
      BY <1>1, <1>2, <1>4 DEF TxInv, Card!CardSend
    <2>3. ASSUME NEW k \in 0 .. InUse' - 1
          PROVE  LET d == tx_ring'[TxPlace(TDH', k)] IN ~d.DD /\ d.frame \in Frames
      <3>1. k + 1 \in 0 .. InUse - 1 /\ k + 1 \in 1 .. NUM_TX_DESC - 1
            /\ k \in 0 .. NUM_TX_DESC - 1
        BY <1>2
      <3> QED BY <1>4, <1>5, <3>1 DEF TxInv
    <2> QED BY <1>1, <1>2, <2>1, <2>2, <2>3 DEF TxInv, Card!CardSend
  <1>8. wire' = Head(TxFrames(tx_ring, TDH, Handed))
    BY <1>1, <1>3 DEF Card!CardSend, TxFrames, TxPlace, Place
  <1>9. TxFrames(tx_ring, TDH, Handed)' = Tail(TxFrames(tx_ring, TDH, Handed))
    <2>1. ASSUME NEW i \in 1 .. Handed - 1
          PROVE  tx_ring'[TxPlace(TDH', i - 1)].frame = tx_ring[TxPlace(TDH, i)].frame
      BY <1>1, <1>4, <1>5
    <2>2. TxFrames(tx_ring, TDH, Handed)'
             = [i \in 1 .. Handed - 1 |-> tx_ring'[TxPlace(TDH', i - 1)].frame]
      BY <1>2 DEF TxFrames
    <2>3. Tail(TxFrames(tx_ring, TDH, Handed))
             = [i \in 1 .. Handed - 1 |-> tx_ring[TxPlace(TDH, i)].frame]
      BY <1>1 DEF TxFrames
    <2> QED BY <2>1, <2>2, <2>3
  <1> QED BY <1>1, <1>7, <1>8, <1>9

\* All other steps leave the transmit ring alone.
LEMMA TxOthers ==
  ASSUME TxInv, \/ Card!SendStuck \/ Card!ReceiveCopy \/ Card!ReceiveTail
                \/ Card!CardReceive \/ Card!CardDrop \/ UNCHANGED Card!vars
  PROVE  /\ TxInv' /\ wire' = wire /\ Handed' = Handed
         /\ TxFrames(tx_ring, TDH, Handed)' = TxFrames(tx_ring, TDH, Handed)
  <1>1. UNCHANGED <<tx_ring, tx_cur, TDH, TDT, accepted, wire, sentCount>>
    BY DEF Card!SendStuck, Card!ReceiveCopy, Card!ReceiveTail, Card!CardReceive,
      Card!CardDrop, Card!vars, Card!tx
  <1>2. /\ offered' \in 0..MaxFrames /\ offered' >= offered
        /\ pc' \in {"idle", "send", "receive"} /\ (pc' = "send" <=> pc = "send")
    BY BoundAssumption DEF TxInv, TxType, Card!SendStuck, Card!ReceiveCopy,
      Card!ReceiveTail, Card!CardReceive,
       Card!CardDrop, Card!vars, Card!tx
  <1>3. Handed' = Handed /\ InUse' = InUse
    BY <1>1, <1>2 DEF Handed, InUse
  <1>4. TxType' /\ accepted' + (IF pc' = "send" THEN 1 ELSE 0) <= offered'
    BY <1>1, <1>2 DEF TxInv, TxType
  <1> QED BY <1>1, <1>3, <1>4 DEF TxInv, TxFrames

LEMMA TxStep ==
  ASSUME TxInv, [Card!Next]_Card!vars
  PROVE  TxInv' /\ [TxQ!Next]_<<TxQueue, wire>>
  <1>1. TxQueue = TxFrames(tx_ring, TDH, Handed)
    BY TxQueueOfState
  <1>2. (TxInv => TxQueue = TxFrames(tx_ring, TDH, Handed))'
    BY TxQueueOfState, PTL
  <1>3. CASE Card!SendFill
    BY <1>1, <1>2, <1>3, TxSendFill
  <1>4. CASE Card!SendTail
    <2>1. TxInv' /\ wire' = wire /\ Handed \in 0..NUM_TX_DESC-1
      BY <1>4, TxSendTail
    <2>2. PICK x \in Frames : TxQueue' = Append(TxQueue, x)
      BY <1>1, <1>2, <1>4, TxSendTail
    <2>3. Len(TxQueue) < NUM_TX_DESC
      BY <1>1, <2>1, RingAssumption DEF TxFrames
    <2>4. TxQ!Put(x)
      BY <2>1, <2>2, <2>3 DEF TxQ!Put
    <2> QED BY <2>1, <2>4 DEF TxQ!Next
  <1>5. CASE Card!CardSend
    <2>1. TxInv' /\ Handed \in 1..NUM_TX_DESC
      BY <1>5, TxCardSend
    <2>2. wire' = Head(TxQueue) /\ TxQueue' = Tail(TxQueue)
      BY <1>1, <1>2, <1>5, TxCardSend
    <2>3. TxQueue # <<>>
      BY <1>1, <2>1, RingAssumption DEF TxFrames
    <2> QED BY <2>1, <2>2, <2>3 DEF TxQ!Get, TxQ!Next
  <1>6. CASE \/ Card!SendStuck \/ Card!ReceiveCopy \/ Card!ReceiveTail
             \/ Card!CardReceive \/ Card!CardDrop \/ UNCHANGED Card!vars
    BY <1>1, <1>2, <1>6, TxOthers
  <1> QED BY <1>3, <1>4, <1>5, <1>6 DEF Card!Next, Card!Driver

\* The card sends the frames that e1000_send accepted, each once and in order,
\* and none is overwritten before it is sent, for a ring of any size and also
\* when every descriptor is in use (e1000.c:271-298).
THEOREM TxRefinesQueue == Card!Spec => TxImplementsQueue
  <1>1. Card!Init => TxInv /\ TxQ!Init
    <2> SUFFICES ASSUME Card!Init PROVE TxInv /\ TxQ!Init
      OBVIOUS
    <2>1. TxInv
      BY TxInit
    <2>2. TxQueue = TxFrames(tx_ring, TDH, 0) /\ wire = 0
      BY <2>1, TxQueueOfState DEF Handed, Card!Init
    <2> QED BY <2>1, <2>2 DEF TxFrames, TxQ!Init
  <1>2. TxInv /\ [Card!Next]_Card!vars => TxInv' /\ [TxQ!Next]_<<TxQueue, wire>>
    BY TxStep
  <1> QED BY <1>1, <1>2, PTL DEF Card!Spec, TxImplementsQueue, TxQ!Spec

-----------------------------------------------------------------------------
(* The receive ring is a queue.                                            *)

LEMMA RxPlaces ==
  ASSUME NEW h \in 0..NUM_RX_DESC-1, NEW k \in 0..NUM_RX_DESC
  PROVE  /\ (h + k) % NUM_RX_DESC = RxPlace(h, k)
         /\ RxPlace(h, k) \in 0..NUM_RX_DESC-1
  BY Places, RingAssumption DEF RxPlace

LEMMA RxWays ==
  ASSUME NEW h \in 0..NUM_RX_DESC-1, NEW k \in 0..NUM_RX_DESC-1
  PROVE  /\ (h - k) % NUM_RX_DESC = RxWay(h, k)
         /\ RxWay(h, k) \in 0..NUM_RX_DESC-1
  BY Ways, RingAssumption DEF RxWay

\* The number of frames stored, and the n frames from the place h on.
Stored == RxWay(RDH, RxFirst)
RxFrames(r, h, n) == [i \in 1..n |-> r[RxPlace(h, i - 1)].frame]

LEMMA RxQueueIs ==
  ASSUME NEW r, NEW h \in 0..NUM_RX_DESC-1, NEW n \in 0..NUM_RX_DESC
  PROVE  [i \in 1..n |-> r[(h + i - 1) % NUM_RX_DESC].frame] = RxFrames(r, h, n)
  <1>1. ASSUME NEW i \in 1..n
        PROVE  (h + i - 1) % NUM_RX_DESC = RxPlace(h, i - 1)
    <2>1. i - 1 \in 0..NUM_RX_DESC /\ h + i - 1 = h + (i - 1)
      BY RingAssumption
    <2>2. (h + (i - 1)) % NUM_RX_DESC = RxPlace(h, i - 1)
      BY <2>1, RxPlaces
    <2> QED BY <2>1, <2>2
  <1> QED BY <1>1 DEF RxFrames

\* The scalar part of RxInv.
LEMMA RxScalars ==
  RxInv => /\ NUM_RX_DESC \in Nat /\ NUM_RX_DESC >= 2
           /\ RDH \in 0..NUM_RX_DESC-1 /\ RDT \in 0..NUM_RX_DESC-1
           /\ rx_cur \in 0..NUM_RX_DESC-1 /\ rx_cur = RxPlace(RDT, 1)
           /\ RxFirst \in 0..NUM_RX_DESC-1 /\ Stored \in 0..NUM_RX_DESC-1
           /\ RxFirst = IF pc = "receive" THEN RxPlace(rx_cur, 1) ELSE rx_cur
           /\ pc = "receive" => RDH # rx_cur
  <1> HAVE RxInv
  <1>1. /\ NUM_RX_DESC \in Nat /\ NUM_RX_DESC >= 2
        /\ 1 \in 0..NUM_RX_DESC
    BY RingAssumption
  <1>2. /\ RDH \in 0..NUM_RX_DESC-1 /\ RDT \in 0..NUM_RX_DESC-1
        /\ rx_cur \in 0..NUM_RX_DESC-1 /\ rx_cur = RxPlace(RDT, 1)
        /\ pc = "receive" => RDH # rx_cur
    BY DEF RxInv, RxType
  <1>3. RxNext(rx_cur) = RxPlace(rx_cur, 1) /\ RxPlace(rx_cur, 1) \in 0..NUM_RX_DESC-1
    BY <1>1, <1>2, RxPlaces DEF RxNext
  <1>4. RxFirst \in 0..NUM_RX_DESC-1
    BY <1>2, <1>3 DEF RxFirst
  <1>5. Stored \in 0..NUM_RX_DESC-1
    BY <1>2, <1>4, RxWays DEF Stored
  <1> QED BY <1>1, <1>2, <1>3, <1>4, <1>5 DEF RxFirst

LEMMA RxQueueOfState ==
  RxInv => RxQueue = RxFrames(rx_ring, RxFirst, Stored)
  <1> HAVE RxInv
  <1>1. (RDH - RxFirst) % NUM_RX_DESC = Stored
    BY RxScalars, RxWays DEF Stored
  <1>2. Stored \in 0..NUM_RX_DESC
    BY RxScalars
  <1> QED BY <1>1, <1>2, RxScalars, RxQueueIs DEF RxQueue

LEMMA RxInit == Card!Init => RxInv /\ Stored = 0
  BY RingAssumption, BoundAssumption
  DEF Card!Init, RxInv, RxType, Descriptors, RxFirst, RxPlace, Place, Stored, RxWay, Way

\* e1000_receive takes the first frame.
LEMMA RxCopy ==
  ASSUME RxInv, Card!ReceiveCopy
  PROVE  /\ RxInv' /\ Stored \in 1..NUM_RX_DESC-1
         /\ received' = Head(RxFrames(rx_ring, RxFirst, Stored))
         /\ RxFrames(rx_ring, RxFirst, Stored)'
              = Tail(RxFrames(rx_ring, RxFirst, Stored))
  <1> USE RingAssumption, BoundAssumption
  <1>1. pc = "idle" /\ pc' = "receive" /\ rx_ring[rx_cur].DD
        /\ UNCHANGED <<rx_cur, RDH, RDT, arrived>>
        /\ received' = rx_ring[rx_cur].frame
        /\ rx_ring' = [rx_ring EXCEPT ![rx_cur].DD = FALSE]
    BY DEF Card!ReceiveCopy
  <1>2. RxFirst = rx_cur /\ Stored \in 0..NUM_RX_DESC-1
    BY <1>1, RxScalars DEF RxFirst
  <1>3. Stored > 0 /\ RDH # rx_cur
    <2>1. RxWay(rx_cur, rx_cur) < RxWay(RDH, rx_cur)
      BY <1>1, <1>2, RxScalars DEF RxInv
    <2> QED BY <1>2, <2>1, RxScalars DEF Stored, RxWay, Way
  <1>4. RxFirst' = RxPlace(rx_cur, 1)
    BY <1>1, RxPlaces, RxScalars DEF RxFirst, RxNext
  <1>5. Stored' = Stored - 1
    BY <1>1, <1>2, <1>3, <1>4, RxScalars DEF Stored, RxWay, Way, RxPlace, Place
  <1>6. ASSUME NEW i \in 0..NUM_RX_DESC-1, rx_ring'[i].DD
        PROVE  RxWay(i, RxFirst') < Stored'
    <2>1. i # rx_cur /\ rx_ring[i].DD
      BY <1>1, <1>6, RxScalars DEF RxInv, RxType, Descriptors
    <2>2. RxWay(i, rx_cur) < Stored
      BY <1>2, <2>1 DEF RxInv, Stored
    <2>3. RxWay(i, RxFirst') = RxWay(i, rx_cur) - 1
      BY <1>4, <2>1, RxScalars DEF RxWay, Way, RxPlace, Place
    <2>4. RxWay(i, rx_cur) \in Nat
      BY RxScalars DEF RxWay, Way
    <2> QED BY <1>2, <1>5, <2>2, <2>3, <2>4
  <1>7. RxType'
    BY <1>1 DEF RxInv, RxType, Descriptors
  <1>8. RxInv'
    BY <1>1, <1>3, <1>6, <1>7, RxScalars DEF RxInv, Stored
  <1>9. \A k \in 0 .. NUM_RX_DESC - 2 : RxPlace(RxFirst', k) = RxPlace(RxFirst, k + 1)
    BY <1>2, <1>4, RxScalars DEF RxPlace, Place
  <1>10. \A i \in 0..NUM_RX_DESC-1 : rx_ring'[i].frame = rx_ring[i].frame
    BY <1>1 DEF RxInv, RxType, Descriptors
  <1>11. received' = Head(RxFrames(rx_ring, RxFirst, Stored))
    BY <1>1, <1>2, <1>3, RxScalars DEF RxFrames, RxPlace, Place
  <1>12. RxFrames(rx_ring, RxFirst, Stored)' = Tail(RxFrames(rx_ring, RxFirst, Stored))
    <2>1. ASSUME NEW i \in 1 .. Stored - 1
          PROVE  rx_ring'[RxPlace(RxFirst', i - 1)].frame
                   = rx_ring[RxPlace(RxFirst, i)].frame
      <3>1. i - 1 \in 0 .. NUM_RX_DESC - 2 /\ i \in 0..NUM_RX_DESC /\ i - 1 + 1 = i
        BY <1>2
      <3>2. RxPlace(RxFirst, i) \in 0..NUM_RX_DESC-1
        BY <3>1, RxPlaces, RxScalars
      <3> QED BY <1>9, <1>10, <3>1, <3>2
    <2> QED BY <1>2, <1>3, <1>5, <2>1 DEF RxFrames
  <1> QED BY <1>2, <1>3, <1>8, <1>11, <1>12

\* Its second half gives the descriptor back; the queue stays as it is.
LEMMA RxTail ==
  ASSUME RxInv, Card!ReceiveTail
  PROVE  /\ RxInv' /\ received' = received
         /\ RxFrames(rx_ring, RxFirst, Stored)' = RxFrames(rx_ring, RxFirst, Stored)
  <1>1. pc = "receive" /\ pc' = "idle" /\ RDT' = rx_cur /\ rx_cur' = Card!RxNext(rx_cur)
        /\ UNCHANGED <<rx_ring, RDH, arrived, received>>
    BY DEF Card!ReceiveTail
  <1>2. rx_cur' = RxPlace(rx_cur, 1) /\ rx_cur' \in 0..NUM_RX_DESC-1
    BY <1>1, RxPlaces, RxScalars DEF Card!RxNext
  <1>3. RxFirst' = RxFirst /\ Stored' = Stored
    BY <1>1 DEF RxFirst, RxNext, Card!RxNext, Stored
  <1>4. RxType'
    BY <1>1, <1>2, RxScalars DEF RxInv, RxType
  <1> QED BY <1>1, <1>2, <1>3, <1>4 DEF RxInv, RxFrames

\* The card stores a frame at the end.
LEMMA RxCardReceive ==
  ASSUME RxInv, Card!CardReceive
  PROVE  /\ RxInv' /\ Stored \in 0..NUM_RX_DESC-2 /\ received' = received
         /\ \E x \in Frames : RxFrames(rx_ring, RxFirst, Stored)'
                               = Append(RxFrames(rx_ring, RxFirst, Stored), x)
  <1> USE RingAssumption, BoundAssumption
  <1>1. /\ arrived < MaxFrames /\ RDH # RDT /\ arrived' = arrived + 1
        /\ rx_ring' = [rx_ring EXCEPT ![RDH] = [frame |-> arrived + 1, DD |-> TRUE]]
        /\ RDH' = Card!RxNext(RDH) /\ UNCHANGED <<rx_cur, RDT, received, pc>>
    BY DEF Card!CardReceive
  <1>2. RDH' = RxPlace(RDH, 1)
    BY <1>1, RxPlaces, RxScalars DEF Card!RxNext
  <1>3. RxFirst' = RxFirst
    BY <1>1 DEF RxFirst
  <1>4. Stored \in 0..NUM_RX_DESC-2
    BY <1>1, RxScalars DEF Stored, RxWay, Way, RxPlace, Place
  <1>5. Stored' = Stored + 1
    BY <1>2, <1>3, <1>4, RxScalars DEF Stored, RxWay, Way, RxPlace, Place
  <1>6. RxPlace(RxFirst, Stored) = RDH
    BY RxScalars DEF Stored, RxWay, Way, RxPlace, Place
  <1>7. \A k \in 0 .. NUM_RX_DESC - 1 : k < Stored =>
           RxPlace(RxFirst, k) # RDH /\ RxPlace(RxFirst, k) \in 0..NUM_RX_DESC-1
    BY <1>4, <1>6, RxScalars DEF RxPlace, Place
  <1>8. RxType'
    <2>1. RDH' \in 0..NUM_RX_DESC-1
      BY <1>2, RxPlaces, RxScalars
    <2>2. rx_ring' \in [0..NUM_RX_DESC-1 -> Descriptors]
      BY <1>1 DEF RxInv, RxType, Descriptors
    <2> QED BY <1>1, <2>1, <2>2 DEF RxInv, RxType
  <1>9. ASSUME NEW i \in 0..NUM_RX_DESC-1, rx_ring'[i].DD
        PROVE  RxWay(i, RxFirst') < Stored'
    <2>1. CASE i = RDH
      BY <1>3, <1>4, <1>5, <2>1 DEF Stored
    <2>2. CASE i # RDH
      <3>1. rx_ring[i].DD
        BY <1>1, <1>9, <2>2 DEF RxInv, RxType
      <3>2. RxWay(i, RxFirst) < Stored /\ RxWay(i, RxFirst) \in Nat
        <4>1. RxWay(i, RxFirst) \in 0..NUM_RX_DESC-1
          BY RxWays, RxScalars
        <4> QED BY <3>1, <4>1 DEF RxInv, Stored
      <3> QED BY <1>3, <1>4, <1>5, <3>2
    <2> QED BY <2>1, <2>2
  <1>10. pc = "receive" => RDH' # rx_cur
    BY <1>1, <1>2, RxScalars DEF RxPlace, Place
  <1>11. RxInv'
    BY <1>1, <1>8, <1>9, <1>10 DEF RxInv, Stored
  <1>12. RxFrames(rx_ring, RxFirst, Stored)'
           = Append(RxFrames(rx_ring, RxFirst, Stored), arrived + 1)
    <2>1. rx_ring'[RDH].frame = arrived + 1
      BY <1>1, RxScalars DEF RxInv, RxType
    <2>2. ASSUME NEW i \in 1..Stored
          PROVE  rx_ring'[RxPlace(RxFirst, i - 1)].frame = rx_ring[RxPlace(RxFirst, i - 1)].frame
      <3>1. i - 1 \in 0 .. NUM_RX_DESC - 1 /\ i - 1 < Stored
        BY <1>4
      <3> QED BY <1>1, <1>7, <3>1 DEF RxInv, RxType
    <2> QED BY <1>3, <1>4, <1>5, <1>6, <2>1, <2>2 DEF RxFrames
  <1>13. arrived + 1 \in Frames
    BY <1>1 DEF RxInv, RxType, Frames
  <1> QED BY <1>1, <1>4, <1>11, <1>12, <1>13

\* All other steps leave the receive ring alone.
LEMMA RxOthers ==
  ASSUME RxInv, \/ Card!SendFill \/ Card!SendTail \/ Card!SendStuck
                \/ Card!CardSend \/ Card!CardDrop \/ UNCHANGED Card!vars
  PROVE  /\ RxInv' /\ received' = received
         /\ RxFrames(rx_ring, RxFirst, Stored)' = RxFrames(rx_ring, RxFirst, Stored)
  <1>1. UNCHANGED <<rx_ring, rx_cur, RDH, RDT, received>>
    BY DEF Card!SendFill, Card!SendTail, Card!SendStuck, Card!CardSend, Card!CardDrop,
      Card!vars, Card!rx
  <1>2. /\ arrived' \in 0..MaxFrames
        /\ pc' \in {"idle", "send", "receive"} /\ (pc' = "receive" <=> pc = "receive")
    BY BoundAssumption
    DEF RxInv, RxType, Card!SendFill, Card!SendTail, Card!SendStuck, Card!CardSend,
      Card!CardDrop, Card!vars, Card!rx
  <1>3. RxFirst' = RxFirst /\ Stored' = Stored
    BY <1>1, <1>2 DEF RxFirst, Stored
  <1>4. RxType'
    BY <1>1, <1>2 DEF RxInv, RxType
  <1> QED BY <1>1, <1>2, <1>3, <1>4 DEF RxInv, RxFrames

LEMMA RxStep ==
  ASSUME RxInv, [Card!Next]_Card!vars
  PROVE  RxInv' /\ [RxQ!Next]_<<RxQueue, received>>
  <1>1. RxQueue = RxFrames(rx_ring, RxFirst, Stored)
    BY RxQueueOfState
  <1>2. (RxInv => RxQueue = RxFrames(rx_ring, RxFirst, Stored))'
    BY RxQueueOfState, PTL
  <1>3. CASE Card!ReceiveCopy
    <2>1. RxInv' /\ Stored \in 1..NUM_RX_DESC-1
      BY <1>3, RxCopy
    <2>2. received' = Head(RxQueue) /\ RxQueue' = Tail(RxQueue)
      BY <1>1, <1>2, <1>3, RxCopy
    <2>3. RxQueue # <<>>
      <3>1. NUM_RX_DESC \in Nat /\ Stored >= 1 /\ Stored \in Nat
        BY <2>1, RingAssumption
      <3> QED BY <1>1, <3>1 DEF RxFrames
    <2> QED BY <2>1, <2>2, <2>3 DEF RxQ!Get, RxQ!Next
  <1>4. CASE Card!CardReceive
    <2>1. RxInv' /\ received' = received /\ Stored \in 0..NUM_RX_DESC-2
      BY <1>4, RxCardReceive
    <2>2. PICK x \in Frames : RxQueue' = Append(RxQueue, x)
      BY <1>1, <1>2, <1>4, RxCardReceive
    <2>3. Len(RxQueue) < NUM_RX_DESC - 1
      BY <1>1, <2>1, RingAssumption DEF RxFrames
    <2>4. RxQ!Put(x)
      BY <2>1, <2>2, <2>3 DEF RxQ!Put
    <2> QED BY <2>1, <2>4 DEF RxQ!Next
  <1>5. CASE Card!ReceiveTail
    BY <1>1, <1>2, <1>5, RxTail
  <1>6. CASE \/ Card!SendFill \/ Card!SendTail \/ Card!SendStuck
             \/ Card!CardSend \/ Card!CardDrop \/ UNCHANGED Card!vars
    BY <1>1, <1>2, <1>6, RxOthers
  <1> QED BY <1>3, <1>4, <1>5, <1>6 DEF Card!Next, Card!Driver

\* e1000_receive returns the frames the card stored, each once and in order,
\* for a ring of any size; a frame is lost only when no descriptor is free
\* (e1000.c:300-318).
THEOREM RxRefinesQueue == Card!Spec => RxImplementsQueue
  <1>1. Card!Init => RxInv /\ RxQ!Init
    <2> SUFFICES ASSUME Card!Init PROVE RxInv /\ RxQ!Init
      OBVIOUS
    <2>1. RxInv /\ Stored = 0
      BY RxInit
    <2>2. RxQueue = RxFrames(rx_ring, RxFirst, 0) /\ received = 0
      BY <2>1, RxQueueOfState DEF Card!Init
    <2> QED BY <2>1, <2>2 DEF RxFrames, RxQ!Init
  <1>2. RxInv /\ [Card!Next]_Card!vars => RxInv' /\ [RxQ!Next]_<<RxQueue, received>>
    BY RxStep
  <1> QED BY <1>1, <1>2, PTL DEF Card!Spec, RxImplementsQueue, RxQ!Spec
=============================================================================
