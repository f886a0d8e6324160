-------------------------------- MODULE Net --------------------------------
(***************************************************************************)
(* net/net.c and the shell's ping command: ARP cache, address resolution,  *)
(* ping and the answers to other hosts' requests.  Everything runs inside  *)
(* net_ping, whose loops call net_poll; net_poll answers an echo request   *)
(* by resolving the sender, which polls again, and so on: calls is that    *)
(* stack of send_ipv4 calls, the last one running.  A host's MAC is the    *)
(* host.                                                                   *)
(***************************************************************************)
EXTENDS Integers, Sequences, SequencesExt

CONSTANTS
    OnLink, Remote,     \* hosts of the local network, and others
    gateway_ip,
    ARP_CACHE_SIZE,
    Attempts,           \* ARP requests of one resolve (3)
    ResolveTicks,       \* wait after each (20)
    PingTicks,          \* wait of a ping (100)
    SeqCount,           \* pings of one command, numbered from 1 (4)
    RxSlots,            \* frames the card holds for the driver
    Tags,               \* contents of echo requests sent to us
    MaxPings,           \* bound: pings
    MaxArrivals         \* bound: frames that arrive

Hosts == OnLink \cup Remote
NoHost == "none"

ASSUME HostsAssumption == gateway_ip \in OnLink /\ NoHost \notin Hosts
ASSUME SizesAssumption ==
    {ARP_CACHE_SIZE, Attempts, ResolveTicks, PingTicks, SeqCount, RxSlots}
        \subseteq Nat \ {0}

VARIABLES
    arp_cache,          \* per slot the address, or NoHost; and its MAC
    inbox,              \* frames waiting in the receive ring
    rx_frame,           \* the frame net_poll read last
    calls,              \* send_ipv4 calls that wait for a MAC
    at,                 \* the running loop: "loop", "poll" or "check"
    ping,               \* net_ping: "idle", "sending" or "waiting"
    target, pingNo,     \* its host; pings so far
    ping_got_reply,
    elapsed,            \* ticks since start, up to PingTicks
    sent,               \* the frame sent last
    requested,          \* echo requests of ours that were sent
    asked,              \* echo requests that arrived
    answer,             \* the reply that set ping_got_reply
    arrivals

pingVars == <<ping, target, pingNo, ping_got_reply, elapsed, answer>>
outside == <<asked, arrivals>>
vars == <<arp_cache, inbox, rx_frame, calls, at, pingVars, sent, requested, outside>>

Frame(type, from, tag) == [type |-> type, from |-> from, tag |-> tag]
Packet(type, to, tag) == [type |-> type, to |-> to, tag |-> tag]

ping_wait_seq(n) == ((n - 1) % SeqCount) + 1

NextHop(ip) == IF ip \in OnLink THEN ip ELSE gateway_ip

Slots == 1..ARP_CACHE_SIZE
SlotsOf(ip) == {i \in Slots : arp_cache[i].ip = ip}
First(S) == CHOOSE i \in S : \A j \in S : i <= j

\* Mutant: the slot that is taken over keeps its MAC.
arp_cache_put_address(ip) ==
    LET slot == IF SlotsOf(ip) # {} THEN First(SlotsOf(ip))
                ELSE IF SlotsOf(NoHost) # {} THEN First(SlotsOf(NoHost)) ELSE 1
    IN  IF arp_cache[slot].ip = NoHost
        THEN [arp_cache EXCEPT ![slot] = [ip |-> ip, mac |-> ip]]
        ELSE [arp_cache EXCEPT ![slot].ip = ip]

\* A full cache gives up its first slot.
arp_cache_put(ip) ==
    LET slot == IF SlotsOf(ip) # {} THEN First(SlotsOf(ip))
                ELSE IF SlotsOf(NoHost) # {} THEN First(SlotsOf(NoHost)) ELSE 1
    IN  [arp_cache EXCEPT ![slot] = [ip |-> ip, mac |-> ip]]

Cached(ip) == SlotsOf(ip) # {}
arp_cache_get(ip) == arp_cache[First(SlotsOf(ip))].mac

\* net_init
Init ==
    /\ arp_cache = [i \in Slots |-> [ip |-> NoHost, mac |-> NoHost]]
    /\ inbox = <<>> /\ rx_frame = Frame("none", NoHost, 0)
    /\ calls = <<>> /\ at = "loop"
    /\ ping = "idle" /\ target = NoHost /\ pingNo = 0
    /\ ping_got_reply = FALSE /\ elapsed = 0
    /\ sent = [type |-> "none", to |-> NoHost, tag |-> 0, mac |-> NoHost]
    /\ requested = {} /\ asked = {} /\ answer = Frame("none", NoHost, 0)
    /\ arrivals = 0

(***************************************************************************)
(* Sending.                                                                *)
(***************************************************************************)
Running == calls[Len(calls)]

\* send_frame: the card takes the frame (ok) or e1000_send refuses it.
send_frame(p, mac, ok) ==
    /\ sent' = IF ok THEN [type |-> p.type, to |-> p.to, tag |-> p.tag, mac |-> mac]
               ELSE sent
    /\ requested' = IF ok /\ p.type = "echo" THEN requested \cup {p} ELSE requested

\* send_arp does not look whether the card took the frame, which may get lost
\* on its way as well.
send_arp(type, to) ==
    send_frame(Packet(type, to, 0), IF type = "arp_request" THEN "broadcast" ELSE to, TRUE)

\* send_ipv4 with a next hop that is not cached: net_arp_resolve begins.
Resolve(p) ==
    /\ ~Cached(NextHop(p.to))
    /\ calls' = Append(calls, [packet |-> p, attempt |-> 1, left |-> ResolveTicks])
    /\ at' = "loop"
    /\ send_arp("arp_request", NextHop(p.to))

\* net_ping returns.
PingReturns ==
    /\ ping' = "idle"
    /\ UNCHANGED <<target, pingNo, ping_got_reply, elapsed, answer>>

(***************************************************************************)
(* net_ping, called for each sequence number of a ping command.            *)
(***************************************************************************)
PingBegins(h) ==
    /\ ping = "idle" /\ pingNo < MaxPings
    /\ pingNo % SeqCount = 0 \/ h = target
    /\ pingNo' = pingNo + 1 /\ target' = h
    /\ ping_got_reply' = FALSE /\ elapsed' = 0
    /\ UNCHANGED <<arp_cache, inbox, rx_frame, answer, outside>>

\* The MAC is known and the request goes out at once.
PingSends(h) ==
    /\ PingBegins(h)
    /\ Cached(NextHop(h))
    /\ \E ok \in BOOLEAN :
          /\ send_frame(Packet("echo", h, pingNo'), arp_cache_get(NextHop(h)), ok)
          /\ ping' = IF ok THEN "waiting" ELSE "idle"
    /\ at' = "loop"
    /\ UNCHANGED calls

PingResolves(h) ==
    /\ PingBegins(h)
    /\ Resolve(Packet("echo", h, pingNo'))
    /\ ping' = "sending"

InPingLoop == ping = "waiting" /\ calls = <<>>

PingPolls ==
    /\ InPingLoop /\ at = "loop" /\ elapsed < PingTicks
    /\ at' = "poll"
    /\ UNCHANGED <<arp_cache, inbox, rx_frame, calls, pingVars, sent, requested, outside>>

PingTimesOut ==
    /\ InPingLoop /\ at = "loop" /\ elapsed = PingTicks
    /\ PingReturns
    /\ UNCHANGED <<arp_cache, inbox, rx_frame, calls, at, sent, requested, outside>>

PingChecks ==
    /\ InPingLoop /\ at = "check"
    /\ IF ping_got_reply THEN PingReturns ELSE UNCHANGED pingVars
    /\ at' = "loop"
    /\ UNCHANGED <<arp_cache, inbox, rx_frame, calls, sent, requested, outside>>

(***************************************************************************)
(* net_arp_resolve, in the last of calls.                                  *)
(***************************************************************************)
ResolvePolls ==
    /\ calls # <<>> /\ at = "loop" /\ Running.left > 0
    /\ at' = "poll"
    /\ UNCHANGED <<arp_cache, inbox, rx_frame, calls, pingVars, sent, requested, outside>>

\* Mutant: the attempts are not counted.
ResolveRetriesForEver ==
    /\ calls # <<>> /\ at = "loop" /\ Running.left = 0
    /\ calls' = [calls EXCEPT ![Len(calls)].left = ResolveTicks]
    /\ send_arp("arp_request", NextHop(Running.packet.to))
    /\ UNCHANGED <<arp_cache, inbox, rx_frame, at, pingVars, outside>>

ResolveRetries ==
    /\ calls # <<>> /\ at = "loop" /\ Running.left = 0 /\ Running.attempt < Attempts
    /\ calls' = [calls EXCEPT ![Len(calls)].attempt = @ + 1,
                              ![Len(calls)].left = ResolveTicks]
    /\ send_arp("arp_request", NextHop(Running.packet.to))
    /\ UNCHANGED <<arp_cache, inbox, rx_frame, at, pingVars, outside>>

\* send_ipv4 returns: to the net_poll it was called from, or to net_ping.
SendReturns(ok) ==
    /\ calls' = Front(calls)
    /\ IF Len(calls) > 1 \/ ping = "waiting"
       THEN at' = "poll" /\ UNCHANGED pingVars
       ELSE /\ at' = "loop"
            /\ ping' = IF ok THEN "waiting" ELSE "idle"
            /\ UNCHANGED <<target, pingNo, ping_got_reply, elapsed, answer>>

ResolveTimesOut ==
    /\ calls # <<>> /\ at = "loop" /\ Running.left = 0 /\ Running.attempt = Attempts
    /\ SendReturns(FALSE)
    /\ UNCHANGED <<arp_cache, inbox, rx_frame, sent, requested, outside>>

\* Mutant: what is sent is what net_poll read last.
ResolveSendsFrame ==
    /\ calls # <<>> /\ at = "check" /\ Cached(NextHop(Running.packet.to))
    /\ \E ok \in BOOLEAN :
          /\ send_frame(IF Running.packet.type = "echo" THEN Running.packet
                        ELSE Packet("echo_reply", rx_frame.from, rx_frame.tag),
                        arp_cache_get(NextHop(Running.packet.to)), ok)
          /\ SendReturns(ok)
    /\ UNCHANGED <<arp_cache, inbox, rx_frame, outside>>

\* The answer is there: the packet goes out.
ResolveSends ==
    /\ calls # <<>> /\ at = "check" /\ Cached(NextHop(Running.packet.to))
    /\ \E ok \in BOOLEAN :
          /\ send_frame(Running.packet, arp_cache_get(NextHop(Running.packet.to)), ok)
          /\ SendReturns(ok)
    /\ UNCHANGED <<arp_cache, inbox, rx_frame, outside>>

ResolveWaits ==
    /\ calls # <<>> /\ at = "check" /\ ~Cached(NextHop(Running.packet.to))
    /\ at' = "loop"
    /\ UNCHANGED <<arp_cache, inbox, rx_frame, calls, pingVars, sent, requested, outside>>

(***************************************************************************)
(* net_poll.                                                               *)
(***************************************************************************)
PollReads(type) ==
    /\ at = "poll" /\ inbox # <<>> /\ Head(inbox).type = type
    /\ inbox' = Tail(inbox) /\ rx_frame' = Head(inbox)
    /\ UNCHANGED outside

\* Mutant: the wait goes on without a look at the cache.
PollEndsUnchecked ==
    /\ at = "poll" /\ inbox = <<>>
    /\ at' = "loop"
    /\ UNCHANGED <<arp_cache, inbox, rx_frame, calls, pingVars, sent, requested, outside>>

PollEnds ==
    /\ at = "poll" /\ inbox = <<>>
    /\ at' = "check"
    /\ UNCHANGED <<arp_cache, inbox, rx_frame, calls, pingVars, sent, requested, outside>>

\* handle_arp: every sender is remembered; a request for our address is
\* answered.
handle_arp ==
    \E type \in {"arp_request", "arp_other"} :
        /\ PollReads(type)
        /\ arp_cache' = arp_cache_put(rx_frame'.from)
        /\ IF type = "arp_request"
           THEN send_arp("arp_reply", rx_frame'.from)
           ELSE UNCHANGED <<sent, requested>>
        /\ UNCHANGED <<calls, at, pingVars>>

\* Mutant: any echo reply is taken.
handle_echo_reply_any ==
    /\ PollReads("echo_reply")
    /\ ping_got_reply' = TRUE /\ answer' = rx_frame'
    /\ UNCHANGED <<arp_cache, calls, at, ping, target, pingNo, elapsed, sent, requested>>

\* handle_icmp: only the sequence number is compared.
handle_echo_reply ==
    /\ PollReads("echo_reply")
    /\ IF ping_wait_seq(rx_frame'.tag) = ping_wait_seq(pingNo)
       THEN ping_got_reply' = TRUE /\ answer' = rx_frame'
       ELSE UNCHANGED <<ping_got_reply, answer>>
    /\ UNCHANGED <<arp_cache, calls, at, ping, target, pingNo, elapsed, sent, requested>>

\* An echo request is answered, after a resolve of its own if need be.
handle_echo ==
    /\ PollReads("echo")
    /\ LET reply == Packet("echo_reply", rx_frame'.from, rx_frame'.tag)
           hop == NextHop(rx_frame'.from)
       IN  \/ Resolve(reply)
           \/ /\ Cached(hop)
              /\ \E ok \in BOOLEAN : send_frame(reply, arp_cache_get(hop), ok)
              /\ UNCHANGED <<calls, at>>
    /\ UNCHANGED <<arp_cache, pingVars>>

\* Too short, not IPv4, or for another host.
PollIgnores ==
    /\ PollReads("other")
    /\ UNCHANGED <<arp_cache, calls, at, pingVars, sent, requested>>

(***************************************************************************)
(* Time and the network.                                                   *)
(***************************************************************************)
\* Ticks pass: the shell may also be preempted for some.
Tick ==
    /\ ping # "idle"
    /\ calls' = [i \in DOMAIN calls |->
                    [calls[i] EXCEPT !.left = IF @ > 0 THEN @ - 1 ELSE 0]]
    /\ elapsed' = IF elapsed < PingTicks THEN elapsed + 1 ELSE elapsed
    /\ UNCHANGED <<arp_cache, inbox, rx_frame, at, ping, target, pingNo,
                   ping_got_reply, answer, sent, requested, outside>>

\* Frames that can arrive: ARP from the local network, echo requests, and
\* late, repeated or lost answers to our own.
Arriving ==
    {Frame(type, h, 0) : type \in {"arp_request", "arp_other"}, h \in OnLink}
    \cup {Frame("echo", h, tag) : h \in Hosts, tag \in Tags}
    \cup {Frame("echo_reply", p.to, p.tag) : p \in requested}
    \cup {Frame("other", gateway_ip, 0)}

\* The card drops what does not fit its ring.
Arrive ==
    /\ arrivals < MaxArrivals
    /\ arrivals' = arrivals + 1
    /\ \E f \in Arriving :
          /\ inbox' = IF Len(inbox) < RxSlots THEN Append(inbox, f) ELSE inbox
          /\ asked' = IF f.type = "echo" /\ Len(inbox) < RxSlots
                      THEN asked \cup {f} ELSE asked
    /\ UNCHANGED <<arp_cache, rx_frame, calls, at, pingVars, sent, requested>>

Poll == PollEnds \/ handle_arp \/ handle_echo_reply \/ handle_echo \/ PollIgnores
ResolveSteps ==
    \/ ResolvePolls \/ ResolveRetries \/ ResolveTimesOut
    \/ ResolveSends \/ ResolveWaits
PingSteps == PingPolls \/ PingTimesOut \/ PingChecks
Step == Poll \/ ResolveSteps \/ PingSteps

Next ==
    \/ \E h \in Hosts : PingSends(h) \/ PingResolves(h)
    \/ Step \/ Tick \/ Arrive

Spec == Init /\ [][Next]_vars

\* The shell's process gets the CPU and the timer ticks.
FairSpec == Spec /\ WF_vars(Step) /\ WF_vars(Tick)

(***************************************************************************)
(* Properties.                                                             *)
(***************************************************************************)
MaybeHosts == Hosts \cup {NoHost}

\* The types.
TypeOK ==
    /\ arp_cache \in [Slots -> [ip : MaybeHosts, mac : MaybeHosts]]
    /\ Len(inbox) <= RxSlots
    /\ at \in {"loop", "poll", "check"}
    /\ ping \in {"idle", "sending", "waiting"}
    /\ ping = "idle" => calls = <<>>
    /\ \A i \in DOMAIN calls :
          /\ calls[i].attempt \in 1..Attempts /\ calls[i].left \in 0..ResolveTicks
          /\ calls[i].packet.type = "echo" => i = 1 /\ ping = "sending"
    /\ elapsed \in 0..PingTicks

\* send_ipv4 sends to the MAC of the host itself, or of the gateway for a host
\* elsewhere, whatever arrived between the request for the MAC and its use.
SentToNextHop ==
    sent.type \in {"echo", "echo_reply"} => sent.mac = NextHop(sent.to)

\* An echo reply carries what the host it goes to has asked, although other
\* frames were read into rx_frame while its MAC was looked for.
EchoAnswersRequest ==
    sent.type = "echo_reply" => Frame("echo", sent.to, sent.tag) \in asked

\* A reply that net_ping reports answers the request it has sent.
ReplyIsOurs ==
    ping # "idle" /\ ping_got_reply =>
        answer = Frame("echo_reply", target, pingNo)

\* net_arp_resolve gives up only if it has no answer: also one that a nested
\* resolve or its last poll brought is used.
GivesUpUnanswered ==
    [][ResolveTimesOut => ~Cached(NextHop(Running.packet.to))]_vars

\* net_ping returns, also when answering others keeps it busy.
PingEnds == (ping # "idle") ~> (ping = "idle")

\* What arrives is handled.
FramesHandled == (inbox # <<>>) ~> (inbox = <<>>)
=============================================================================
