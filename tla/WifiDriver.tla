----------------------------- MODULE WifiDriver -----------------------------
(***************************************************************************)
(* EspWifiBackendDriver: the objects that share the one radio through       *)
(* radio_claimed (the resource backend, the book transfer, the self test),  *)
(* the events of the Wi-Fi library, which the event task delivers to        *)
(* whichever handlers are registered by then, and the DNS queries, which    *)
(* lwIP finishes in its own task and nobody can call back.                  *)
(*                                                                         *)
(* A call of a driver is one step: its claim keeps the other drivers out    *)
(* and an event finds flags only.  Credentials, the TLS handshake and HTTP  *)
(* (module WifiHttp) are left out.                                          *)
(***************************************************************************)
EXTENDS Naturals, Sequences, FiniteSets

CONSTANTS
    Drivers,        \* the objects
    Queries,        \* the memory for DNS queries
    Netifs,         \* the places in the heap a network interface may be at
    None,
    MaxSessions,    \* bound: successful claims
    MaxEvents       \* bound: events in the loop when the library posts one by itself

VARIABLES
    driver,         \* each object's Impl
    claim,          \* radio_claimed
    radio,          \* the Wi-Fi library and the station
    events,         \* posted and not delivered
    query,          \* each DnsQuery
    sessions,       \* claims so far
    leased,         \* history: sessions whose interface was given an address
    shared          \* history: sessions whose interface is where an earlier one was that
                    \* an event in the loop still names

vars == <<driver, claim, radio, events, query, sessions, leased, shared>>

NoRadio == [init |-> FALSE, on |-> FALSE, link |-> "none", netif |-> None, scan |-> FALSE]
Fresh == [life |-> "live", claimed |-> FALSE, stopping |-> FALSE, netif |-> None,
          init |-> FALSE, started |-> FALSE, wifiHandler |-> FALSE, ipHandler |-> FALSE,
          error |-> FALSE, ready |-> FALSE, assoc |-> FALSE, ip |-> FALSE,
          mode |-> "station", connect |-> FALSE, scan |-> FALSE, done |-> FALSE,
          dns |-> None, tls |-> FALSE, http |-> FALSE, clock |-> FALSE]
Free == [at |-> "free", refs |-> 0, cancelled |-> FALSE, result |-> "pending"]
Kinds == {"start", "stop", "connected", "disconnected", "scanDone", "gotIp", "lostIp"}

TypeOK ==
    /\ driver \in [Drivers ->
         [life : {"none", "live", "gone", "leaked"}, claimed : BOOLEAN, stopping : BOOLEAN,
          netif : Netifs \cup {None}, init : BOOLEAN, started : BOOLEAN, wifiHandler : BOOLEAN,
          ipHandler : BOOLEAN, error : BOOLEAN, ready : BOOLEAN, assoc : BOOLEAN,
          ip : BOOLEAN, mode : {"station", "scan", "ap"}, connect : BOOLEAN,
          scan : BOOLEAN, done : BOOLEAN, dns : Queries \cup {None}, tls : BOOLEAN,
          http : BOOLEAN, clock : BOOLEAN]]
    /\ claim \in BOOLEAN
    /\ radio \in [init : BOOLEAN, on : BOOLEAN, netif : Netifs \cup {None}, scan : BOOLEAN,
                  link : {"none", "connecting", "assoc", "ip"}]
    /\ events \in Seq([kind : Kinds, netif : Netifs \cup {None}])
    /\ query \in [Queries -> [at : {"free", "queued", "asked", "done"}, refs : 0..2,
                              cancelled : BOOLEAN, result : {"pending", "ready", "failed"}]]
    /\ sessions \in 0..MaxSessions
    /\ leased \subseteq 1..MaxSessions /\ shared \subseteq 1..MaxSessions

Init ==
    /\ driver = [d \in Drivers |-> [Fresh EXCEPT !.life = "none"]]
    /\ claim = FALSE /\ radio = NoRadio /\ events = <<>>
    /\ query = [q \in Queries |-> Free] /\ sessions = 0 /\ leased = {} /\ shared = {}

-----------------------------------------------------------------------------
(* Seeded faults.                                                          *)

\* RadioOwned: an object whose radio did not stop is deleted all the same.
DestroyedAnyway(d, r) == "gone"

-----------------------------------------------------------------------------
(* DNS: one reference for the owner, one for lwIP.                          *)

Release(q) == IF q.refs = 1 THEN Free ELSE [q EXCEPT !.refs = @ - 1]

\* tcpip_try_callback refused: both references are given back at once.
Refused == Free

Answer(q, result) == Release([q EXCEPT !.at = "done", !.result = result])

\* ReleaseDns
WithoutDns(d) ==
    IF driver[d].dns = None THEN query
    ELSE [query EXCEPT ![driver[d].dns] = Release([@ EXCEPT !.cancelled = TRUE])]

\* DnsQuery.Start in the tcpip task.
Lookup(q) ==
    /\ query[q].at = "queued"
    /\ \E next \in IF query[q].cancelled THEN {Release([query[q] EXCEPT !.at = "done"])}
                   ELSE {[query[q] EXCEPT !.at = "asked"], Answer(query[q], "ready"),
                         Answer(query[q], "failed")} :
         query' = [query EXCEPT ![q] = next]
    /\ UNCHANGED <<driver, claim, radio, events, sessions, leased, shared>>

\* DnsQuery.Complete, whenever lwIP has the answer or gives up.
Complete(q) ==
    /\ query[q].at = "asked"
    /\ \E result \in {"ready", "failed"} : query' = [query EXCEPT ![q] = Answer(@, result)]
    /\ UNCHANGED <<driver, claim, radio, events, sessions, leased, shared>>

-----------------------------------------------------------------------------
(* The Wi-Fi library.                                                      *)

Post(kind) == /\ Len(events) < MaxEvents
              /\ events' = Append(events, [kind |-> kind, netif |-> radio.netif])

RadioStep ==
    /\ radio.on
    /\ \/ /\ radio.link = "connecting" /\ Post("connected")
          /\ radio' = [radio EXCEPT !.link = "assoc"] /\ UNCHANGED leased
       \/ /\ radio.link = "assoc" /\ Post("gotIp") /\ leased' = leased \cup {sessions}
          /\ radio' = [radio EXCEPT !.link = "ip"]
       \/ /\ radio.link = "ip" /\ Post("lostIp") /\ UNCHANGED leased
          /\ radio' = [radio EXCEPT !.link = "assoc"]
       \/ /\ radio.link # "none" /\ Post("disconnected") /\ UNCHANGED leased
          /\ radio' = [radio EXCEPT !.link = "none"]
       \/ /\ radio.scan /\ Post("scanDone") /\ radio' = [radio EXCEPT !.scan = FALSE]
          /\ UNCHANGED leased
    /\ UNCHANGED <<driver, claim, query, sessions, shared>>

\* IP_EVENT_STA_GOT_IP counts for the interface it names only, by its place in the heap,
\* where an earlier one may have been.
Ours(d, e) == e.netif = driver[d].netif

\* OnEvent
Handled(d, e) ==
    LET v == driver[d]
        listens == IF e.kind \in {"gotIp", "lostIp"} THEN v.ipHandler ELSE v.wifiHandler
    IN IF ~listens \/ v.stopping THEN v
       ELSE CASE e.kind = "start" -> [v EXCEPT !.ready = TRUE]
              [] e.kind = "stop" ->         \* WIFI_EVENT_AP_STOP
                    IF v.mode = "ap" THEN [v EXCEPT !.ready = FALSE, !.error = TRUE] ELSE v
              [] e.kind = "connected" -> [v EXCEPT !.assoc = TRUE]
              [] e.kind = "disconnected" ->
                    [v EXCEPT !.assoc = FALSE, !.ip = FALSE, !.error = TRUE]
              [] e.kind = "scanDone" -> [v EXCEPT !.done = TRUE]
              [] e.kind = "gotIp" -> [v EXCEPT !.ip = @ \/ Ours(d, e)]
              [] e.kind = "lostIp" -> [v EXCEPT !.ip = FALSE, !.error = TRUE]

Deliver ==
    /\ events # <<>> /\ events' = Tail(events)
    /\ driver' = [d \in Drivers |-> Handled(d, Head(events))]
    /\ UNCHANGED <<claim, radio, query, sessions, leased, shared>>

-----------------------------------------------------------------------------
(* Start and Stop.                                                         *)

New(d) == /\ driver[d].life \in {"none", "gone"} /\ driver' = [driver EXCEPT ![d] = Fresh]
          /\ UNCHANGED <<claim, radio, events, query, sessions, leased, shared>>

\* An event of an earlier interface that was at the same place.
Lingers(place) == \E i \in 1..Len(events) :
                     events[i].kind = "gotIp" /\ events[i].netif = place

\* The steps of Start that succeed before the first that fails: the netif, the
\* library, the two handlers, the radio.  A partial start is accepted too.
Start(d, mode) ==
    /\ driver[d].life = "live" /\ ~driver[d].claimed /\ ~claim
    /\ sessions < MaxSessions /\ sessions' = sessions + 1 /\ claim' = TRUE
    /\ \E made \in 0..5, place \in Netifs :
         LET netif == IF made >= 1 THEN place ELSE None
         IN /\ driver' = [driver EXCEPT ![d] =
                   [@ EXCEPT !.claimed = TRUE, !.stopping = FALSE, !.mode = mode,
                             !.netif = netif,
                             !.init = made >= 2, !.wifiHandler = made >= 3,
                             !.ipHandler = made >= 4, !.started = made = 5, !.error = made < 5,
                             !.ready = FALSE, !.assoc = FALSE, !.ip = FALSE, !.done = FALSE,
                             !.clock = FALSE]]
            /\ radio' = [NoRadio EXCEPT !.init = made >= 2, !.on = made = 5, !.netif = netif]
            /\ events' = IF made < 5 THEN events
                         ELSE Append(events, [kind |-> "start", netif |-> netif])
            /\ shared' = IF Lingers(netif) THEN shared \cup {sessions + 1} ELSE shared
    /\ UNCHANGED <<query, leased>>

\* Impl.Stop as <<all down, the Impl>>, once for every step that may fail; what
\* was taken down before it stays down, and the next call goes on from there.
Stopped(d) ==
    LET v0 == [driver[d] EXCEPT !.stopping = TRUE, !.http = FALSE, !.tls = FALSE, !.dns = None]
        v1 == [v0 EXCEPT !.started = FALSE]
        v2 == [v1 EXCEPT !.init = FALSE]
        v3 == [v2 EXCEPT !.wifiHandler = FALSE]
        v4 == [v3 EXCEPT !.ipHandler = FALSE, !.netif = None, !.connect = FALSE, !.scan = FALSE,
                         !.claimed = FALSE]
    IN {<<TRUE, v4>>}
       \cup (IF driver[d].started THEN {<<FALSE, v0>>} ELSE {})
       \cup (IF driver[d].init THEN {<<FALSE, v1>>} ELSE {})
       \cup (IF driver[d].wifiHandler THEN {<<FALSE, v2>>} ELSE {})
       \cup (IF driver[d].ipHandler THEN {<<FALSE, v3>>} ELSE {})

\* What esp_wifi_stop and esp_wifi_deinit do, and the events they post.
TakenDown(v) ==
    /\ radio' = IF v.init THEN [radio EXCEPT !.on = v.started, !.link = IF v.started THEN @ ELSE "none"]
                ELSE NoRadio
    /\ events' = IF radio.on /\ ~v.started
                 THEN Append(events, [kind |-> IF radio.link \in {"assoc", "ip"}
                                               THEN "disconnected" ELSE "stop",
                                      netif |-> radio.netif])
                 ELSE events

StopStation(d) ==
    /\ driver[d].life = "live" /\ driver[d].claimed
    /\ \E r \in Stopped(d) :
         /\ driver' = [driver EXCEPT ![d] = r[2]] /\ claim' = ~r[1]
         /\ TakenDown(r[2]) /\ query' = WithoutDns(d)
    /\ UNCHANGED <<sessions, leased, shared>>

\* A failed stop keeps the callback's storage, and the claim with it.
AfterDestroy(d, stopped) == IF stopped THEN "gone" ELSE "leaked"

Destroy(d) ==
    /\ driver[d].life = "live"
    /\ \/ /\ ~driver[d].claimed
          /\ driver' = [driver EXCEPT ![d] = [Fresh EXCEPT !.life = "gone"]]
          /\ UNCHANGED <<claim, radio, events, query>>
       \/ /\ driver[d].claimed
          /\ \E r \in Stopped(d) :
               /\ driver' = [driver EXCEPT ![d] = [r[2] EXCEPT !.life = AfterDestroy(d, r[1])]]
               /\ claim' = ~r[1] /\ TakenDown(r[2]) /\ query' = WithoutDns(d)
    /\ UNCHANGED <<sessions, leased, shared>>

-----------------------------------------------------------------------------
(* The polls; they answer from the flags once the link has failed.          *)

Usable(d) == driver[d].life = "live" /\ driver[d].claimed /\ ~driver[d].error

PollAssociation(d) ==
    LET v == driver[d]
    IN /\ Usable(d) /\ v.ready /\ ~v.connect /\ v.mode = "station"
       /\ \/ /\ v.started /\ radio' = [radio EXCEPT !.link = "connecting"]
             /\ driver' = [driver EXCEPT ![d].connect = TRUE]
          \/ /\ driver' = [driver EXCEPT ![d].connect = TRUE, ![d].error = TRUE]
             /\ UNCHANGED radio
       /\ UNCHANGED <<claim, events, query, sessions, leased, shared>>

PollScan(d) ==
    LET v == driver[d]
    IN /\ Usable(d) /\ v.ready /\ v.mode = "scan"
       /\ \/ /\ ~v.scan
             /\ \/ /\ v.started /\ radio' = [radio EXCEPT !.scan = TRUE]
                   /\ driver' = [driver EXCEPT ![d].done = FALSE, ![d].scan = TRUE]
                \/ driver' = [driver EXCEPT ![d].done = FALSE] /\ UNCHANGED radio
          \/ /\ v.scan /\ v.done /\ driver' = [driver EXCEPT ![d].scan = FALSE]
             /\ UNCHANGED radio
       /\ UNCHANGED <<claim, events, query, sessions, leased, shared>>

Resolve(d) ==
    /\ Usable(d) /\ driver[d].ip /\ driver[d].dns = None
    /\ \E q \in Queries :
         /\ query[q] = Free
         /\ \/ /\ query' = [query EXCEPT ![q] = [Free EXCEPT !.at = "queued", !.refs = 2]]
               /\ driver' = [driver EXCEPT ![d].dns = q]
            \/ query' = [query EXCEPT ![q] = Refused] /\ UNCHANGED driver
    /\ UNCHANGED <<claim, radio, events, sessions, leased, shared>>

OpenTls(d) ==
    /\ Usable(d) /\ driver[d].ip /\ driver[d].dns # None /\ ~driver[d].tls
    /\ query[driver[d].dns].result = "ready"
    /\ driver' = [driver EXCEPT ![d].tls = TRUE]
    /\ UNCHANGED <<claim, radio, events, query, sessions, leased, shared>>

\* The clock of a complete response is kept until it is taken or the next start.
Fetch(d) ==
    /\ Usable(d) /\ driver[d].ip /\ driver[d].tls /\ ~driver[d].http
    /\ \E sampled \in BOOLEAN :
         driver' = [driver EXCEPT ![d].http = TRUE, ![d].clock = sampled]
    /\ UNCHANGED <<claim, radio, events, query, sessions, leased, shared>>

TakeClockSample(d) ==
    /\ driver[d].life = "live" /\ driver[d].clock
    /\ driver' = [driver EXCEPT ![d].clock = FALSE]
    /\ UNCHANGED <<claim, radio, events, query, sessions, leased, shared>>

Next ==
    \/ \E d \in Drivers :
         \/ New(d) \/ StopStation(d) \/ Destroy(d)
         \/ \E mode \in {"station", "scan", "ap"} : Start(d, mode)
         \/ PollAssociation(d) \/ PollScan(d) \/ Resolve(d) \/ OpenTls(d) \/ Fetch(d)
         \/ TakeClockSample(d)
    \/ \E q \in Queries : Lookup(q) \/ Complete(q)
    \/ RadioStep \/ Deliver

Spec == Init /\ [][Next]_vars

-----------------------------------------------------------------------------
(* The radio runs for the one driver that claimed it, also after a stop or  *)
(* a destructor that failed half-way, and an object whose memory was given  *)
(* back is called by no handler.                                            *)
RadioOwned ==
    /\ Cardinality({d \in Drivers : driver[d].claimed}) = IF claim THEN 1 ELSE 0
    /\ radio.init => \E d \in Drivers : driver[d].claimed /\ driver[d].init
    /\ \A d \in Drivers : driver[d].life \in {"none", "gone"}
         => ~driver[d].wifiHandler /\ ~driver[d].ipHandler /\ driver[d].dns = None

(* A DNS query is in memory exactly as long as its driver or lwIP may still  *)
(* touch it, whichever lets go first and whether lwIP took it or not.        *)
QueryHeld ==
    \A q \in Queries :
        query[q].refs = Cardinality({d \in Drivers : driver[d].dns = q})
                        + IF query[q].at \in {"queued", "asked"} THEN 1 ELSE 0

(* A driver that asks for DNS over its link has an address that this         *)
(* session's interface was given.  It may be that of an event left over from *)
(* the session before only where this session's interface took the place of  *)
(* the one that event names.                                                 *)
AddressIsReal ==
    \A d \in Drivers : driver[d].claimed /\ driver[d].ip => sessions \in leased \cup shared
=============================================================================
