------------------------------ MODULE Pairing ------------------------------
(***************************************************************************)
(* Enrollment of a phone: PairingBootstrap and EnrollmentPublisher on the  *)
(* session task, the NFC chip and its field task (Note4Nfc, NfcService),   *)
(* the pairing window of BleLink, the hello of ConnectivityService, the    *)
(* stored identity, and on the phone EnrollmentHandoff and the enrolled    *)
(* flag.  The session task runs one handler at a time; RF field, field     *)
(* task, link events, phones and a power cut interleave with its writes.   *)
(* Expiry is a flag raised by time; tokens are numbered as they are drawn. *)
(***************************************************************************)
EXTENDS Integers, FiniteSets

CONSTANTS Phones, None, Torn,   \* phones; nothing; what a half-written tag says
          MaxTokens,            \* bound: tokens drawn
          MaxFaults,            \* bound: failed writes, saves and erasures, power cuts
          MaxForgets,           \* bound: "forget phones" requests
          MaxTaps               \* bound: times a phone enters the field

ASSUME PairingConstants == /\ MaxTokens \in Nat \ {0}
                           /\ MaxFaults \in Nat /\ MaxForgets \in Nat /\ MaxTaps \in Nat
                           /\ None \notin Phones /\ Torn \notin Phones

VARIABLES
  nfc,     \* field: phone in it, edge pending, flag of chip and service, event
  tag,     \* the record on the tag (kept without power)
  boot,    \* PairingBootstrap
  pub,     \* EnrollmentPublisher
  task,    \* what the session task is in the middle of
  link,    \* BleLink: the connected phone, the pairing window
  bonds,   \* bonded phones
  flash,   \* NVS: stored identity, whose the sync record is; and the phones whose
           \* identity is lost though nobody forgot them (history)
  owner,   \* stored_companion_id in RAM
  authd,   \* phone authorized on the current session
  hello,   \* received HELLO; ack: the answer under way
  ack,
  phone,   \* phone side: connection and the handed-off record
  enrolled,\* phones whose enrolled flag is set
  drawn,   \* tokens drawn so far; uses: times each was accepted (history)
  uses,
  faults, forgets, taps

pairingVars == <<nfc, tag, boot, pub, task, link, bonds, flash, owner, authd,
          hello, ack, phone, enrolled, drawn, uses, faults, forgets, taps>>
radio == <<link, bonds, hello, ack, phone, enrolled>>
enroll == <<boot, pub, tag, task, drawn>>
saved == <<flash, owner, authd, uses>>
bounds == <<faults, forgets, taps>>

Tokens == 1..MaxTokens
Record == [gen : 0..MaxTokens, tok : Tokens \cup {Torn}]
Idle == [st |-> "idle", gen |-> 0, tok |-> 0, due |-> FALSE]
Unpublished == [gen |-> 0, retry |-> FALSE, due |-> FALSE]
Unlinked == [peer |-> None, req |-> FALSE]
Nothing == [id |-> None, sync |-> None, lost |-> {}]

PairingInit ==
  /\ nfc = [in |-> None, edge |-> FALSE, chip |-> FALSE, svc |-> FALSE, rising |-> FALSE]
  /\ tag = None /\ boot = Idle /\ pub = Unpublished /\ task = "loop"
  /\ link = Unlinked /\ bonds = {}
  /\ flash = Nothing /\ owner = None /\ authd = None
  /\ hello = None /\ ack = None
  /\ phone = [p \in Phones |-> [st |-> "off", hand |-> None]] /\ enrolled = {}
  /\ drawn = 0 /\ uses = [t \in Tokens |-> 0] /\ faults = 0 /\ forgets = 0 /\ taps = 0

PairingTypes ==
  /\ nfc \in [in : Phones \cup {None}, edge : BOOLEAN, chip : BOOLEAN,
              svc : BOOLEAN, rising : BOOLEAN]
  /\ tag \in Record \cup {None, Torn}
  /\ boot \in [st : {"idle", "prepared", "open", "expired", "consumed"},
               gen : 0..MaxTokens, tok : 0..MaxTokens, due : BOOLEAN]
  /\ pub \in [gen : 0..MaxTokens, retry : BOOLEAN, due : BOOLEAN]
  /\ task \in {"loop", "write", "bonds", "sync"}
  /\ link \in [peer : Phones \cup {None}, req : BOOLEAN]
  /\ bonds \subseteq Phones /\ enrolled \subseteq Phones
  /\ flash \in [id : Phones \cup {None}, sync : Phones \cup {None}, lost : SUBSET Phones]
  /\ owner \in Phones \cup {None} /\ authd \in Phones \cup {None}
  /\ uses \in [Tokens -> Nat] /\ drawn \in 0..MaxTokens

-----------------------------------------------------------------------------
(* The RF field.  A phone enters, leaves and reads the tag by itself; the   *)
(* pin interrupt wakes the field task, which debounces, samples and tells   *)
(* NfcService of a change.  The end of an I2C transfer samples the pin too, *)
(* without telling anybody.                                                 *)

Enter(p) == /\ nfc.in = None /\ taps < MaxTaps /\ taps' = taps + 1
            /\ nfc' = [nfc EXCEPT !.in = p, !.edge = TRUE]
            /\ UNCHANGED <<enroll, radio, saved, faults, forgets>>

Leave == /\ nfc.in # None
         /\ nfc' = [nfc EXCEPT !.in = None, !.edge = TRUE]
         /\ UNCHANGED <<enroll, radio, saved, bounds>>

OnFieldChanged(n, present) ==
  [n EXCEPT !.chip = present, !.svc = present,
            !.rising = @ \/ (present /\ ~n.svc)]

FieldTask ==
  LET present == nfc.in # None
      seen == [nfc EXCEPT !.edge = FALSE]
  IN /\ nfc.edge
     /\ nfc' = IF present = nfc.chip THEN seen ELSE OnFieldChanged(seen, present)
     /\ UNCHANGED <<enroll, radio, saved, bounds>>

EndTransfer == [nfc EXCEPT !.chip = nfc.in # None]

\* setEnrollmentProof: the tap replaces an earlier one and ends the session.
Offer(p, record) ==
  phone' = [phone EXCEPT ![p] = [st |-> "off", hand |-> record]]

ReadTag(p) ==
  /\ nfc.in = p /\ tag # None
  /\ IF tag = Torn THEN Offer(p, [gen |-> 0, tok |-> Torn]) ELSE Offer(p, tag)
  /\ UNCHANGED <<nfc, enroll, link, bonds, hello, ack, enrolled, saved, bounds>>

-----------------------------------------------------------------------------
(* PairingBootstrap and the publisher, on the session task.                 *)

Live == boot.st \in {"prepared", "open"} /\ ~boot.due
\* Material and the other operations expire the token when they meet it.
Expired(b) == [b EXCEPT !.st = "expired", !.tok = 0]

\* A write takes milliseconds and a token lives two minutes.
TokenExpires == /\ boot.st \in {"prepared", "open"} /\ ~boot.due /\ task # "write"
                /\ boot' = [boot EXCEPT !.due = TRUE]
                /\ UNCHANGED <<nfc, pub, tag, task, drawn, radio, saved, bounds>>

RetryComes == /\ pub.retry /\ ~pub.due
              /\ pub' = [pub EXCEPT !.due = TRUE]
              /\ UNCHANGED <<nfc, boot, tag, task, drawn, radio, saved, bounds>>

\* Refresh has nothing to do: the field, a retry to come, or live material.
Published == pub.gen # 0 /\ pub.gen = boot.gen /\ Live

RefreshBegins ==
  /\ task = "loop" /\ ~nfc.rising /\ ~nfc.svc /\ (pub.retry => pub.due) /\ ~Published
  /\ drawn < MaxTokens
  /\ drawn' = drawn + 1
  /\ boot' = [st |-> "prepared", gen |-> boot.gen + 1, tok |-> drawn + 1, due |-> FALSE]
  /\ pub' = [pub EXCEPT !.gen = 0]
  /\ task' = "write"
  /\ tag' \in {tag, Torn}
  /\ UNCHANGED <<nfc, radio, saved, bounds>>

\* PrepareEnrollmentNdef: the record made from the material.
Written == [gen |-> boot.gen, tok |-> boot.tok]

Publishes == [gen |-> boot.gen, retry |-> FALSE, due |-> FALSE]

RefreshEnds ==
  /\ task = "write" /\ task' = "loop"
  /\ nfc' = EndTransfer
  /\ tag' = Written
  /\ pub' = Publishes
  /\ UNCHANGED <<boot, drawn, radio, saved, bounds>>

\* A failed write: the half-written record must not open a window.
Unwritten == <<Idle, [gen |-> 0, retry |-> TRUE, due |-> FALSE]>>

RefreshFails ==
  /\ task = "write" /\ task' = "loop" /\ faults < MaxFaults
  /\ nfc' = EndTransfer
  /\ boot' = Unwritten[1] /\ pub' = Unwritten[2]
  /\ faults' = faults + 1
  /\ UNCHANGED <<tag, drawn, radio, saved, forgets, taps>>

\* BleLink::Start: the pairing window of the link, if nothing holds it.
StartPairing(l) == IF l.peer # None THEN l ELSE [l EXCEPT !.req = TRUE]

\* PollNfcFieldAndOpenPairing: only material known to be on the tag opens.
PollField ==
  /\ task = "loop" /\ nfc.rising
  /\ nfc' = [nfc EXCEPT !.rising = FALSE]
  /\ IF pub.gen = 0 \/ pub.gen # boot.gen \/ boot.st \notin {"prepared", "open"}
     THEN UNCHANGED <<boot, link>>
     ELSE IF boot.due THEN boot' = Expired(boot) /\ UNCHANGED link
     ELSE boot' = [boot EXCEPT !.st = "open"] /\ link' = StartPairing(link)
  /\ UNCHANGED <<tag, pub, task, drawn, bonds, hello, ack, phone,
                 enrolled, saved, bounds>>

-----------------------------------------------------------------------------
(* The link: admission and bonding.  It advertises whenever it has no peer. *)

LocalPairing == /\ link # StartPairing(link)
                /\ link' = StartPairing(link)
                /\ UNCHANGED <<nfc, enroll, bonds, hello, ack, phone,
                               enrolled, saved, bounds>>

WindowCloses == /\ link.req
                /\ link' = [link EXCEPT !.req = FALSE]
                /\ UNCHANGED <<nfc, enroll, bonds, hello, ack, phone,
                               enrolled, saved, bounds>>

\* Outside the window a stranger is dropped as soon as it connects; inside it
\* a new bond is made by passkey.  GATT setup done, the phone sends its HELLO:
\* take puts the handed-off record into one HELLO, and it is gone.
Connect(p) ==
  /\ phone[p].st = "off" /\ link.peer = None /\ (link.req \/ p \in bonds)
  /\ link' = [peer |-> p, req |-> FALSE]
  /\ bonds' = bonds \cup {p}
  /\ hello' = [from |-> p, proof |-> phone[p].hand]
  /\ phone' = [phone EXCEPT ![p] = [st |-> "wait", hand |-> None]]
  /\ UNCHANGED <<nfc, enroll, ack, enrolled, saved, bounds>>

\* A record that is too old ends the attempt instead; it is gone as well.
HandoffExpires(p) ==
  /\ phone[p].hand # None /\ (boot.tok # phone[p].hand.tok \/ boot.due)
  /\ phone' = [phone EXCEPT ![p].hand = None]
  /\ UNCHANGED <<nfc, enroll, link, bonds, hello, ack, enrolled, saved, bounds>>

\* The session ends: authorization, what was queued and the answer end with it.
Disconnect == /\ link.peer # None
              /\ link' = Unlinked /\ hello' = None /\ authd' = None /\ ack' = None
              /\ phone' = [phone EXCEPT ![link.peer].st = "off"]
              /\ UNCHANGED <<nfc, enroll, bonds, enrolled, flash, owner, uses, bounds>>

-----------------------------------------------------------------------------
(* HELLO and its answer.                                                    *)

\* ValidateEnrollmentProof: the accepted token is spent before the save.
Valid(m) == boot.st = "open" /\ ~boot.due /\ m.gen = boot.gen /\ m.tok = boot.tok
SpentWhenKept(b, kept) == IF kept THEN [b EXCEPT !.st = "consumed", !.tok = 0] ELSE b
Spent(b, kept) == [b EXCEPT !.st = "consumed", !.tok = 0]

\* StorageService: an operation, then its commit.  It is done; or it answers an
\* error, and nothing was written; or an error, and all of it was.
Outcomes == {"done", "failed", "landed"}

\* What PersistCompanionIdentity leaves in NVS and in RAM, and what HELLO answers.
Stores(p, outcome) == IF outcome = "failed" THEN flash.id ELSE p
Saves(p, outcome) == IF outcome = "done" THEN p ELSE owner
Accepts(outcome) == outcome = "done"

\* sync_session.Start may refuse the cursors of an authorized phone.
Authorize(p, ok, id) ==
  \E started \in BOOLEAN :
    /\ authd' = IF ok /\ started THEN p ELSE None
    /\ ack' = (ok /\ started)
    /\ flash' = [flash EXCEPT !.id = id, !.sync = IF ok /\ started THEN p ELSE @]

ProofHello(p, m) ==
  IF owner \notin {None, p}
    THEN UNCHANGED <<owner, boot, uses, faults>> /\ Authorize(p, FALSE, flash.id)
  ELSE IF ~Valid(m)
    THEN /\ boot' = IF boot.st = "open" /\ boot.due THEN Expired(boot) ELSE boot
         /\ UNCHANGED <<owner, uses, faults>>
         /\ Authorize(p, FALSE, flash.id)
  ELSE \E outcome \in Outcomes :
         /\ outcome = "done" \/ faults < MaxFaults
         /\ faults' = IF outcome = "done" THEN faults ELSE faults + 1
         /\ uses' = [uses EXCEPT ![m.tok] = @ + 1]
         /\ boot' = Spent(boot, outcome = "done")
         /\ owner' = Saves(p, outcome)
         /\ Authorize(p, Accepts(outcome), Stores(p, outcome))

Hello ==
  /\ task = "loop" /\ hello # None /\ link.peer = hello.from
  /\ hello' = None
  /\ IF hello.proof # None THEN ProofHello(hello.from, hello.proof)
     ELSE /\ UNCHANGED <<owner, boot, uses, faults>>
          /\ Authorize(hello.from, owner = hello.from, flash.id)
  /\ UNCHANGED <<nfc, tag, pub, task, drawn, link, bonds, phone,
                 enrolled, forgets, taps>>

\* acceptHelloAck: a refusal also withdraws the enrolled flag.
HelloAck(p) ==
  /\ phone[p].st = "wait" /\ link.peer = p /\ ack # None
  /\ ack' = None
  /\ enrolled' = IF ack THEN enrolled \cup {p} ELSE enrolled \ {p}
  /\ phone' = [phone EXCEPT ![p].st = IF ack THEN "up" ELSE "off"]
  /\ UNCHANGED <<nfc, enroll, link, bonds, hello, saved, bounds>>

-----------------------------------------------------------------------------
(* ClearPeerBonds, carried out by the session task: bonds, then the sync    *)
(* record, then the identity.  A failing step ends it.                      *)

ForgetBegins ==
  /\ task = "loop" /\ forgets < MaxForgets /\ link.peer = None
  /\ forgets' = forgets + 1
  /\ bonds' = {} /\ authd' = None /\ task' = "bonds"
  /\ UNCHANGED <<nfc, boot, pub, tag, drawn, link, hello, ack, phone,
                 enrolled, flash, owner, uses, faults, taps>>

\* The two erasures, in their order.
EraseFirst(f) == [f EXCEPT !.sync = None]
EraseSecond(f) == [f EXCEPT !.id = None, !.lost = @ \cup ({f.id} \ {None})]

ForgetState ==
  /\ task = "bonds" /\ task' = "sync"
  /\ flash' = EraseFirst(flash)
  /\ UNCHANGED <<nfc, boot, pub, tag, drawn, radio, owner, authd, uses, bounds>>

\* Either the identity goes too; or an erasure answered an error, or the engine
\* did not start over, and what is trusted stays.  bootstrap.Cancel both ways.
ForgetEnds ==
  /\ \/ /\ task = "sync"
        /\ flash' = Nothing /\ owner' = None /\ UNCHANGED faults
     \/ /\ task \in {"bonds", "sync"} /\ faults < MaxFaults
        /\ faults' = faults + 1 /\ UNCHANGED owner
        /\ flash' \in {flash, IF task = "bonds" THEN EraseFirst(flash) ELSE EraseSecond(flash)}
  /\ task' = "loop" /\ boot' = Idle /\ pub' = Unpublished
  /\ UNCHANGED <<nfc, tag, drawn, radio, authd, uses, forgets, taps>>

\* LoadCompanionIdentity: an identity that cannot be read counts as none.
Load(read) == IF read THEN flash.id ELSE None
Unread(f) == [f EXCEPT !.lost = @ \cup ({f.id} \ {None})]

\* Power fails: RAM is gone, the tag, NVS and the phones' memory stay.
PowerCut ==
  /\ faults < MaxFaults /\ faults' = faults + 1
  /\ nfc' = [nfc EXCEPT !.edge = FALSE, !.chip = nfc.in # None,
                        !.svc = nfc.in # None, !.rising = FALSE]
  /\ boot' = Idle /\ pub' = Unpublished /\ task' = "loop" /\ link' = Unlinked
  /\ \E read \in BOOLEAN :
       owner' = Load(read) /\ flash' = IF read THEN flash ELSE Unread(flash)
  /\ authd' = None /\ hello' = None /\ ack' = None
  /\ phone' = [p \in Phones |-> [phone[p] EXCEPT !.st = "off"]]
  /\ UNCHANGED <<tag, drawn, bonds, enrolled, uses, forgets, taps>>

-----------------------------------------------------------------------------
SessionTask == RefreshBegins \/ RefreshEnds \/ RefreshFails \/ PollField
               \/ Hello \/ ForgetBegins \/ ForgetState \/ ForgetEnds

Phone(p) == Enter(p) \/ ReadTag(p) \/ Connect(p) \/ HandoffExpires(p) \/ HelloAck(p)

PairingNext == \/ SessionTask \/ FieldTask \/ Leave \/ TokenExpires \/ RetryComes
        \/ LocalPairing \/ WindowCloses \/ Disconnect \/ PowerCut
        \/ \E p \in Phones : Phone(p)

PairingSpec == PairingInit /\ [][PairingNext]_pairingVars

TaskGoesOn == PollField \/ RefreshBegins \/ RefreshEnds \/ ForgetState \/ ForgetEnds

\* The session task and the field task run, a write ends, a retry comes due.
Fairness == WF_pairingVars(FieldTask) /\ WF_pairingVars(TaskGoesOn) /\ WF_pairingVars(RetryComes)

FairSpec == PairingSpec /\ Fairness

-----------------------------------------------------------------------------
(* Properties.                                                              *)

\* A window is open only for what the tag says: "An old or partially written
\* tag must never open a window for new material" (EnrollmentPublisher.Refresh).
WindowMatchesTag ==
  boot.st = "open" => tag = Written

\* A token enrolls at most once, even when the save of the identity failed and
\* the phone tries again (ValidateAndPersistEnrollmentProof).
TokenOnce == \A t \in Tokens : uses[t] <= 1

\* An enrolled phone is the one whose identity the device has saved, unless the
\* owner had the device forget it or the store lost it: no answer promises what
\* was not written.
AckMeansSaved ==
  forgets = 0 /\ flash.lost = {} => \A p \in enrolled : flash.id = p /\ owner = p

\* The authorized phone is the trusted and the saved one, and the sync record is
\* that phone's or nobody's, through failing saves and erasures and power cuts;
\* another's only if the store took that phone's identity away and said it had
\* not, or did not read it at the start.
NoStrangersState ==
  /\ authd # None =>
       owner = authd /\ link.peer = authd /\ (flash.id = authd \/ authd \in flash.lost)
  /\ flash.sync # None => flash.sync = owner \/ flash.sync \in flash.lost

\* A window is open for what the tag says only, a token enrolls once, and a phone that
\* counts as enrolled was saved by a Note4 that had forgotten the one before.
EnrollmentSound == WindowMatchesTag /\ TokenOnce /\ AckMeansSaved /\ NoStrangersState

\* note4_connectivity_service.cc:268, "Forget durable state before allowing a
\* different identity": a phone is trusted over its own record only.  It does not
\* hold: an erasure of the identity that landed and answered an error, or one
\* unread identity, and the next start takes anybody over the old record.
ForgetsBeforeAllowing ==
  owner # None /\ flash.sync # None => flash.sync = owner

\* A tag out of the field always says a live token again: after use, expiry,
\* failed writes, forgetting and restarts a tap can enroll (EnrollmentPublisher).
TagIsReady == \/ Live /\ pub.gen = boot.gen /\ tag = Written
              \/ nfc.svc \/ drawn = MaxTokens
TagReady == []<>TagIsReady

\* "Publishes fresh material after expiry or consumption, outside the RF field"
\* (note4_enrollment_publisher.h): no write begins while the chip's driver knows
\* of a field and its field task has nothing left to report.
PublishesOutsideField ==
  [][(task # "write" /\ task' = "write") => ~(nfc.chip /\ ~nfc.edge)]_pairingVars

=============================================================================
