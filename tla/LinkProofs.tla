----------------------------- MODULE LinkProofs -----------------------------
(***************************************************************************)
(* The two ways to the Note4.                                              *)
(*                                                                         *)
(* Enrollment is sound, for any phones and any number of tokens, taps,     *)
(* failed writes, failed saves, power cuts and requests to forget.  The    *)
(* four parts of EnrollmentSound are not inductive.  A window matches      *)
(* the tag because only a published token opens one (TagInv); a token is   *)
(* used once because the device never keeps a used one (TokenInv); an      *)
(* answer says what was saved because the identity in RAM is the one in    *)
(* NVS unless an erasure took that away and said it had not, and only the  *)
(* connected phone is authorized (IdentityInv); and until something is     *)
(* forgotten or lost an identity is never replaced (EnrolledInv).          *)
(*                                                                         *)
(* The console tells the truth, for any commands, patience, deadline and   *)
(* number of requests.  What was told of a request may be believed because *)
(* the executor waits for the latest request or for none, and nothing was  *)
(* changed of one that was not executed (HistoryInv); a line is of one     *)
(* connection because the cable's end stays latched until the session is   *)
(* reset (LineInv); and a change is confirmed because a prompt that still  *)
(* counts is the one shown last (PromptInv).                               *)
(***************************************************************************)
EXTENDS MCLink, SequenceTheorems, TLAPS

-----------------------------------------------------------------------------
(* Enrollment.                                                             *)

\* The types of the field, of what is enrolled with, of the link and the phones,
\* of what is saved, and of the counters.
NfcTypes ==
    nfc \in [in : Phones \cup {None}, edge : BOOLEAN, chip : BOOLEAN,
             svc : BOOLEAN, rising : BOOLEAN]
EnrollTypes ==
    /\ tag \in Record \cup {None, Torn}
    /\ boot \in [st : {"idle", "prepared", "open", "expired", "consumed"},
                 gen : 0..MaxTokens, tok : 0..MaxTokens, due : BOOLEAN]
    /\ pub \in [gen : 0..MaxTokens, retry : BOOLEAN, due : BOOLEAN]
    /\ task \in {"loop", "write", "bonds", "sync"}
    /\ drawn \in 0..MaxTokens
RadioTypes ==
    /\ link \in [peer : Phones \cup {None}, req : BOOLEAN]
    /\ bonds \subseteq Phones /\ enrolled \subseteq Phones
    /\ hello # None => hello \in [from : Phones, proof : Record \cup {None}]
    /\ ack # None => ack \in BOOLEAN
    /\ phone \in [Phones -> [st : {"off", "wait", "up"}, hand : Record \cup {None}]]
Memories == [id : Phones \cup {None}, sync : Phones \cup {None}, lost : SUBSET Phones]
SavedTypes ==
    /\ flash \in Memories
    /\ owner \in Phones \cup {None} /\ authd \in Phones \cup {None}
    /\ uses \in [Tokens -> Nat]
CountTypes == faults \in Nat /\ forgets \in Nat /\ taps \in Nat

\* A published generation, as long as it is live, is the one on the tag.
Fresh == boot.st \in {"prepared", "open"}
TagInv ==
    /\ task = "write" => boot.st = "prepared" /\ pub.gen = 0
    /\ boot.st = "open" => pub.gen = boot.gen /\ pub.gen # 0
    /\ Fresh /\ pub.gen # 0 /\ pub.gen = boot.gen => tag = Written

\* The token the device keeps was never used, nor were those not drawn yet.
TokenInv ==
    /\ boot.gen <= drawn
    /\ boot.tok # 0 => boot.tok <= drawn /\ uses[boot.tok] = 0
    /\ \A t \in Tokens : uses[t] <= 1 /\ (t > drawn => uses[t] = 0)
    /\ Fresh => boot.tok # 0 /\ boot.gen # 0

\* The identity in RAM is saved, or was lost since; the sync record is that
\* phone's, or one's whose identity was lost; who is authorized or promised so is
\* connected and trusted.
IdentityInv ==
    /\ owner # None => flash.id = owner \/ (flash.id = None /\ owner \in flash.lost)
    /\ flash.sync # None => flash.sync = owner \/ flash.sync \in flash.lost
    /\ authd # None => owner = authd /\ link.peer = authd
    /\ ack # None /\ ack => authd # None
    /\ link.peer = None => ack = None /\ hello = None
    /\ task \in {"bonds", "sync"} => authd = None /\ forgets # 0

EnrolledInv == forgets = 0 /\ flash.lost = {} => \A p \in enrolled : owner = p

IInv ==
    /\ NfcTypes /\ EnrollTypes /\ RadioTypes /\ SavedTypes /\ CountTypes
    /\ TagInv /\ TokenInv /\ IdentityInv /\ EnrolledInv

-----------------------------------------------------------------------------
\* NVS with that identity and that sync record.
Kept(id, sync) ==
    flash' \in Memories
    /\ flash'.id = id /\ flash'.sync = sync /\ flash'.lost = flash.lost

\* What a HELLO can change: the identity once, from nobody to its sender, in NVS
\* and then in RAM; the answer says so, and promises nothing else; the token it
\* names is spent.
LEMMA HelloFacts ==
    ASSUME IInv, Hello
    PROVE  \E p \in Phones :
             /\ link.peer = p /\ hello # None /\ hello' = None /\ task = "loop"
             /\ \E id \in {flash.id, p} :
                  /\ \/ id = flash.id /\ owner' = owner
                     \/ id = p /\ owner \in {None, p} /\ owner' \in {owner, p}
                  /\ \/ authd' = p /\ ack' = TRUE /\ owner' = p /\ Kept(id, p)
                     \/ authd' = None /\ ack' = FALSE /\ Kept(id, flash.sync)
             /\ \/ boot' = boot /\ uses' = uses
                \/ boot' = Expired(boot) /\ uses' = uses
                \/ /\ Valid(hello.proof)
                   /\ boot' = [boot EXCEPT !.st = "consumed", !.tok = 0]
                   /\ uses' = [uses EXCEPT ![boot.tok] = @ + 1]
             /\ faults' \in Nat
             /\ UNCHANGED <<nfc, tag, pub, task, drawn, link, bonds, phone, enrolled, forgets,
                            taps>>
<1> DEFINE p == hello.from
           m == hello.proof
           Told(id) == \/ authd' = p /\ ack' = TRUE /\ owner' = p /\ Kept(id, p)
                       \/ authd' = None /\ ack' = FALSE /\ Kept(id, flash.sync)
<1>1. /\ p \in Phones /\ link.peer = p /\ hello # None /\ hello' = None /\ task = "loop"
      /\ UNCHANGED <<nfc, tag, pub, task, drawn, link, bonds, phone, enrolled, forgets, taps>>
    BY DEF Hello, IInv, RadioTypes
<1>2. ASSUME NEW ok \in BOOLEAN, ok => owner' = p, NEW id \in {flash.id, p},
             Authorize(p, ok, id)
      PROVE  Told(id)
    <2>1. PICK started \in BOOLEAN :
            /\ authd' = IF ok /\ started THEN p ELSE None
            /\ ack' = (ok /\ started)
            /\ flash' = [flash EXCEPT !.id = id, !.sync = IF ok /\ started THEN p ELSE @]
        BY <1>2 DEF Authorize
    <2>2. \A i \in Phones \cup {None}, s \in Phones \cup {None} :
            flash' = [flash EXCEPT !.id = i, !.sync = s] => Kept(i, s)
        BY DEF IInv, SavedTypes, Memories, Kept
    <2>3. id \in Phones \cup {None} /\ flash.sync \in Phones \cup {None}
        BY <1>1 DEF IInv, SavedTypes, Memories
    <2>4. CASE ok /\ started
        BY <1>1, <1>2, <2>1, <2>2, <2>3, <2>4
    <2>5. CASE ~(ok /\ started)
        BY <2>1, <2>2, <2>3, <2>5
    <2> QED
        BY <2>4, <2>5
<1>3. CASE hello.proof = None
    <2>1. UNCHANGED <<owner, boot, uses, faults>> /\ Authorize(p, owner = p, flash.id)
        BY <1>3 DEF Hello
    <2>2. Told(flash.id)
        BY <1>2, <2>1
    <2> QED
        BY <1>1, <2>1, <2>2 DEF IInv, CountTypes
<1>4. CASE hello.proof # None
    <2>0. ProofHello(p, m)
        BY <1>4 DEF Hello
    <2>1. CASE owner \notin {None, p}
        <3>1. UNCHANGED <<owner, boot, uses, faults>> /\ Authorize(p, FALSE, flash.id)
            BY <2>0, <2>1 DEF ProofHello
        <3>2. Told(flash.id)
            BY <1>2, <3>1
        <3> QED
            BY <1>1, <3>1, <3>2 DEF IInv, CountTypes
    <2>2. CASE owner \in {None, p} /\ ~Valid(m)
        <3>1. /\ boot' = boot \/ boot' = Expired(boot)
              /\ UNCHANGED <<owner, uses, faults>> /\ Authorize(p, FALSE, flash.id)
            BY <2>0, <2>2 DEF ProofHello
        <3>2. Told(flash.id)
            BY <1>2, <3>1
        <3> QED
            BY <1>1, <3>1, <3>2 DEF IInv, CountTypes
    <2>3. CASE owner \in {None, p} /\ Valid(m)
        <3>1. PICK outcome \in Outcomes :
                /\ faults' = IF outcome = "done" THEN faults ELSE faults + 1
                /\ uses' = [uses EXCEPT ![m.tok] = @ + 1]
                /\ boot' = Spent(boot, outcome = "done")
                /\ owner' = Saves(p, outcome)
                /\ Authorize(p, Accepts(outcome), Stores(p, outcome))
            BY <2>0, <2>3 DEF ProofHello
        <3> DEFINE id == Stores(p, outcome)
        <3>2. Accepts(outcome) \in BOOLEAN /\ (Accepts(outcome) => owner' = p)
              /\ id \in {flash.id, p}
              /\ \/ id = flash.id /\ owner' = owner
                 \/ id = p /\ owner' \in {owner, p}
            BY <3>1 DEF Accepts, Saves, Stores, Outcomes
        <3>3. m.tok = boot.tok /\ faults' \in Nat
              /\ boot' = [boot EXCEPT !.st = "consumed", !.tok = 0]
            BY <2>3, <3>1 DEF Valid, Spent, IInv, CountTypes
        <3>4. Told(id)
            BY <1>2, <3>1, <3>2
        <3> HIDE DEF id
        <3> QED
            BY <1>1, <2>3, <3>1, <3>2, <3>3, <3>4
    <2> QED
        BY <2>1, <2>2, <2>3
<1> QED
    BY <1>3, <1>4

\* A tap opens only what is published and lives.
LEMMA PollFacts ==
    ASSUME IInv, PollField
    PROVE  \/ boot' = boot
           \/ boot' = Expired(boot)
           \/ /\ boot' = [boot EXCEPT !.st = "open"]
              /\ Fresh /\ pub.gen # 0 /\ pub.gen = boot.gen
BY DEF PollField, Fresh

\* The states of the bootstrap a tap or a HELLO leaves behind.
Boots == [st : {"idle", "prepared", "open", "expired", "consumed"},
          gen : 0..MaxTokens, tok : 0..MaxTokens, due : BOOLEAN]

LEMMA BootFacts ==
    ASSUME boot \in Boots
    PROVE  /\ Expired(boot) \in Boots
           /\ [boot EXCEPT !.st = "open"] \in Boots
           /\ [boot EXCEPT !.st = "consumed", !.tok = 0] \in Boots
<1>1. 0 \in 0..MaxTokens
    BY PairingConstants
<1> QED
    BY <1>1 DEF Boots, Expired

\* The field.
LEMMA NfcTypesStay ==
    ASSUME IInv, [PairingNext]_pairingVars
    PROVE  NfcTypes'
<1>1. CASE UNCHANGED <<nfc>>
    BY <1>1 DEF IInv, NfcTypes
<1>2. ASSUME NEW p \in Phones, Enter(p)
      PROVE  NfcTypes'
    BY <1>2, PairingConstants DEF IInv, NfcTypes, Enter, enroll, radio, saved, bounds
<1>3. CASE Leave
    BY <1>3, PairingConstants DEF IInv, NfcTypes, Leave, enroll, radio, saved, bounds
<1>4. CASE FieldTask
    BY <1>4, PairingConstants DEF IInv, NfcTypes, FieldTask, OnFieldChanged, enroll, radio,
       saved, bounds
<1>5. CASE RefreshEnds
    BY <1>5, PairingConstants DEF IInv, NfcTypes, RefreshEnds, EndTransfer, Written,
       Publishes, enroll, radio, saved, bounds
<1>6. CASE RefreshFails
    BY <1>6, PairingConstants DEF IInv, NfcTypes, RefreshFails, EndTransfer, Unwritten,
       Idle, enroll, radio, saved, bounds
<1>7. CASE PollField
    BY <1>7, PairingConstants DEF IInv, NfcTypes, PollField, Expired, StartPairing, enroll,
       radio, saved, bounds
<1>8. CASE PowerCut
    BY <1>8, PairingConstants DEF IInv, NfcTypes, PowerCut, Idle, Unpublished, Unlinked,
       enroll, radio, saved, bounds
<1>9. CASE
        TokenExpires \/ RetryComes \/ RefreshBegins \/ LocalPairing \/ WindowCloses \/
           Disconnect \/ Hello \/ ForgetBegins \/ ForgetState \/ ForgetEnds \/ UNCHANGED
           pairingVars
    BY <1>1, <1>9 DEF TokenExpires, RetryComes, RefreshBegins, LocalPairing, WindowCloses,
       Disconnect, Hello, ForgetBegins, ForgetState, ForgetEnds, enroll, radio, saved,
       bounds, pairingVars
<1>10. ASSUME NEW p \in Phones,
            ReadTag(p) \/ Connect(p) \/ HandoffExpires(p) \/ HelloAck(p)
      PROVE  NfcTypes'
    BY <1>1, <1>10 DEF ReadTag, Connect, HandoffExpires, HelloAck, enroll, radio, saved,
       bounds
<1> QED
    BY <1>2, <1>3, <1>4, <1>5, <1>6, <1>7, <1>8, <1>9, <1>10 DEF PairingNext, SessionTask, Phone

\* The token, its publication and the tag.
LEMMA EnrollTypesStay ==
    ASSUME IInv, [PairingNext]_pairingVars
    PROVE  EnrollTypes'
<1>1. CASE UNCHANGED <<tag, boot, pub, task, drawn>>
    BY <1>1 DEF IInv, EnrollTypes
<1>2. CASE TokenExpires
    BY <1>2, PairingConstants DEF IInv, EnrollTypes, TokenExpires, enroll, radio, saved,
       bounds
<1>3. CASE RetryComes
    BY <1>3, PairingConstants DEF IInv, EnrollTypes, RetryComes, enroll, radio, saved,
       bounds
<1>4. CASE RefreshBegins
    BY <1>4, PairingConstants DEF IInv, EnrollTypes, TokenInv, RefreshBegins, enroll, radio,
       saved, bounds
<1>5. CASE RefreshEnds
    BY <1>5, PairingConstants DEF IInv, EnrollTypes, Record, Tokens, TagInv, TokenInv,
       Fresh, RefreshEnds, EndTransfer, Written, Publishes, enroll, radio, saved, bounds
<1>6. CASE RefreshFails
    BY <1>6, PairingConstants DEF IInv, EnrollTypes, RefreshFails, EndTransfer, Unwritten,
       Idle, enroll, radio, saved, bounds
<1>7. CASE PollField
    <2>1. UNCHANGED <<tag, pub, task, drawn>>
        BY <1>7 DEF PollField
    <2> QED
        BY <1>7, <2>1, PollFacts, BootFacts DEF IInv, EnrollTypes, Boots
<1>8. CASE Hello
    <2>1. /\ UNCHANGED <<tag, pub, task, drawn>>
          /\ \/ boot' = boot
             \/ boot' = Expired(boot)
             \/ boot' = [boot EXCEPT !.st = "consumed", !.tok = 0]
        BY <1>8, HelloFacts
    <2> QED
        BY <2>1, BootFacts DEF IInv, EnrollTypes, Boots
<1>9. CASE ForgetBegins
    BY <1>9, PairingConstants DEF IInv, EnrollTypes, ForgetBegins, enroll, radio, saved,
       bounds
<1>10. CASE ForgetState
    BY <1>10, PairingConstants DEF IInv, EnrollTypes, ForgetState, EraseFirst, enroll,
       radio, saved, bounds
<1>11. CASE ForgetEnds
    BY <1>11, PairingConstants DEF IInv, EnrollTypes, ForgetEnds, Idle, Unpublished, enroll,
       radio, saved, bounds
<1>12. CASE PowerCut
    BY <1>12, PairingConstants DEF IInv, EnrollTypes, PowerCut, Idle, Unpublished, Unlinked,
       enroll, radio, saved, bounds
<1>13. CASE
        Leave \/ FieldTask \/ LocalPairing \/ WindowCloses \/ Disconnect \/ UNCHANGED pairingVars
    BY <1>1, <1>13 DEF Leave, FieldTask, LocalPairing, WindowCloses, Disconnect, enroll,
       radio, saved, bounds, pairingVars
<1>14. ASSUME NEW p \in Phones,
            Enter(p) \/ ReadTag(p) \/ Connect(p) \/ HandoffExpires(p) \/ HelloAck(p)
      PROVE  EnrollTypes'
    BY <1>1, <1>14 DEF Enter, ReadTag, Connect, HandoffExpires, HelloAck, enroll, radio,
       saved, bounds
<1> QED
    BY <1>2, <1>3, <1>4, <1>5, <1>6, <1>7, <1>8, <1>9, <1>10, <1>11, <1>12, <1>13, <1>14 DEF
       PairingNext, SessionTask, Phone

\* The link and the phones.
LEMMA RadioTypesStay ==
    ASSUME IInv, [PairingNext]_pairingVars
    PROVE  RadioTypes'
<1>1. CASE UNCHANGED <<link, bonds, enrolled, hello, ack, phone>>
    BY <1>1 DEF IInv, RadioTypes
<1>2. ASSUME NEW p \in Phones, ReadTag(p)
      PROVE  RadioTypes'
    BY <1>2, PairingConstants DEF IInv, RadioTypes, EnrollTypes, Record, ReadTag, Offer,
       enroll, radio, saved, bounds
<1>3. ASSUME NEW p \in Phones, Connect(p)
      PROVE  RadioTypes'
    BY <1>3, PairingConstants DEF IInv, RadioTypes, Connect, enroll, radio, saved, bounds
<1>4. ASSUME NEW p \in Phones, HandoffExpires(p)
      PROVE  RadioTypes'
    BY <1>4, PairingConstants DEF IInv, RadioTypes, HandoffExpires, enroll, radio, saved,
       bounds
<1>5. ASSUME NEW p \in Phones, HelloAck(p)
      PROVE  RadioTypes'
    BY <1>5, PairingConstants DEF IInv, RadioTypes, HelloAck, enroll, radio, saved, bounds
<1>6. CASE PollField
    BY <1>6, PairingConstants DEF IInv, RadioTypes, PollField, Expired, StartPairing,
       enroll, radio, saved, bounds
<1>7. CASE LocalPairing
    BY <1>7, PairingConstants DEF IInv, RadioTypes, LocalPairing, StartPairing, enroll,
       radio, saved, bounds
<1>8. CASE WindowCloses
    BY <1>8, PairingConstants DEF IInv, RadioTypes, WindowCloses, enroll, radio, saved,
       bounds
<1>9. CASE Disconnect
    BY <1>9, PairingConstants DEF IInv, RadioTypes, Disconnect, Unlinked, enroll, radio,
       saved, bounds
<1>10. CASE Hello
    BY <1>10, PairingConstants, HelloFacts DEF IInv, RadioTypes, enroll, radio, saved,
       bounds
<1>11. CASE ForgetBegins
    BY <1>11, PairingConstants DEF IInv, RadioTypes, ForgetBegins, enroll, radio, saved,
       bounds
<1>12. CASE PowerCut
    BY <1>12, PairingConstants DEF IInv, RadioTypes, PowerCut, Idle, Unpublished, Unlinked,
       enroll, radio, saved, bounds
<1>13. CASE
        Leave \/ FieldTask \/ TokenExpires \/ RetryComes \/ RefreshBegins \/ RefreshEnds \/
           RefreshFails \/ ForgetState \/ ForgetEnds \/ UNCHANGED pairingVars
    BY <1>1, <1>13 DEF Leave, FieldTask, TokenExpires, RetryComes, RefreshBegins,
       RefreshEnds, RefreshFails, ForgetState, ForgetEnds, enroll, radio, saved, bounds,
       pairingVars
<1>14. ASSUME NEW p \in Phones,
            Enter(p)
      PROVE  RadioTypes'
    BY <1>1, <1>14 DEF Enter, enroll, radio, saved, bounds
<1> QED
    BY <1>2, <1>3, <1>4, <1>5, <1>6, <1>7, <1>8, <1>9, <1>10, <1>11, <1>12, <1>13, <1>14 DEF
       PairingNext, SessionTask, Phone

\* What the erasures and a start that cannot read leave in NVS.
LEMMA ErasesAre ==
    ASSUME SavedTypes
    PROVE  LET first == EraseFirst(flash)
               second == EraseSecond(flash)
               unread == Unread(flash)
               gone == {flash.id} \ {None}
           IN /\ {first, second, unread, Nothing} \subseteq Memories
              /\ first.id = flash.id /\ first.sync = None /\ first.lost = flash.lost
              /\ second.id = None /\ second.sync = flash.sync
              /\ second.lost = flash.lost \cup gone
              /\ unread.id = flash.id /\ unread.sync = flash.sync
              /\ unread.lost = flash.lost \cup gone
              /\ Nothing.id = None /\ Nothing.sync = None /\ Nothing.lost = {}
<1> DEFINE lost == flash.lost \cup ({flash.id} \ {None})
<1>1. lost \in SUBSET Phones
    BY DEF SavedTypes, Memories
<1> HIDE DEF lost
<1>2. EraseSecond(flash) = [flash EXCEPT !.id = None, !.lost = lost]
      /\ Unread(flash) = [flash EXCEPT !.lost = lost]
    BY DEF lost, EraseSecond, Unread
<1>3. lost = flash.lost \cup ({flash.id} \ {None})
    BY DEF lost
<1> DEFINE second == EraseSecond(flash)
           unread == Unread(flash)
<1>4. /\ second \in Memories /\ second.id = None /\ second.sync = flash.sync
      /\ second.lost = lost
    BY <1>1, <1>2 DEF SavedTypes, Memories
<1>5. /\ unread \in Memories /\ unread.id = flash.id /\ unread.sync = flash.sync
      /\ unread.lost = lost
    BY <1>1, <1>2 DEF SavedTypes, Memories
<1>6. /\ EraseFirst(flash) \in Memories /\ EraseFirst(flash).id = flash.id
      /\ EraseFirst(flash).sync = None /\ EraseFirst(flash).lost = flash.lost
    BY DEF SavedTypes, Memories, EraseFirst
<1>7. Nothing \in Memories /\ Nothing.id = None /\ Nothing.sync = None /\ Nothing.lost = {}
    BY DEF Memories, Nothing
<1> HIDE DEF second, unread
<1> QED
    BY <1>3, <1>4, <1>5, <1>6, <1>7 DEF second, unread

\* What is saved.
LEMMA SavedTypesStay ==
    ASSUME IInv, [PairingNext]_pairingVars
    PROVE  SavedTypes'
<1>1. CASE UNCHANGED <<flash, owner, authd, uses>>
    BY <1>1 DEF IInv, SavedTypes
<1>2. CASE Disconnect
    BY <1>2, PairingConstants DEF IInv, SavedTypes, Disconnect, Unlinked, enroll, radio,
       saved, bounds
<1>3. CASE Hello
    <2>1. PICK p \in Phones :
            /\ owner' = owner \/ owner' = p
            /\ authd' = p \/ authd' = None
            /\ flash' \in Memories
        BY <1>3, HelloFacts DEF Kept
    <2>2. uses' = uses \/ (Valid(hello.proof) /\ uses' = [uses EXCEPT ![boot.tok] = @ + 1])
        BY <1>3, HelloFacts
    <2>3. Valid(hello.proof) => uses[boot.tok] \in Nat
        BY DEF Valid, IInv, TokenInv, EnrollTypes, SavedTypes, Tokens, Fresh
    <2>4. uses' \in [Tokens -> Nat]
        BY <2>2, <2>3 DEF IInv, SavedTypes
    <2> QED
        BY <2>1, <2>4 DEF IInv, SavedTypes
<1>4. CASE ForgetBegins
    BY <1>4, PairingConstants DEF IInv, SavedTypes, ForgetBegins, enroll, radio, saved,
       bounds
<1>5. CASE ForgetState
    <2>1. flash' = EraseFirst(flash) /\ UNCHANGED <<owner, authd, uses>>
        BY <1>5 DEF ForgetState
    <2> QED
        BY <2>1, ErasesAre DEF IInv, SavedTypes
<1>6. CASE ForgetEnds
    <2>1. /\ flash' \in {Nothing, flash, EraseFirst(flash), EraseSecond(flash)}
          /\ owner' \in {owner, None} /\ UNCHANGED <<authd, uses>>
        BY <1>6 DEF ForgetEnds
    <2> QED
        BY <2>1, ErasesAre DEF IInv, SavedTypes
<1>7. CASE PowerCut
    <2>1. /\ flash' \in {flash, Unread(flash)} /\ owner' \in {flash.id, None}
          /\ authd' = None /\ uses' = uses
        BY <1>7 DEF PowerCut, Load
    <2>2. flash.id \in Phones \cup {None}
        BY DEF IInv, SavedTypes, Memories
    <2> QED
        BY <2>1, <2>2, ErasesAre DEF IInv, SavedTypes
<1>8. CASE
        Leave \/ FieldTask \/ TokenExpires \/ RetryComes \/ RefreshBegins \/ RefreshEnds \/
           RefreshFails \/ PollField \/ LocalPairing \/ WindowCloses \/ UNCHANGED pairingVars
    BY <1>1, <1>8 DEF Leave, FieldTask, TokenExpires, RetryComes, RefreshBegins,
       RefreshEnds, RefreshFails, PollField, LocalPairing, WindowCloses, enroll, radio,
       saved, bounds, pairingVars
<1>9. ASSUME NEW p \in Phones,
            Enter(p) \/ ReadTag(p) \/ Connect(p) \/ HandoffExpires(p) \/ HelloAck(p)
      PROVE  SavedTypes'
    BY <1>1, <1>9 DEF Enter, ReadTag, Connect, HandoffExpires, HelloAck, enroll, radio,
       saved, bounds
<1> QED
    BY <1>2, <1>3, <1>4, <1>5, <1>6, <1>7, <1>8, <1>9 DEF PairingNext, SessionTask, Phone

\* The counters.
LEMMA CountTypesStay ==
    ASSUME IInv, [PairingNext]_pairingVars
    PROVE  CountTypes'
<1>1. CASE UNCHANGED <<faults, forgets, taps>>
    BY <1>1 DEF IInv, CountTypes
<1>2. ASSUME NEW p \in Phones, Enter(p)
      PROVE  CountTypes'
    BY <1>2, PairingConstants DEF IInv, CountTypes, Enter, enroll, radio, saved, bounds
<1>3. CASE RefreshFails
    BY <1>3, PairingConstants DEF IInv, CountTypes, RefreshFails, EndTransfer, Unwritten,
       Idle, enroll, radio, saved, bounds
<1>4. CASE Hello
    BY <1>4, PairingConstants, HelloFacts DEF IInv, CountTypes, enroll, radio, saved, bounds
<1>5. CASE ForgetBegins
    BY <1>5, PairingConstants DEF IInv, CountTypes, ForgetBegins, enroll, radio, saved,
       bounds
<1>6. CASE ForgetEnds
    BY <1>6, PairingConstants DEF IInv, CountTypes, ForgetEnds, Idle, Unpublished, enroll,
       radio, saved, bounds
<1>7. CASE PowerCut
    BY <1>7, PairingConstants DEF IInv, CountTypes, PowerCut, Idle, Unpublished, Unlinked,
       enroll, radio, saved, bounds
<1>8. CASE
        Leave \/ FieldTask \/ TokenExpires \/ RetryComes \/ RefreshBegins \/ RefreshEnds \/
           PollField \/ LocalPairing \/ WindowCloses \/ Disconnect \/ ForgetState \/
           UNCHANGED pairingVars
    BY <1>1, <1>8 DEF Leave, FieldTask, TokenExpires, RetryComes, RefreshBegins,
       RefreshEnds, PollField, LocalPairing, WindowCloses, Disconnect, ForgetState, enroll,
       radio, saved, bounds, pairingVars
<1>9. ASSUME NEW p \in Phones,
            ReadTag(p) \/ Connect(p) \/ HandoffExpires(p) \/ HelloAck(p)
      PROVE  CountTypes'
    BY <1>1, <1>9 DEF ReadTag, Connect, HandoffExpires, HelloAck, enroll, radio, saved,
       bounds
<1> QED
    BY <1>2, <1>3, <1>4, <1>5, <1>6, <1>7, <1>8, <1>9 DEF PairingNext, SessionTask, Phone

\* Only a write that ended publishes, and what it published is what it wrote.
LEMMA TagInvStay ==
    ASSUME IInv, [PairingNext]_pairingVars
    PROVE  TagInv'
<1>1. CASE UNCHANGED <<task, boot, pub, tag>>
    BY <1>1 DEF IInv, TagInv, Fresh, Written
<1>2. CASE TokenExpires
    BY <1>2, PairingConstants DEF IInv, TagInv, Fresh, Written, EnrollTypes, TokenExpires,
       enroll, radio, saved, bounds
<1>3. CASE RetryComes
    BY <1>3, PairingConstants DEF IInv, TagInv, Fresh, Written, RetryComes, enroll, radio,
       saved, bounds
<1>4. CASE RefreshBegins
    BY <1>4, PairingConstants DEF IInv, TagInv, Fresh, Written, EnrollTypes, RefreshBegins,
       enroll, radio, saved, bounds
<1>5. CASE RefreshEnds
    BY <1>5, PairingConstants DEF IInv, TagInv, Fresh, Written, RefreshEnds, EndTransfer,
       Publishes, enroll, radio, saved, bounds
<1>6. CASE RefreshFails
    BY <1>6, PairingConstants DEF IInv, TagInv, Fresh, Written, RefreshFails, EndTransfer,
       Unwritten, Idle, enroll, radio, saved, bounds
<1>7. CASE PollField
    <2>1. UNCHANGED <<tag, pub, task>> /\ task = "loop"
        BY <1>7 DEF PollField
    <2> QED
        BY <1>7, <2>1, PollFacts DEF IInv, TagInv, EnrollTypes, Expired, Fresh, Written
<1>8. CASE Hello
    <2>1. /\ UNCHANGED <<tag, pub, task>> /\ task = "loop"
          /\ \/ boot' = boot
             \/ boot' = Expired(boot)
             \/ boot' = [boot EXCEPT !.st = "consumed", !.tok = 0]
        BY <1>8, HelloFacts
    <2> QED
        BY <2>1 DEF IInv, TagInv, EnrollTypes, Expired, Fresh, Written
<1>9. CASE ForgetBegins
    BY <1>9, PairingConstants DEF IInv, TagInv, Fresh, Written, ForgetBegins, enroll, radio,
       saved, bounds
<1>10. CASE ForgetState
    BY <1>10, PairingConstants DEF IInv, TagInv, Fresh, Written, ForgetState, EraseFirst,
       enroll, radio, saved, bounds
<1>11. CASE ForgetEnds
    BY <1>11, PairingConstants DEF IInv, TagInv, Fresh, Written, ForgetEnds, Idle,
       Unpublished, enroll, radio, saved, bounds
<1>12. CASE PowerCut
    BY <1>12, PairingConstants DEF IInv, TagInv, Fresh, Written, PowerCut, Idle,
       Unpublished, Unlinked, enroll, radio, saved, bounds
<1>13. CASE
        Leave \/ FieldTask \/ LocalPairing \/ WindowCloses \/ Disconnect \/ UNCHANGED pairingVars
    BY <1>1, <1>13 DEF Leave, FieldTask, LocalPairing, WindowCloses, Disconnect, enroll,
       radio, saved, bounds, pairingVars
<1>14. ASSUME NEW p \in Phones,
            Enter(p) \/ ReadTag(p) \/ Connect(p) \/ HandoffExpires(p) \/ HelloAck(p)
      PROVE  TagInv'
    BY <1>1, <1>14 DEF Enter, ReadTag, Connect, HandoffExpires, HelloAck, enroll, radio,
       saved, bounds
<1> QED
    BY <1>2, <1>3, <1>4, <1>5, <1>6, <1>7, <1>8, <1>9, <1>10, <1>11, <1>12, <1>13, <1>14 DEF
       PairingNext, SessionTask, Phone

\* A token is drawn unused, and gone from the device once it is accepted.
LEMMA TokenInvStay ==
    ASSUME IInv, [PairingNext]_pairingVars
    PROVE  TokenInv'
<1>1. CASE UNCHANGED <<boot, uses, drawn>>
    BY <1>1 DEF IInv, TokenInv, Fresh
<1>2. CASE TokenExpires
    BY <1>2, PairingConstants DEF IInv, TokenInv, Fresh, EnrollTypes, TokenExpires, enroll,
       radio, saved, bounds
<1>3. CASE RefreshBegins
    BY <1>3, PairingConstants DEF IInv, TokenInv, Fresh, EnrollTypes, SavedTypes, Tokens,
       RefreshBegins, enroll, radio, saved, bounds
<1>4. CASE RefreshFails
    BY <1>4, PairingConstants DEF IInv, TokenInv, Fresh, EnrollTypes, RefreshFails,
       EndTransfer, Unwritten, Idle, enroll, radio, saved, bounds
<1>5. CASE PollField
    <2>1. UNCHANGED <<uses, drawn>>
        BY <1>5 DEF PollField, saved
    <2> QED
        BY <1>5, <2>1, PollFacts DEF IInv, TokenInv, EnrollTypes, Expired, Fresh
<1>6. CASE Hello
    <2>1. drawn' = drawn
        BY <1>6, HelloFacts
    <2>2. CASE boot' = boot /\ uses' = uses
        BY <2>1, <2>2 DEF IInv, TokenInv, Fresh
    <2>3. CASE boot' = Expired(boot) /\ uses' = uses
        BY <2>1, <2>3 DEF IInv, TokenInv, EnrollTypes, Expired, Fresh
    <2>4. CASE /\ Valid(hello.proof)
               /\ boot' = [boot EXCEPT !.st = "consumed", !.tok = 0]
               /\ uses' = [uses EXCEPT ![boot.tok] = @ + 1]
        <3>1. boot.tok # 0
            BY <2>4 DEF Valid, IInv, TokenInv, Fresh
        <3>2. boot.tok \in Tokens /\ boot.tok <= drawn /\ uses[boot.tok] = 0
            BY <3>1 DEF IInv, TokenInv, EnrollTypes, Tokens
        <3>3. \A t \in Tokens : uses'[t] = IF t = boot.tok THEN 1 ELSE uses[t]
            BY <2>4, <3>2 DEF IInv, SavedTypes
        <3>4. boot'.st = "consumed" /\ boot'.tok = 0 /\ boot'.gen = boot.gen
            BY <2>4 DEF IInv, EnrollTypes
        <3>5. \A t \in Tokens : uses'[t] <= 1 /\ (t > drawn => uses'[t] = 0)
            BY <3>2, <3>3, PairingConstants DEF IInv, TokenInv, EnrollTypes, Tokens
        <3> QED
            BY <2>1, <3>4, <3>5 DEF IInv, TokenInv, Fresh
    <2> QED
        BY <1>6, <2>2, <2>3, <2>4, HelloFacts
<1>7. CASE ForgetEnds
    BY <1>7, PairingConstants DEF IInv, TokenInv, Fresh, EnrollTypes, ForgetEnds, Idle,
       Unpublished, enroll, radio, saved, bounds
<1>8. CASE PowerCut
    BY <1>8, PairingConstants DEF IInv, TokenInv, Fresh, EnrollTypes, PowerCut, Idle,
       Unpublished, Unlinked, enroll, radio, saved, bounds
<1>9. CASE
        Leave \/ FieldTask \/ RetryComes \/ RefreshEnds \/ LocalPairing \/ WindowCloses \/
           Disconnect \/ ForgetBegins \/ ForgetState \/ UNCHANGED pairingVars
    BY <1>1, <1>9 DEF Leave, FieldTask, RetryComes, RefreshEnds, LocalPairing, WindowCloses,
       Disconnect, ForgetBegins, ForgetState, enroll, radio, saved, bounds, pairingVars
<1>10. ASSUME NEW p \in Phones,
            Enter(p) \/ ReadTag(p) \/ Connect(p) \/ HandoffExpires(p) \/ HelloAck(p)
      PROVE  TokenInv'
    BY <1>1, <1>10 DEF Enter, ReadTag, Connect, HandoffExpires, HelloAck, enroll, radio,
       saved, bounds
<1> QED
    BY <1>2, <1>3, <1>4, <1>5, <1>6, <1>7, <1>8, <1>9, <1>10 DEF PairingNext, SessionTask, Phone

\* Identity is saved before it is answered, and erased when it is forgotten.
LEMMA IdentityInvStay ==
    ASSUME IInv, [PairingNext]_pairingVars
    PROVE  IdentityInv'
<1>1. CASE UNCHANGED <<owner, flash, authd, link, ack, hello, task, forgets>>
    BY <1>1 DEF IInv, IdentityInv
<1>2. ASSUME NEW p \in Phones, Connect(p)
      PROVE  IdentityInv'
    BY <1>2, PairingConstants DEF IInv, IdentityInv, Connect, enroll, radio, saved, bounds
<1>3. ASSUME NEW p \in Phones, HelloAck(p)
      PROVE  IdentityInv'
    BY <1>3, PairingConstants DEF IInv, IdentityInv, HelloAck, enroll, radio, saved, bounds
<1>4. CASE RefreshBegins
    BY <1>4, PairingConstants DEF IInv, IdentityInv, RefreshBegins, enroll, radio, saved,
       bounds
<1>5. CASE RefreshEnds
    BY <1>5, PairingConstants DEF IInv, IdentityInv, RefreshEnds, EndTransfer, Written,
       Publishes, enroll, radio, saved, bounds
<1>6. CASE RefreshFails
    BY <1>6, PairingConstants DEF IInv, IdentityInv, RefreshFails, EndTransfer, Unwritten,
       Idle, enroll, radio, saved, bounds
<1>7. CASE PollField
    BY <1>7, PairingConstants DEF IInv, IdentityInv, PollField, Expired, StartPairing,
       enroll, radio, saved, bounds
<1>8. CASE LocalPairing
    BY <1>8, PairingConstants DEF IInv, IdentityInv, LocalPairing, StartPairing, enroll,
       radio, saved, bounds
<1>9. CASE WindowCloses
    BY <1>9, PairingConstants DEF IInv, IdentityInv, WindowCloses, enroll, radio, saved,
       bounds
<1>10. CASE Disconnect
    BY <1>10, PairingConstants DEF IInv, IdentityInv, Disconnect, Unlinked, enroll, radio,
       saved, bounds
<1>11. CASE Hello
    <2>1. PICK p \in Phones :
            /\ link.peer = p /\ hello' = None /\ task = "loop"
            /\ \E id \in {flash.id, p} :
                 /\ \/ id = flash.id /\ owner' = owner
                    \/ id = p /\ owner \in {None, p} /\ owner' \in {owner, p}
                 /\ \/ authd' = p /\ ack' = TRUE /\ owner' = p /\ Kept(id, p)
                    \/ authd' = None /\ ack' = FALSE /\ Kept(id, flash.sync)
            /\ UNCHANGED <<task, link, forgets>>
        BY <1>11, HelloFacts
    <2>2. p # None
        BY PairingConstants
    <2>3. PICK id \in {flash.id, p} :
            /\ \/ id = flash.id /\ owner' = owner
               \/ id = p /\ owner \in {None, p} /\ owner' \in {owner, p}
            /\ flash'.id = id /\ flash'.lost = flash.lost
            /\ \/ authd' = p /\ ack' = TRUE /\ owner' = p /\ flash'.sync = p
               \/ authd' = None /\ ack' = FALSE /\ flash'.sync = flash.sync
        BY <2>1 DEF Kept
    <2>4. owner' # None => flash'.id = owner' \/ (flash'.id = None /\ owner' \in flash'.lost)
        BY <2>3 DEF IInv, IdentityInv
    <2>5. flash'.sync # None => flash'.sync = owner' \/ flash'.sync \in flash'.lost
        BY <2>3 DEF IInv, IdentityInv
    <2> QED
        BY <2>1, <2>2, <2>3, <2>4, <2>5 DEF IdentityInv
<1>12. CASE ForgetBegins
    BY <1>12, PairingConstants DEF IInv, IdentityInv, ForgetBegins, enroll, radio, saved,
       bounds, CountTypes
<1>13. CASE ForgetState
    <2>1. /\ flash' = EraseFirst(flash) /\ task' = "sync" /\ task = "bonds"
          /\ UNCHANGED <<owner, authd, link, ack, hello, forgets>>
        BY <1>13 DEF ForgetState, radio, bounds
    <2>2. flash'.id = flash.id /\ flash'.sync = None /\ flash'.lost = flash.lost
        BY <2>1, ErasesAre DEF IInv
    <2> QED
        BY <2>1, <2>2 DEF IInv, IdentityInv
<1>14. CASE ForgetEnds
    <2>1. /\ task' = "loop" /\ UNCHANGED <<authd, link, ack, hello, forgets>>
          /\ \/ flash' = Nothing /\ owner' = None
             \/ flash' \in {flash, EraseFirst(flash), EraseSecond(flash)} /\ owner' = owner
          /\ task \in {"bonds", "sync"}
        BY <1>14 DEF ForgetEnds, radio
    <2> QED
        BY <2>1, ErasesAre DEF IInv, IdentityInv
<1>15. CASE PowerCut
    <2>1. /\ task' = "loop" /\ authd' = None /\ hello' = None /\ ack' = None
          /\ forgets' = forgets
          /\ \/ owner' = flash.id /\ flash' = flash
             \/ owner' = None /\ flash' = Unread(flash)
        BY <1>15 DEF PowerCut, Load
    <2> QED
        BY <2>1, ErasesAre DEF IInv, IdentityInv
<1>16. CASE
        Leave \/ FieldTask \/ TokenExpires \/ RetryComes \/ UNCHANGED pairingVars
    BY <1>1, <1>16 DEF Leave, FieldTask, TokenExpires, RetryComes, enroll, radio, saved,
       bounds, pairingVars
<1>17. ASSUME NEW p \in Phones,
            Enter(p) \/ ReadTag(p) \/ HandoffExpires(p)
      PROVE  IdentityInv'
    BY <1>1, <1>17 DEF Enter, ReadTag, HandoffExpires, enroll, radio, saved, bounds
<1> QED
    BY <1>2, <1>3, <1>4, <1>5, <1>6, <1>7, <1>8, <1>9, <1>10, <1>11, <1>12, <1>13, <1>14,
       <1>15, <1>16, <1>17 DEF PairingNext, SessionTask, Phone

\* A phone becomes enrolled by the answer that says it was saved.
LEMMA EnrolledInvStay ==
    ASSUME IInv, [PairingNext]_pairingVars
    PROVE  EnrolledInv'
<1>1. CASE UNCHANGED <<forgets, enrolled, owner>> /\ flash'.lost = flash.lost
    BY <1>1 DEF IInv, EnrolledInv
<1>2. ASSUME NEW p \in Phones, HelloAck(p)
      PROVE  EnrolledInv'
    BY <1>2, PairingConstants DEF IInv, EnrolledInv, IdentityInv, HelloAck, enroll, radio,
       saved, bounds
<1>3. CASE Hello
    <2>1. PICK p \in Phones :
            /\ owner' = owner \/ (owner = None /\ owner' = p)
            /\ flash'.lost = flash.lost /\ UNCHANGED <<forgets, enrolled>>
      <3>1. PICK p \in Phones : \E id \in {flash.id, p} :
              /\ \/ id = flash.id /\ owner' = owner
                 \/ id = p /\ owner \in {None, p} /\ owner' \in {owner, p}
              /\ Kept(id, p) \/ Kept(id, flash.sync)
              /\ UNCHANGED <<forgets, enrolled>>
          BY <1>3, HelloFacts
      <3> QED
          BY <3>1 DEF Kept
    <2> QED
        BY <2>1, PairingConstants DEF IInv, EnrolledInv, RadioTypes
<1>4. CASE ForgetBegins
    BY <1>4, PairingConstants DEF IInv, EnrolledInv, ForgetBegins, enroll, radio, saved,
       bounds, CountTypes
<1>5. CASE ForgetEnds
    BY <1>5 DEF IInv, EnrolledInv, IdentityInv, ForgetEnds
<1>9. CASE ForgetState
    <2>1. flash' = EraseFirst(flash) /\ UNCHANGED <<forgets, enrolled, owner>>
        BY <1>9 DEF ForgetState, radio, bounds
    <2>2. flash'.lost = flash.lost
        BY <2>1, ErasesAre DEF IInv
    <2> QED
        BY <1>1, <2>1, <2>2
<1>6. CASE PowerCut
    <2>1. /\ UNCHANGED <<forgets, enrolled>>
          /\ \/ owner' = flash.id /\ flash' = flash
             \/ owner' = None /\ flash' = Unread(flash)
        BY <1>6 DEF PowerCut, Load
    <2>2. flash'.lost = {} => flash.lost = {} /\ owner' = flash.id
        BY <2>1, ErasesAre DEF IInv
    <2> SUFFICES ASSUME forgets' = 0, flash'.lost = {}, NEW p \in enrolled PROVE owner' = p
        BY <2>1 DEF EnrolledInv
    <2>3. owner = p /\ p # None
        BY <2>1, <2>2, PairingConstants DEF IInv, EnrolledInv, RadioTypes
    <2> QED
        BY <2>2, <2>3 DEF IInv, IdentityInv
<1>7. CASE
        Leave \/ FieldTask \/ TokenExpires \/ RetryComes \/ RefreshBegins \/ RefreshEnds \/
           RefreshFails \/ PollField \/ LocalPairing \/ WindowCloses \/ Disconnect \/
           UNCHANGED pairingVars
    BY <1>1, <1>7 DEF Leave, FieldTask, TokenExpires, RetryComes, RefreshBegins,
       RefreshEnds, RefreshFails, PollField, LocalPairing, WindowCloses, Disconnect,
       enroll, radio, saved, bounds, pairingVars
<1>8. ASSUME NEW p \in Phones,
            Enter(p) \/ ReadTag(p) \/ Connect(p) \/ HandoffExpires(p)
      PROVE  EnrolledInv'
    BY <1>1, <1>8 DEF Enter, ReadTag, Connect, HandoffExpires, enroll, radio, saved, bounds
<1> QED
    BY <1>2, <1>3, <1>4, <1>5, <1>6, <1>7, <1>8, <1>9 DEF PairingNext, SessionTask, Phone

-----------------------------------------------------------------------------
(* The invariant holds, and with it the property.                          *)

\* A factory-new device with an empty tag.
LEMMA InitHolds == PairingInit => IInv
<1> SUFFICES ASSUME PairingInit PROVE IInv
    OBVIOUS
<1>1. NfcTypes /\ RadioTypes /\ CountTypes
    BY PairingConstants DEF PairingInit, NfcTypes, RadioTypes, CountTypes, Unlinked
<1>2. EnrollTypes
    BY PairingConstants DEF PairingInit, EnrollTypes, Idle, Unpublished
<1>3. SavedTypes
    BY DEF PairingInit, SavedTypes, Memories, Nothing
<1>4. TagInv /\ TokenInv
    BY PairingConstants DEF PairingInit, TagInv, TokenInv, Fresh, Idle, Unpublished, Tokens
<1>5. IdentityInv /\ EnrolledInv
    BY DEF PairingInit, IdentityInv, EnrolledInv, Unlinked, Nothing
<1> QED
    BY <1>1, <1>2, <1>3, <1>4, <1>5 DEF IInv

\* The inductive invariant, for any phones and any bounds: types, what the tag
\* says, which tokens were used, whose identity is saved and promised
\* (note4_pairing_bootstrap.cc, note4_enrollment_publisher.cc,
\* note4_connectivity_service.cc ProcessHelloPayload).
THEOREM EnrollmentInvariant == PairingSpec => []IInv
<1>1. IInv /\ [PairingNext]_pairingVars => IInv'
    BY NfcTypesStay, EnrollTypesStay, RadioTypesStay, SavedTypesStay, CountTypesStay,
       TagInvStay, TokenInvStay, IdentityInvStay, EnrolledInvStay DEF IInv
<1> QED
    BY <1>1, InitHolds, PTL DEF PairingSpec

\* Every variable keeps its type.
THEOREM EnrollmentTypes == PairingSpec => []PairingTypes
<1>1. IInv => PairingTypes
    BY DEF IInv, NfcTypes, EnrollTypes, RadioTypes, SavedTypes, Memories, PairingTypes
<1> QED
    BY <1>1, EnrollmentInvariant, PTL

\* A window is open for what the tag says only, a token enrolls once, and a
\* phone that counts as enrolled, or is authorized, is the one the device saved,
\* unless the store lost an identity that nobody forgot: through power cuts and
\* writes, saves and erasures that fail with or without effect.
THEOREM EnrollmentAlwaysSound == PairingSpec => []EnrollmentSound
<1>1. IInv => WindowMatchesTag
    BY DEF IInv, TagInv, Fresh, WindowMatchesTag
<1>2. IInv => TokenOnce
    BY DEF IInv, TokenInv, TokenOnce
<1>3. IInv => AckMeansSaved
    BY PairingConstants DEF IInv, RadioTypes, IdentityInv, EnrolledInv, AckMeansSaved
<1>4. IInv => NoStrangersState
    BY DEF IInv, IdentityInv, NoStrangersState
<1> QED
    BY <1>1, <1>2, <1>3, <1>4, EnrollmentInvariant, PTL DEF EnrollmentSound

-----------------------------------------------------------------------------
(* The console.                                                            *)

Words == Reads \cup Writes \cup {"follow", "host", "enter", "break", "confirm", "frame", "words"}
Typed == [what : Words, cable : {0, 1}, token : Nat]
Cables == [up : BOOLEAN, cable : {0, 1}, latch : BOOLEAN, noted : BOOLEAN]
Sessions == [on : BOOLEAN, line : Seq(Typed), active : BOOLEAN, binary : BOOLEAN]
Executors == [active : BOOLEAN, ticket : Nat, ready : BOOLEAN, token : Nat,
              request : Writes \cup {None}, left : Nat, next : Nat]
Requests == [op : Reads \cup Writes \cup {None}, confirmed : BOOLEAN]
Exchanges == [state : {"idle", "queued", "executing", "complete"}, request : Requests,
          status : {"none", "ok", "unavailable", "timeout", "unknown"}, answer : Nat,
          age : Nat, abandoned : BOOLEAN, ticket : 0 .. MaxTickets, closing : BOOLEAN]
Reports == {"nothing", "ok", "another's", "unavailable", "timeout", "unknown", "cancelled",
            "none"}

Effected == [made : SUBSET Console!Tickets, erred : SUBSET Console!Tickets]

ConsoleTypes ==
    /\ mUsb \in Cables /\ mRx \in Seq(Typed) /\ mCli \in Sessions
    /\ mExec \in Executors /\ mSlot \in Exchanges
    /\ mOwner \in [op : Reads \cup Writes \cup {None}, ticket : Console!Tickets] \cup {None}
    /\ mEffects \in Effected
    /\ mTold \in [Console!Tickets -> Reports]

-----------------------------------------------------------------------------
(* What is told of a request.                                              *)

\* The executor waits for the latest request or for none; the owner executes it and no
\* other.
OneRequest ==
    /\ mExec.ticket \in {0, mSlot.ticket}
    /\ mSlot.state # "idle" => mSlot.ticket \in Console!Tickets
    /\ mSlot.state = "executing" <=> mOwner # None
    /\ mOwner # None => mOwner.ticket = mSlot.ticket /\ mOwner.op = mSlot.request.op
    /\ mSlot.abandoned => mSlot.state = "executing"

\* Only the latest request has a history.
OneHistory ==
    /\ mEffects.erred \subseteq mEffects.made /\ mEffects.made \subseteq {mSlot.ticket}
    /\ \A t \in Console!Tickets : mTold[t] # "nothing" => t = mSlot.ticket /\ mExec.ticket = 0

\* Until it is executed nothing is changed, and what is complete says what was.
Complete ==
    /\ mSlot.state \in {"queued", "executing"} => mEffects.made = {}
    /\ mSlot.state = "complete" =>
        /\ mSlot.status = "ok" => mSlot.answer = mSlot.ticket /\ mEffects.erred = {}
        /\ mSlot.status = "timeout" => mEffects.made = {}
        /\ mEffects.made # {} =>
              /\ mSlot.request.op \in Writes
              /\ mSlot.status = "ok" \/ mSlot.closing \/ mEffects.made \subseteq mEffects.erred

\* Of what was told and may still be executed, nothing that changes the device was said
\* not to have been.
Final ==
    \A t \in Console!Tickets : mTold[t] # "nothing" =>
        /\ mSlot.state = "idle" \/ (mSlot.state = "executing" /\ mSlot.abandoned)
        /\ mSlot.state = "executing" =>
              /\ mTold[t] # "ok"
              /\ mTold[t] \in {"timeout", "cancelled"} => mSlot.request.op \notin Writes

HistoryInv == OneRequest /\ OneHistory /\ Complete /\ Final /\ Console!ToldTruly

\* A step of the console that concerns no request.
Aside ==
    /\ mExec'.ticket \in {mExec.ticket, 0}
    /\ UNCHANGED <<mSlot, mOwner, mEffects, mTold>>

LEMMA AsideKeeps ==
    ASSUME HistoryInv, Aside
    PROVE  HistoryInv'
BY DEF HistoryInv, Aside, OneRequest, OneHistory, Complete, Final, Console!ToldTruly

\* The executor forgets its request.
Given == [Console!NoExec EXCEPT !.next = mExec.next]

LEMMA GivenIs ==
    ASSUME ConsoleTypes
    PROVE  Given \in Executors /\ Given.ticket = 0 /\ Given.token = 0
BY DEF ConsoleTypes, Executors, Given, Console!NoExec

LEMMA FreeIs ==
    ASSUME ConsoleTypes
    PROVE  /\ Console!Free \in Exchanges /\ Console!Free.state = "idle" /\ ~Console!Free.abandoned
           /\ Console!Free.ticket = mSlot.ticket /\ Console!Free.closing = mSlot.closing
BY DEF ConsoleTypes, Exchanges, Requests, Console!Free, Console!NoSlot, Console!NoRequest

LEMMA GivenUpIs ==
    ASSUME ConsoleTypes
    PROVE  /\ Console!GivenUp \in Exchanges /\ Console!GivenUp.ticket = mSlot.ticket
           /\ Console!GivenUp.closing = mSlot.closing
           /\ mSlot.state = "executing" => /\ Console!GivenUp.state = "executing"
                                           /\ Console!GivenUp.abandoned
                                           /\ Console!GivenUp.request = mSlot.request
           /\ mSlot.state # "executing" => /\ Console!GivenUp.state = "idle"
                                           /\ ~Console!GivenUp.abandoned
<1>1. CASE mSlot.state = "executing"
    BY <1>1 DEF ConsoleTypes, Exchanges, Console!GivenUp
<1>2. CASE mSlot.state # "executing"
    BY <1>2, FreeIs DEF Console!GivenUp
<1> QED BY <1>1, <1>2

\* The request is over for the console; the user may be told so, and then truly.
Drops(what) ==
    /\ mExec'.ticket = 0
    /\ mSlot' = IF Console!Mine THEN Console!GivenUp ELSE mSlot
    /\ UNCHANGED <<mOwner, mEffects>>
    /\ \/ mTold' = mTold
       \/ /\ mExec.ticket # 0
          /\ mTold' = [mTold EXCEPT ![mExec.ticket] = what]
          /\ what \in Reports \ {"another's"}
          /\ what \in {"timeout", "cancelled"} =>
                /\ mSlot.state = "executing" => mSlot.request.op \notin Writes
                /\ mEffects.made # {} =>
                      mSlot.closing \/ mEffects.made \subseteq mEffects.erred
          /\ what = "timeout" => mEffects.made = {}
          /\ what = "ok" => mEffects.erred = {} /\ mSlot.state = "complete"

LEMMA DropsKeeps ==
    ASSUME ConsoleTypes, HistoryInv, NEW what, Drops(what)
    PROVE  HistoryInv'
<1> DEFINE g == Console!GivenUp
<1>1. /\ g.ticket = mSlot.ticket /\ g.closing = mSlot.closing
      /\ mSlot.state = "executing" => g.state = "executing" /\ g.request = mSlot.request
                                      /\ g.abandoned
      /\ mSlot.state # "executing" => g.state = "idle" /\ ~g.abandoned
    BY GivenUpIs
<1>2. mSlot' = g \/ (mSlot' = mSlot /\ ~Console!Mine)
    BY DEF Drops
<1> HIDE DEF g
<1>3. /\ mSlot'.ticket = mSlot.ticket /\ mSlot'.closing = mSlot.closing
      /\ mSlot'.state \in {mSlot.state, "idle"}
      /\ mSlot.state = "executing" <=> mSlot'.state = "executing"
      /\ mSlot'.state = "executing" => mSlot'.request = mSlot.request
      /\ mSlot'.abandoned => mSlot'.state = "executing"
      /\ mSlot'.state = "complete" => mSlot' = mSlot
      /\ mExec.ticket # 0 => mSlot'.state = "idle"
                             \/ (mSlot'.state = "executing" /\ mSlot'.abandoned)
      /\ mSlot.abandoned => mSlot'.abandoned
    BY <1>1, <1>2 DEF HistoryInv, OneRequest, Console!Mine, ConsoleTypes, Exchanges
<1>4. OneRequest'
    BY <1>3 DEF HistoryInv, OneRequest, Drops
<1>5. Complete'
    BY <1>3 DEF HistoryInv, Complete, Drops
<1>6. CASE mTold' = mTold
    <2>1. OneHistory'
        BY <1>3, <1>6 DEF HistoryInv, OneHistory, Drops
    <2>2. Final' /\ Console!ToldTruly'
        BY <1>3, <1>6 DEF HistoryInv, Final, Console!ToldTruly, Drops
    <2> QED BY <1>4, <1>5, <2>1, <2>2 DEF HistoryInv
<1>7. CASE mTold' # mTold
    <2>1. /\ mExec.ticket = mSlot.ticket /\ mExec.ticket # 0
          /\ mTold' = [mTold EXCEPT ![mSlot.ticket] = what]
          /\ what \in Reports \ {"another's"}
          /\ what \in {"timeout", "cancelled"} =>
                /\ mSlot.state = "executing" => mSlot.request.op \notin Writes
                /\ mEffects.made # {} =>
                      mSlot.closing \/ mEffects.made \subseteq mEffects.erred
          /\ what = "timeout" => mEffects.made = {}
          /\ what = "ok" => mEffects.erred = {} /\ mSlot.state = "complete"
        BY <1>7 DEF Drops, HistoryInv, OneRequest
    <2>2. \A t \in Console!Tickets : mTold'[t] = IF t = mSlot.ticket THEN what ELSE mTold[t]
        BY <2>1 DEF ConsoleTypes
    <2>3. OneHistory'
        BY <1>3, <2>2 DEF HistoryInv, OneHistory, Drops
    <2>4. \A t \in Console!Tickets : t # mSlot.ticket => mTold'[t] = "nothing"
        BY <2>1, <2>2 DEF HistoryInv, OneHistory
    <2>5. Final'
        BY <1>3, <2>1, <2>2, <2>4 DEF Final
    <2>6. Console!ToldTruly'
        BY <1>3, <2>1, <2>2, <2>4 DEF Console!ToldTruly, Drops
    <2> QED BY <1>4, <1>5, <2>3, <2>5, <2>6 DEF HistoryInv
<1> QED BY <1>6, <1>7

LEMMA SubmitsKeeps ==
    ASSUME ConsoleTypes, HistoryInv, NEW e \in Executors, NEW request \in Requests,
           Console!SubmitRequest(e, request), UNCHANGED mOwner
    PROVE  HistoryInv'
<1>1. CASE mSlot.closing \/ mSlot.state # "idle" \/ mSlot.ticket = MaxTickets
    <2>1. mExec' = [Console!NoExec EXCEPT !.next = e.next]
        BY <1>1 DEF Console!SubmitRequest
    <2>2. mExec'.ticket = 0
        BY <2>1 DEF Console!NoExec
    <2>3. Aside
        BY <1>1, <2>2 DEF Aside, Console!SubmitRequest, Console!Untouched
    <2> QED BY <2>3, AsideKeeps
<1>2. CASE ~(mSlot.closing \/ mSlot.state # "idle" \/ mSlot.ticket = MaxTickets)
    <2>1. mOwner = None
        BY <1>2 DEF HistoryInv, OneRequest
    <2>2. mTold' = Console!Untold /\ mEffects'.made = {} /\ mEffects'.erred = {}
        BY <1>2, <2>1 DEF Console!SubmitRequest, Console!NoEffects
    <2>3. mSlot' = Console!Queued(request)
        BY <1>2 DEF Console!SubmitRequest
    <2>4. mSlot'.state = "queued" /\ mSlot'.ticket = mSlot.ticket + 1 /\ ~mSlot'.abandoned
        BY <2>3 DEF Console!Queued, ConsoleTypes, Exchanges
    <2>5. mExec'.ticket = mSlot.ticket + 1
        BY <1>2 DEF Console!SubmitRequest, Executors
    <2>6. mSlot'.ticket \in Console!Tickets
        BY <1>2, <2>4, ConsoleConstants DEF ConsoleTypes, Exchanges, Console!Tickets
    <2>7. OneRequest'
        BY <2>1, <2>4, <2>5, <2>6 DEF OneRequest
    <2>8. \A t \in Console!Tickets : mTold'[t] = "nothing"
        BY <2>2 DEF Console!Untold
    <2> QED BY <2>2, <2>4, <2>7, <2>8 DEF HistoryInv, OneHistory, Complete, Final,
                                           Console!ToldTruly
<1> QED BY <1>1, <1>2

\* The executor gives its request up, and what it says of it.
LEMMA CancelKeeps ==
    ASSUME ConsoleTypes, HistoryInv, NEW reported \in BOOLEAN,
           Console!ExecutorCancel(reported), UNCHANGED <<mOwner, mEffects>>
    PROVE  HistoryInv'
<1>1. mExec' = Given
    BY DEF Console!ExecutorCancel, Given
<1>2. mExec'.ticket = 0
    BY <1>1, GivenIs
<1>3. CASE Console!Mine /\ reported
    <2>1. mExec.ticket # 0 /\ mSlot.state # "idle"
        BY <1>3 DEF Console!Mine
    <2>2. mTold' = [mTold EXCEPT ![mExec.ticket] = Console!Cancelled]
        BY <1>3, <2>1 DEF Console!ExecutorCancel, Console!Says
    <2>3. Console!Cancelled \in {"cancelled", "unknown"}
        BY DEF Console!Cancelled
    <2>4. Console!Cancelled = "cancelled" =>
            /\ mSlot.state = "executing" => mSlot.request.op \notin Writes
            /\ mEffects.made # {} => mSlot.closing \/ mEffects.made \subseteq mEffects.erred
        BY <2>1 DEF Console!Cancelled, Console!Changes, HistoryInv, Complete, ConsoleTypes, Exchanges
    <2>5. Drops(Console!Cancelled)
        BY <1>2, <2>1, <2>2, <2>3, <2>4 DEF Drops, Reports, Console!ExecutorCancel
    <2> QED BY <2>5, DropsKeeps
<1>4. CASE ~(Console!Mine /\ reported)
    <2>1. Drops("unknown")
        BY <1>2, <1>4 DEF Drops, Console!ExecutorCancel
    <2> QED BY <2>1, DropsKeeps
<1> QED BY <1>3, <1>4

LEMMA RunCommandKeeps ==
    ASSUME ConsoleTypes, HistoryInv, Console!RunCommand
    PROVE  HistoryInv'
<1>1. CASE Aside
    BY <1>1, AsideKeeps
<1> DEFINE answer == IF Console!Mine /\ ~mSlot.abandoned THEN Console!Answer ELSE "unavailable"
<1>2. CASE ~Aside
    <2>1. mExec.ticket # 0 /\ ~mExec.ready /\ answer # "pending"
        BY <1>2 DEF Console!RunCommand, Aside, ConsoleTypes, Executors
    <2>2. CASE answer = "ok"
        <3>1. /\ mSlot' = Console!Free
              /\ mExec' = [mExec EXCEPT !.ticket = 0, !.ready = TRUE]
              /\ mTold' = Console!Says(mExec.ticket, IF mSlot.answer = mExec.ticket
                                                    THEN "ok" ELSE "another's")
              /\ UNCHANGED <<mOwner, mEffects>>
            BY <1>2, <2>1, <2>2 DEF Console!RunCommand, Aside
        <3>2. mSlot.state = "complete" /\ mSlot.status = "ok" /\ Console!Mine
            BY <2>2 DEF Console!Answer
        <3>3. mSlot.answer = mExec.ticket /\ mEffects.erred = {}
            BY <3>2 DEF Console!Mine, HistoryInv, Complete
        <3>4. mTold' = [mTold EXCEPT ![mExec.ticket] = "ok"]
            BY <2>1, <3>1, <3>3 DEF Console!Says
        <3>5. mExec'.ticket = 0
            BY <3>1 DEF ConsoleTypes, Executors
        <3>6. Drops("ok")
            BY <2>1, <3>1, <3>2, <3>3, <3>4, <3>5 DEF Drops, Reports, Console!GivenUp
        <3> QED BY <3>6, DropsKeeps
    <2>3. CASE answer # "ok"
        <3>1. /\ mSlot' = IF Console!Mine THEN Console!GivenUp ELSE mSlot
              /\ mExec' = Given
              /\ mTold' = Console!Says(mExec.ticket, answer)
              /\ UNCHANGED <<mOwner, mEffects>>
            BY <1>2, <2>1, <2>3 DEF Console!RunCommand, Given, Aside
        <3>2. mExec'.ticket = 0
            BY <3>1, GivenIs
        <3>3. mTold' = [mTold EXCEPT ![mExec.ticket] = answer]
            BY <2>1, <3>1 DEF Console!Says
        <3>4. /\ answer \in {"unavailable", "timeout", "unknown", "none"}
              /\ answer = "timeout" =>
                    /\ mSlot.state = "executing" => mSlot.request.op \notin Writes
                    /\ mEffects.made = {}
            BY <2>1, <2>3 DEF Console!Answer, Console!Mine, Console!Changes, HistoryInv, Complete,
                              ConsoleTypes, Exchanges
        <3> HIDE DEF answer
        <3>5. Drops(answer)
            BY <2>1, <3>1, <3>2, <3>3, <3>4 DEF Drops, Reports
        <3> QED BY <3>5, DropsKeeps
    <2> QED BY <2>2, <2>3
<1> QED BY <1>1, <1>2

\* The owner.
LEMMA DispatchKeeps ==
    ASSUME ConsoleTypes, HistoryInv, Console!Dispatch
    PROVE  HistoryInv'
<1>1. /\ mSlot.state = "queued" /\ mOwner = None
      /\ mEffects.made = {} /\ mEffects.erred = {}
      /\ UNCHANGED <<mExec, mEffects, mTold>> /\ mSlot.ticket \in Console!Tickets
      /\ ~mSlot.abandoned
    BY DEF Console!Dispatch, Console!Console, Console!History, HistoryInv, Complete, OneRequest,
           OneHistory
<1>2. \A t \in Console!Tickets : mTold'[t] = "nothing"
    BY <1>1 DEF HistoryInv, Final, ConsoleTypes
<1>3. CASE mSlot' = [mSlot EXCEPT !.state = "complete", !.status = "timeout"] /\ UNCHANGED mOwner
    <2>1. /\ mSlot'.state = "complete" /\ mSlot'.status = "timeout" /\ ~mSlot'.abandoned
          /\ mSlot'.ticket = mSlot.ticket
        BY <1>1, <1>3 DEF ConsoleTypes, Exchanges
    <2> QED BY <1>1, <1>2, <1>3, <2>1 DEF HistoryInv, OneRequest, OneHistory, Complete, Final,
                                           Console!ToldTruly
<1>4. CASE /\ mSlot' = [mSlot EXCEPT !.state = "executing"]
           /\ mOwner' = [op |-> mSlot.request.op, ticket |-> mSlot.ticket]
    <2>1. /\ mSlot'.state = "executing" /\ mSlot'.request = mSlot.request
          /\ mSlot'.ticket = mSlot.ticket
        BY <1>4 DEF ConsoleTypes, Exchanges
    <2>2. mOwner'.op = mSlot.request.op /\ mOwner'.ticket = mSlot.ticket
        BY <1>4
    <2>3. mOwner' # None
        <3>1. mOwner' \in [op : Reads \cup Writes \cup {None}, ticket : 0 .. MaxTickets]
            BY <1>4 DEF ConsoleTypes, Exchanges, Requests
        <3> QED BY <3>1, ConsoleConstants
    <2> QED BY <1>1, <1>2, <2>1, <2>2, <2>3 DEF HistoryInv, OneRequest, OneHistory, Complete, Final,
                                           Console!ToldTruly
<1> QED BY <1>3, <1>4 DEF Console!Dispatch

\* What an answer of the owner leaves in the history.
LEMMA EffectsAre ==
    ASSUME ConsoleTypes, NEW o \in Console!Outcomes, mOwner # None,
           mEffects' = IF o.made /\ mOwner.op \in Writes
                       THEN [made |-> mEffects.made \cup {mOwner.ticket},
                             erred |-> mEffects.erred
                                          \cup (IF o.status = "ok" THEN {} ELSE {mOwner.ticket})]
                       ELSE mEffects
    PROVE  /\ mEffects' \in Effected
           /\ mOwner.op \notin Writes => mEffects' = mEffects
           /\ mEffects'.made \subseteq mEffects.made \cup {mOwner.ticket}
           /\ mEffects'.erred = mEffects.erred
              \/ (mEffects'.erred = mEffects.erred \cup {mOwner.ticket} /\ o.status # "ok"
                  /\ mOwner.ticket \in mEffects'.made)
           /\ o.status # "ok" /\ mOwner.ticket \in mEffects'.made =>
                 mOwner.ticket \in mEffects'.erred \/ mOwner.ticket \in mEffects.made
           /\ o.status \in {"ok", "unavailable"}
           /\ mEffects.made \subseteq mEffects'.made
<1>1. mOwner.ticket \in Console!Tickets /\ mEffects \in Effected
    BY ConsoleConstants DEF ConsoleTypes
<1>2. o.status \in {"ok", "unavailable"}
    BY DEF Console!Outcomes
<1>3. CASE o.made /\ mOwner.op \in Writes
    <2> DEFINE made == mEffects.made \cup {mOwner.ticket}
               erred == mEffects.erred \cup (IF o.status = "ok" THEN {} ELSE {mOwner.ticket})
    <2>1. made \in SUBSET Console!Tickets /\ erred \in SUBSET Console!Tickets
        BY <1>1 DEF Effected
    <2>2. erred = IF o.status = "ok" THEN mEffects.erred ELSE mEffects.erred \cup {mOwner.ticket}
        OBVIOUS
    <2>3. made = mEffects.made \cup {mOwner.ticket}
        OBVIOUS
    <2>4. mEffects' = [made |-> made, erred |-> erred]
        BY <1>3
    <2> HIDE DEF made, erred
    <2>5. mEffects'.made = made /\ mEffects'.erred = erred /\ mEffects' \in Effected
        BY <2>1, <2>4 DEF Effected
    <2> QED BY <1>2, <1>3, <2>2, <2>3, <2>5
<1>4. CASE ~(o.made /\ mOwner.op \in Writes)
    BY <1>1, <1>2, <1>4 DEF Console!Outcomes
<1> QED BY <1>3, <1>4

LEMMA InspectedKeeps ==
    ASSUME ConsoleTypes, HistoryInv, Console!Inspected
    PROVE  HistoryInv' /\ mEffects' \in Effected
<1>1. PICK o \in Console!Outcomes :
        /\ mSlot' = IF mSlot.abandoned THEN Console!Free
                    ELSE [mSlot EXCEPT !.state = "complete", !.status = o.status,
                                       !.answer = mOwner.ticket]
        /\ mEffects' = IF o.made /\ mOwner.op \in Writes
                       THEN [made |-> mEffects.made \cup {mOwner.ticket},
                             erred |-> mEffects.erred
                                          \cup (IF o.status = "ok" THEN {} ELSE {mOwner.ticket})]
                       ELSE mEffects
    BY DEF Console!Inspected
<1>2. /\ mOwner # None /\ mOwner' = None /\ UNCHANGED <<mExec, mTold>>
      /\ mSlot.state = "executing" /\ mEffects.made = {} /\ mEffects.erred = {}
      /\ mOwner.ticket = mSlot.ticket
      /\ mOwner.op = mSlot.request.op /\ mSlot.ticket \in Console!Tickets
    BY DEF Console!Inspected, Console!Console, HistoryInv, OneRequest, OneHistory, Complete
<1> DEFINE status == o.status
<1>3. /\ mSlot'.ticket = mSlot.ticket /\ ~mSlot'.abandoned /\ mSlot'.closing = mSlot.closing
      /\ \/ mSlot.abandoned /\ mSlot'.state = "idle"
         \/ /\ ~mSlot.abandoned /\ mSlot'.state = "complete" /\ mSlot'.status = status
            /\ mSlot'.answer = mSlot.ticket /\ mSlot'.request = mSlot.request
    <2>1. CASE mSlot.abandoned
        BY <1>1, <2>1, FreeIs
    <2>2. CASE ~mSlot.abandoned
        BY <1>1, <1>2, <2>2 DEF ConsoleTypes, Exchanges
    <2> QED BY <2>1, <2>2
<1>4. /\ mEffects' \in Effected /\ status \in {"ok", "unavailable"}
      /\ mEffects'.made \subseteq {mSlot.ticket}
      /\ mSlot.request.op \notin Writes => mEffects'.made = {} /\ mEffects'.erred = {}
      /\ mEffects'.erred \subseteq mEffects'.made
      /\ status = "ok" => mEffects'.erred = {}
      /\ status # "ok" => mEffects'.made \subseteq mEffects'.erred
    BY <1>1, <1>2, EffectsAre
<1> HIDE DEF status
<1>5. \A t \in Console!Tickets :
            mTold[t] # "nothing" => /\ t = mSlot.ticket /\ mExec.ticket = 0 /\ mSlot.abandoned
                                    /\ mTold[t] # "ok"
                                    /\ (mTold[t] \in {"timeout", "cancelled"} =>
                                            mSlot.request.op \notin Writes)
    BY <1>2 DEF HistoryInv, OneHistory, Final
<1>6. OneRequest'
    BY <1>2, <1>3 DEF HistoryInv, OneRequest
<1>7. OneHistory' /\ Complete'
    BY <1>2, <1>3, <1>4, <1>5 DEF OneHistory, Complete
<1>8. Final'
    BY <1>2, <1>3, <1>5 DEF Final
<1>9. Console!ToldTruly'
    BY <1>2, <1>4, <1>5 DEF Console!ToldTruly, HistoryInv
<1> QED BY <1>4, <1>6, <1>7, <1>8, <1>9 DEF HistoryInv

\* The platform stops the console.
LEMMA ShutdownKeeps ==
    ASSUME ConsoleTypes, HistoryInv, Console!Shutdown
    PROVE  HistoryInv'
<1>1. /\ mOwner = None /\ UNCHANGED <<mOwner, mExec, mEffects, mTold>>
      /\ mSlot.state # "executing"
    BY DEF Console!Shutdown, Console!Console, Console!History, HistoryInv, OneRequest
<1> DEFINE state == IF mSlot.state = "queued" THEN "complete" ELSE mSlot.state
           status == IF mSlot.state = "complete" /\ Console!Changes(mSlot.request) THEN "unknown"
                     ELSE IF mSlot.state \in {"queued", "complete"} THEN "unavailable"
                          ELSE mSlot.status
<1>2. mSlot' = [mSlot EXCEPT !.closing = TRUE, !.state = state, !.status = status]
    BY DEF Console!Shutdown
<1>3. /\ mSlot'.closing /\ mSlot'.state = state /\ mSlot'.status = status
      /\ mSlot'.ticket = mSlot.ticket /\ mSlot'.abandoned = mSlot.abandoned
      /\ mSlot'.request = mSlot.request
    <2> HIDE DEF state, status
    <2> QED BY <1>2 DEF ConsoleTypes, Exchanges
<1>4. /\ state # "executing" /\ (state = "idle" <=> mSlot.state = "idle")
      /\ state # "queued"
      /\ state = "complete" => status \in {"unknown", "unavailable"}
    BY <1>1 DEF ConsoleTypes, Exchanges
<1>5. mEffects.made # {} /\ state = "complete" => mSlot.request.op \in Writes
    BY DEF HistoryInv, Complete
<1> HIDE DEF state, status
<1>6. OneRequest'
    BY <1>1, <1>3, <1>4 DEF HistoryInv, OneRequest
<1>7. OneHistory' /\ Complete'
    BY <1>1, <1>3, <1>4, <1>5 DEF HistoryInv, OneHistory, Complete
<1>8. Final' /\ Console!ToldTruly'
    BY <1>1, <1>3, <1>4 DEF HistoryInv, Final, Console!ToldTruly
<1> QED BY <1>6, <1>7, <1>8 DEF HistoryInv

LEMMA TickKeeps ==
    ASSUME ConsoleTypes, HistoryInv, Console!Tick
    PROVE  HistoryInv'
<1>1. PICK age : mSlot' = [mSlot EXCEPT !.age = age]
    BY DEF Console!Tick
<1>2. PICK left : mExec' = [mExec EXCEPT !.left = left]
    BY DEF Console!Tick
<1>3. /\ UNCHANGED <<mOwner, mEffects, mTold>> /\ mExec'.ticket = mExec.ticket
      /\ mSlot'.state = mSlot.state /\ mSlot'.request = mSlot.request
      /\ mSlot'.ticket = mSlot.ticket /\ mSlot'.abandoned = mSlot.abandoned
      /\ mSlot'.status = mSlot.status /\ mSlot'.answer = mSlot.answer
      /\ mSlot'.closing = mSlot.closing
    BY <1>1, <1>2 DEF ConsoleTypes, Exchanges, Executors, Console!Tick
<1> QED BY <1>3 DEF HistoryInv, OneRequest, OneHistory, Complete, Final, Console!ToldTruly

\* A line is executed.
ForgetFor(word) == [op |-> word, confirmed |-> FALSE]

LEMMA ForgetsIs ==
    ASSUME ConsoleTypes
    PROVE  /\ Console!Forgets(mExec) \in Executors /\ Console!Forgets(mExec).ticket = mExec.ticket
           /\ Console!Forgets(mExec).token = 0 /\ Console!Forgets(mExec).next = mExec.next
BY DEF ConsoleTypes, Executors, Console!Forgets

LEMMA ExecuteIs ==
    ASSUME ConsoleTypes, NEW piece \in Typed, Console!Execute(piece)
    PROVE  \/ /\ piece.what = "confirm" /\ Console!Confirms(piece) /\ mFresh' = None
              /\ Console!SubmitRequest(Console!Forgets(mExec),
                                       [op |-> mExec.request, confirmed |-> TRUE])
           \/ /\ piece.what \in Reads /\ mFresh' = None
              /\ Console!SubmitRequest(Console!Forgets(mExec), ForgetFor(piece.what))
           \/ /\ mSlot' = mSlot /\ Console!Untouched
              /\ \/ mExec' = Console!Forgets(mExec) /\ mFresh' = None
                 \/ mExec' = [Console!Forgets(mExec) EXCEPT !.active = TRUE] /\ mFresh' = None
                 \/ /\ piece.what \in Writes /\ mFresh' = piece.what
                    /\ mExec' = [mExec EXCEPT !.request = piece.what, !.next = mExec.next + 1,
                                              !.token = mExec.next + 1, !.left = Deadline]
              /\ \/ mCli' = [mCli EXCEPT !.line = << >>]
                 \/ mCli' = [mCli EXCEPT !.line = << >>, !.active = TRUE]
                 \/ mCli' = [mCli EXCEPT !.line = << >>, !.binary = TRUE]
<1> DEFINE word == piece.what
<1>1. CASE word = "confirm" /\ Console!Confirms(piece)
    <2>1. word \notin Reads /\ word \notin Writes
        BY <1>1, ConsoleConstants
    <2> QED BY <1>1, <2>1 DEF Console!Execute
<1>2. CASE word = "confirm" /\ ~Console!Confirms(piece)
    <2>1. word \notin Reads /\ word \notin Writes
        BY <1>2, ConsoleConstants
    <2> QED BY <1>2, <2>1 DEF Console!Execute
<1>3. CASE word = "host"
    <2>1. word \notin Reads /\ word \notin Writes
        BY <1>3, ConsoleConstants
    <2> QED BY <1>3, <2>1 DEF Console!Execute
<1>4. CASE word = "follow"
    <2>1. word \notin Reads /\ word \notin Writes
        BY <1>4, ConsoleConstants
    <2> QED BY <1>4, <2>1 DEF Console!Execute
<1>5. CASE word \in Reads
    <2>1. word \notin {"confirm", "host", "follow"}
        BY <1>5, ConsoleConstants
    <2> QED BY <1>5, <2>1 DEF Console!Execute, ForgetFor
<1>6. CASE word \in Writes /\ mExec.next < MaxPrompts
    <2>1. word \notin {"confirm", "host", "follow"} /\ word \notin Reads
        BY <1>6, ConsoleConstants
    <2> QED BY <1>6, <2>1 DEF Console!Execute
<1>7. CASE /\ word \notin {"confirm", "host", "follow"} /\ word \notin Reads
           /\ ~(word \in Writes /\ mExec.next < MaxPrompts)
    BY <1>7 DEF Console!Execute
<1> QED BY <1>1, <1>2, <1>3, <1>4, <1>5, <1>6, <1>7

-----------------------------------------------------------------------------
(* The steps, by what they do to requests.                                 *)

Quiet == UNCHANGED <<mExec, mSlot, mOwner, mEffects, mTold, mFresh>>
Cancels == /\ Console!ExecutorCancel(TRUE) \/ Console!ExecutorCancel(FALSE)
           /\ mFresh' = None /\ UNCHANGED <<mOwner, mEffects>>
Executes == /\ Len(mCli.line) = 1 /\ Console!Execute(Head(mCli.line)) /\ UNCHANGED mOwner

\* What a byte does once it is read.
Consumes(piece) ==
    \/ /\ mCli' = [mCli EXCEPT !.line = << >>, !.active = FALSE] /\ Cancels
    \/ /\ mCli' = mCli /\ Quiet
    \/ Executes
    \/ /\ mCli' = [mCli EXCEPT !.line = << >>] /\ Cancels
    \/ /\ mCli' = [mCli EXCEPT !.line = Console!Joined(mCli.line, piece)] /\ Quiet

LEMMA ReadIs ==
    ASSUME ConsoleTypes, Console!Read
    PROVE  /\ mPc = "read" /\ mUsb' = Console!Noticed /\ mRx # << >> /\ ~Console!Seen
           /\ mPc' = "run" /\ Consumes(Head(mRx))
           /\ mRx' = IF mCli'.binary THEN << >> ELSE Tail(mRx)
<1> DEFINE piece == Head(mRx)
           entered == piece.what = "enter" /\ ~mCli.active
<1>8. Len(mCli.line) \in Nat /\ (mCli.line = << >> <=> Len(mCli.line) = 0)
    <2>1. mCli.line \in Seq(Typed)
        BY DEF ConsoleTypes, Sessions
    <2> QED BY <2>1, EmptySeq
<1>1. CASE piece.what = "break"
    BY <1>1 DEF Console!Read, Consumes, Cancels
<1>2. CASE piece.what # "break" /\ mCli.active
    BY <1>2 DEF Console!Read, Consumes, Quiet, Console!History
<1>3. CASE entered /\ Len(mCli.line) = 1
    <2>1. piece.what # "break" /\ ~mCli.active /\ mCli.line # << >>
        BY <1>3
    <2> QED BY <1>3, <2>1 DEF Console!Read, Consumes, Executes
<1>4. CASE entered /\ Len(mCli.line) > 1
    <2>1. piece.what # "break" /\ ~mCli.active /\ mCli.line # << >> /\ Len(mCli.line) # 1
        BY <1>4, <1>8
    <2> QED BY <1>4, <2>1 DEF Console!Read, Consumes, Cancels
<1>5. CASE entered /\ mCli.line = << >>
    <2>1. piece.what # "break" /\ ~mCli.active /\ Len(mCli.line) = 0
        BY <1>5, <1>8
    <2> QED BY <1>5, <2>1 DEF Console!Read, Consumes, Quiet, Console!History
<1>6. CASE piece.what # "break" /\ ~mCli.active /\ ~entered
    BY <1>6 DEF Console!Read, Consumes, Quiet, Console!History
<1>7. mCli.line = << >> \/ Len(mCli.line) = 1 \/ Len(mCli.line) > 1
    <2> DEFINE n == Len(mCli.line)
    <2>1. n \in Nat /\ (n = 0 => mCli.line = << >>)
        BY <1>8
    <2> HIDE DEF n
    <2>2. mCli.line = << >> \/ n = 1 \/ n > 1
        BY <2>1
    <2> QED BY <2>2 DEF n
<1> QED BY <1>1, <1>2, <1>3, <1>4, <1>5, <1>6, <1>7

LEMMA ConsoleSteps ==
    ASSUME ConsoleTypes, Console!Next
    PROVE  \/ Quiet \/ Cancels \/ Executes
           \/ Console!RunCommand \/ Console!Dispatch \/ Console!Inspected
           \/ Console!Shutdown \/ Console!Tick
<1>1. CASE Console!Plug \/ Console!Unplug \/ Console!Type \/ Console!StopConsole
           \/ Console!Flush \/ Console!ReadNothing \/ Console!Binary
    BY <1>1 DEF Console!Plug, Console!Unplug, Console!Type, Console!StopConsole, Console!Flush,
                Console!ReadNothing, Console!Binary, Console!Console, Console!History, Quiet
<1>2. CASE Console!Look \/ Console!Poll
    BY <1>2 DEF Console!Look, Console!Poll, Console!SessionReset, Quiet, Cancels
<1>3. CASE Console!OutputFull \/ Console!Leave
    BY <1>3 DEF Console!OutputFull, Console!Leave, Console!SessionReset, Cancels
<1>4. CASE Console!Read
    BY <1>4, ReadIs DEF Consumes
<1> QED BY <1>1, <1>2, <1>3, <1>4 DEF Console!Next, Console!ConsoleTask, Console!Owner

\* The line that is executed is of pieces that were typed.
LEMMA ExecutedIsTyped ==
    ASSUME ConsoleTypes, Len(mCli.line) = 1
    PROVE  Head(mCli.line) \in Typed
<1>1. mCli.line \in Seq(Typed)
    BY DEF ConsoleTypes, Sessions
<1> QED BY <1>1

\* The request a confirmation or a command makes.
LEMMA RequestIs ==
    ASSUME ConsoleTypes, NEW piece \in Typed
    PROVE  /\ [op |-> mExec.request, confirmed |-> TRUE] \in Requests
           /\ piece.what \in Reads => ForgetFor(piece.what) \in Requests
BY DEF ConsoleTypes, Executors, Requests, ForgetFor

LEMMA HistoryStep ==
    ASSUME ConsoleTypes, HistoryInv, Console!Next
    PROVE  HistoryInv'
<1>1. CASE Quiet
    <2>1. Aside
        BY <1>1 DEF Quiet, Aside
    <2> QED BY <2>1, AsideKeeps
<1>2. CASE Cancels
    BY <1>2, CancelKeeps DEF Cancels
<1>3. CASE Executes
    <2> DEFINE piece == Head(mCli.line)
    <2>1. piece \in Typed /\ UNCHANGED mOwner /\ Console!Execute(piece)
        BY <1>3, ExecutedIsTyped DEF Executes
    <2> HIDE DEF piece
    <2>2. CASE Aside
        BY <2>2, AsideKeeps
    <2>3. CASE \E r \in Requests : Console!SubmitRequest(Console!Forgets(mExec), r)
        BY <2>1, <2>3, ForgetsIs, SubmitsKeeps
    <2>4. CASE /\ mSlot' = mSlot /\ Console!Untouched
              /\ \/ mExec' = Console!Forgets(mExec)
                 \/ mExec' = [Console!Forgets(mExec) EXCEPT !.active = TRUE]
                 \/ mExec' = [mExec EXCEPT !.request = piece.what, !.next = mExec.next + 1,
                                           !.token = mExec.next + 1, !.left = Deadline]
        <3>1. mExec'.ticket = mExec.ticket
            BY <2>4, ForgetsIs DEF ConsoleTypes, Executors
        <3>2. Aside
            BY <2>1, <2>4, <3>1 DEF Aside, Console!Untouched
        <3> QED BY <3>2, AsideKeeps
    <2> QED BY <2>1, <2>3, <2>4, ExecuteIs, RequestIs
<1> QED BY <1>1, <1>2, <1>3, ConsoleSteps, RunCommandKeeps, DispatchKeeps, InspectedKeeps,
           ShutdownKeeps, TickKeeps

-----------------------------------------------------------------------------
(* Types.                                                                  *)

RequestTypes ==
    /\ mExec \in Executors /\ mSlot \in Exchanges
    /\ mOwner \in [op : Reads \cup Writes \cup {None}, ticket : Console!Tickets] \cup {None}
    /\ mEffects \in Effected
    /\ mTold \in [Console!Tickets -> Reports]

LEMMA SubmitsTypes ==
    ASSUME ConsoleTypes, NEW e \in Executors, NEW request \in Requests,
           Console!SubmitRequest(e, request), UNCHANGED mOwner
    PROVE  RequestTypes'
<1>1. Console!Untold \in [Console!Tickets -> Reports] /\ Console!NoEffects \in Effected
    BY DEF Console!Untold, Reports, Console!NoEffects, Effected
<1>2. /\ mEffects' \in Effected /\ mTold' \in [Console!Tickets -> Reports]
      /\ UNCHANGED mOwner
    BY <1>1 DEF Console!SubmitRequest, Console!Untouched, ConsoleTypes
<1>3. CASE mSlot.closing \/ mSlot.state # "idle" \/ mSlot.ticket = MaxTickets
    <2>1. mExec' = [Console!NoExec EXCEPT !.next = e.next] /\ mSlot' = mSlot
        BY <1>3 DEF Console!SubmitRequest
    <2>2. mExec' \in Executors
        BY <2>1 DEF Console!NoExec, Executors
    <2> QED BY <1>2, <2>1, <2>2 DEF RequestTypes, ConsoleTypes
<1>4. CASE ~(mSlot.closing \/ mSlot.state # "idle" \/ mSlot.ticket = MaxTickets)
    <2>1. /\ mSlot' = Console!Queued(request)
          /\ mExec' = [e EXCEPT !.active = TRUE, !.ticket = mSlot.ticket + 1, !.ready = FALSE]
        BY <1>4 DEF Console!SubmitRequest
    <2>2. mSlot.ticket + 1 \in 0 .. MaxTickets /\ mSlot.ticket + 1 \in Nat
        BY <1>4, ConsoleConstants DEF ConsoleTypes, Exchanges
    <2>3. mSlot' \in Exchanges
        BY <2>1, <2>2 DEF Console!Queued, ConsoleTypes, Exchanges
    <2>4. mExec' \in Executors
        BY <2>1, <2>2 DEF Executors
    <2> QED BY <1>2, <2>3, <2>4 DEF RequestTypes, ConsoleTypes
<1> QED BY <1>3, <1>4

\* What is told is told of a ticket.
LEMMA SaysTypes ==
    ASSUME ConsoleTypes, HistoryInv, NEW what \in Reports,
           mTold' = mTold \/ mTold' = Console!Says(mExec.ticket, what)
    PROVE  mTold' \in [Console!Tickets -> Reports]
BY DEF Console!Says, ConsoleTypes

LEMMA RequestTypesStep ==
    ASSUME ConsoleTypes, HistoryInv, Console!Next
    PROVE  RequestTypes'
<1>1. CASE Quiet
    BY <1>1 DEF Quiet, ConsoleTypes, RequestTypes
<1>2. CASE Cancels
    <2>1. mExec' = Given /\ mSlot' \in {mSlot, Console!GivenUp}
        BY <1>2 DEF Cancels, Console!ExecutorCancel, Given
    <2>2. mTold' = mTold \/ mTold' = Console!Says(mExec.ticket, Console!Cancelled)
        BY <1>2 DEF Cancels, Console!ExecutorCancel
    <2>3. Console!Cancelled \in Reports
        BY DEF Console!Cancelled, Reports
    <2>4. mTold' \in [Console!Tickets -> Reports]
        BY <2>2, <2>3, SaysTypes
    <2> QED BY <1>2, <2>1, <2>4, GivenIs, GivenUpIs DEF Cancels, ConsoleTypes, RequestTypes
<1>3. CASE Executes
    <2> DEFINE piece == Head(mCli.line)
    <2>1. piece \in Typed /\ UNCHANGED mOwner /\ Console!Execute(piece)
        BY <1>3, ExecutedIsTyped DEF Executes
    <2> HIDE DEF piece
    <2>2. CASE \E r \in Requests : Console!SubmitRequest(Console!Forgets(mExec), r)
        BY <2>1, <2>2, ForgetsIs, SubmitsTypes
    <2>3. CASE /\ mSlot' = mSlot /\ Console!Untouched
              /\ \/ mExec' = Console!Forgets(mExec)
                 \/ mExec' = [Console!Forgets(mExec) EXCEPT !.active = TRUE]
                 \/ /\ piece.what \in Writes
                    /\ mExec' = [mExec EXCEPT !.request = piece.what, !.next = mExec.next + 1,
                                              !.token = mExec.next + 1, !.left = Deadline]
        <3>1. mExec' \in Executors
            <4>1. CASE mExec' = Console!Forgets(mExec)
                BY <4>1, ForgetsIs
            <4>2. CASE mExec' = [Console!Forgets(mExec) EXCEPT !.active = TRUE]
                BY <4>2, ForgetsIs DEF Executors
            <4>3. CASE /\ piece.what \in Writes
                       /\ mExec' = [mExec EXCEPT !.request = piece.what, !.next = mExec.next + 1,
                                                 !.token = mExec.next + 1, !.left = Deadline]
                <5>1. mExec.next + 1 \in Nat /\ Deadline \in Nat
                    BY ConsoleConstants DEF ConsoleTypes, Executors
                <5> QED BY <4>3, <5>1 DEF ConsoleTypes, Executors
            <4> QED BY <2>3, <4>1, <4>2, <4>3
        <3> QED BY <2>1, <2>3, <3>1 DEF Console!Untouched, ConsoleTypes, RequestTypes
    <2> QED BY <2>1, <2>2, <2>3, ExecuteIs, RequestIs
<1>4. CASE Console!RunCommand
    <2> DEFINE answer == IF Console!Mine /\ ~mSlot.abandoned THEN Console!Answer ELSE "unavailable"
    <2>1. answer \in Reports \cup {"pending"}
        BY DEF Console!Answer, ConsoleTypes, Exchanges, Reports
    <2>2. \/ UNCHANGED <<mExec, mSlot, mTold>>
          \/ mExec' = [mExec EXCEPT !.active = FALSE, !.ready = FALSE] /\ UNCHANGED <<mSlot, mTold>>
          \/ /\ mSlot' = Console!Free /\ mExec' = [mExec EXCEPT !.ticket = 0, !.ready = TRUE]
             /\ \/ mTold' = Console!Says(mExec.ticket, "ok")
                \/ mTold' = Console!Says(mExec.ticket, "another's")
          \/ /\ mSlot' \in {mSlot, Console!GivenUp} /\ mExec' = Given /\ answer # "pending"
             /\ mTold' = Console!Says(mExec.ticket, answer)
        BY <1>4 DEF Console!RunCommand, Given
    <2>3. mTold' \in [Console!Tickets -> Reports]
        <3>1. "ok" \in Reports /\ "another's" \in Reports
            BY DEF Reports
        <3>2. mTold' = mTold \/ \E what \in Reports : mTold' = Console!Says(mExec.ticket, what)
            <4>1. \/ mTold' = mTold \/ mTold' = Console!Says(mExec.ticket, "ok")
                  \/ mTold' = Console!Says(mExec.ticket, "another's")
                  \/ mTold' = Console!Says(mExec.ticket, answer) /\ answer \in Reports
                <5> HIDE DEF answer
                <5>1. answer # "pending" => answer \in Reports
                    BY <2>1
                <5> QED BY <2>2, <5>1
            <4> HIDE DEF answer
            <4> QED BY <3>1, <4>1
        <3>3. CASE mTold' = mTold
            BY <3>3 DEF ConsoleTypes
        <3>4. CASE \E what \in Reports : mTold' = Console!Says(mExec.ticket, what)
            <4>1. PICK what \in Reports : mTold' = Console!Says(mExec.ticket, what)
                BY <3>4
            <4> QED BY <4>1, SaysTypes
        <3> QED BY <3>2, <3>3, <3>4
    <2>4. mExec' \in Executors
        BY <2>2, GivenIs DEF ConsoleTypes, Executors
    <2>5. mSlot' \in Exchanges
        BY <2>2, FreeIs, GivenUpIs DEF ConsoleTypes
    <2>6. UNCHANGED <<mOwner, mEffects>>
        BY <1>4 DEF Console!RunCommand
    <2> QED BY <2>3, <2>4, <2>5, <2>6 DEF ConsoleTypes, RequestTypes
<1>5. CASE Console!Dispatch
    <2>1. /\ UNCHANGED <<mExec, mEffects, mTold>>
          /\ mSlot.ticket \in Console!Tickets
        BY <1>5 DEF Console!Dispatch, Console!Console, Console!History, HistoryInv, OneRequest
    <2>2. mSlot' \in Exchanges
        BY <1>5 DEF Console!Dispatch, ConsoleTypes, Exchanges
    <2>3. mOwner' = mOwner \/ mOwner' \in [op : Reads \cup Writes \cup {None},
                                           ticket : Console!Tickets]
        BY <1>5, <2>1 DEF Console!Dispatch, ConsoleTypes, Exchanges, Requests
    <2> QED BY <2>1, <2>2, <2>3 DEF ConsoleTypes, RequestTypes
<1>6. CASE Console!Inspected
    <2>1. /\ UNCHANGED <<mExec, mTold>> /\ mOwner' = None /\ mOwner # None
          /\ mOwner.ticket \in Console!Tickets
        BY <1>6 DEF Console!Inspected, Console!Console, ConsoleTypes
    <2>2. mOwner.ticket \in Nat
        BY <2>1 DEF Console!Tickets
    <2>3. mSlot' \in Exchanges /\ mEffects' \in Effected
        <3>1. PICK o \in Console!Outcomes :
                mSlot' = IF mSlot.abandoned THEN Console!Free
                         ELSE [mSlot EXCEPT !.state = "complete", !.status = o.status,
                                            !.answer = mOwner.ticket]
            BY <1>6 DEF Console!Inspected
        <3>2. mEffects' \in Effected
            BY <1>6, InspectedKeeps
        <3>3. CASE mSlot.abandoned
            BY <3>1, <3>2, <3>3, FreeIs
        <3>4. CASE ~mSlot.abandoned
            <4>1. o.status \in {"ok", "unavailable"}
                BY DEF Console!Outcomes
            <4> QED BY <2>2, <3>1, <3>2, <3>4, <4>1 DEF ConsoleTypes, Exchanges
        <3> QED BY <3>3, <3>4
    <2> QED BY <2>1, <2>3 DEF ConsoleTypes, RequestTypes
<1>7. CASE Console!Shutdown
    <2> DEFINE state == IF mSlot.state = "queued" THEN "complete" ELSE mSlot.state
               status == IF mSlot.state = "complete" /\ Console!Changes(mSlot.request) THEN "unknown"
                         ELSE IF mSlot.state \in {"queued", "complete"} THEN "unavailable"
                              ELSE mSlot.status
    <2>1. mSlot' = [mSlot EXCEPT !.closing = TRUE, !.state = state, !.status = status]
        BY <1>7 DEF Console!Shutdown
    <2>2. mSlot' \in Exchanges
        BY <2>1 DEF ConsoleTypes, Exchanges
    <2> QED BY <1>7, <2>2 DEF Console!Shutdown, Console!Console, Console!History, ConsoleTypes,
                              RequestTypes
<1>8. CASE Console!Tick
    <2> DEFINE age == IF mSlot.state \in {"queued", "executing"} /\ mSlot.age < Patience
                      THEN mSlot.age + 1 ELSE mSlot.age
               left == IF mExec.left > 0 THEN mExec.left - 1 ELSE 0
    <2>1. mSlot' = [mSlot EXCEPT !.age = age] /\ mExec' = [mExec EXCEPT !.left = left]
        BY <1>8 DEF Console!Tick
    <2>2. age \in Nat /\ left \in Nat
        BY DEF ConsoleTypes, Exchanges, Executors
    <2> HIDE DEF age, left
    <2>3. mSlot' \in Exchanges /\ mExec' \in Executors
        BY <2>1, <2>2 DEF ConsoleTypes, Exchanges, Executors
    <2> QED BY <1>8, <2>3 DEF Console!Tick, ConsoleTypes, RequestTypes
<1> QED BY <1>1, <1>2, <1>3, <1>4, <1>5, <1>6, <1>7, <1>8, ConsoleSteps

-----------------------------------------------------------------------------
(* Lines and the connections they were typed in.                           *)

\* All of it was typed in the connection that is there, whose end nobody has seen.
Own(text, u) == \A i \in 1 .. Len(text) : text[i].cable = u.cable /\ ~u.noted
NoFrame(text) == \A i \in 1 .. Len(text) : text[i].what # "frame"

LineInv ==
    /\ mUsb.noted => ~mUsb.up
    /\ mPc = "read" => ~mCli.binary /\ mCli.on
    /\ mCli.line # << >> => mCli.on
    /\ mUsb.latch \/ Own(mCli.line, mUsb)
    /\ Console!LineIsOwn
    /\ (mUsb.latch /\ mPc # "look") \/ Own(mRx, mUsb)
    /\ ~mCli.binary => NoFrame(mRx)

LineTypes == mUsb \in Cables /\ mRx \in Seq(Typed) /\ mCli \in Sessions

LEMMA NothingTyped ==
    ASSUME NEW u
    PROVE  << >> \in Seq(Typed) /\ Own(<< >>, u) /\ NoFrame(<< >>)
BY DEF Own, NoFrame

LEMMA NoticedIs ==
    ASSUME ConsoleTypes, NEW u, u = Console!Noticed
    PROVE  /\ u \in Cables /\ u.up = mUsb.up /\ u.cable = mUsb.cable
           /\ u.latch = Console!Seen /\ u.latch = (mUsb.latch \/ ~mUsb.up)
           /\ u.noted = (mUsb.noted \/ ~mUsb.up)
BY DEF ConsoleTypes, Cables, Console!Noticed, Console!Seen

\* What is kept of a text through a look at the cable.
LEMMA NoticedKeeps ==
    ASSUME ConsoleTypes, LineInv, NEW u, u = Console!Noticed
    PROVE  /\ u \in Cables /\ (u.noted => ~u.up)
           /\ u.latch \/ Own(mCli.line, u)
           /\ u.latch \/ Own(mRx, u)
           /\ u.latch = Console!Seen
BY NoticedIs DEF LineInv, Own

Place(k) == [k EXCEPT !.what = IF @ = "frame" THEN @ ELSE "words", !.token = 0]

LEMMA PlaceIs ==
    ASSUME NEW k \in Typed
    PROVE  /\ Place(k) \in Typed /\ Place(k).cable = k.cable
           /\ k.what # "frame" => Place(k).what # "frame"
BY DEF Typed, Words, Place

LEMMA JoinedIs ==
    ASSUME NEW line \in Seq(Typed), NEW piece \in Typed, NEW u, NEW r,
           r = Console!Joined(line, piece),
           Own(line, u), piece.cable = u.cable, ~u.noted, NoFrame(line), piece.what # "frame"
    PROVE  r \in Seq(Typed) /\ Own(r, u) /\ NoFrame(r)
<1>1. CASE line = << >>
    <2>1. r = <<piece>>
        BY <1>1 DEF Console!Joined
    <2> QED BY <2>1 DEF Own, NoFrame
<1>2. CASE line # << >> /\ Len(line) = 1
    <2>1. r = <<Place(line[1]), Place(piece)>>
        BY <1>2 DEF Console!Joined, Place
    <2>2. line[1] \in Typed /\ line[1].cable = u.cable /\ line[1].what # "frame"
        BY <1>2 DEF Own, NoFrame
    <2> DEFINE a == Place(line[1])
               b == Place(piece)
    <2>3. /\ a \in Typed /\ a.cable = u.cable /\ a.what # "frame"
          /\ b \in Typed /\ b.cable = u.cable /\ b.what # "frame"
        BY <2>2, PlaceIs
    <2>4. r = <<a, b>>
        BY <2>1
    <2> HIDE DEF a, b
    <2> QED BY <2>3, <2>4 DEF Own, NoFrame
<1>3. CASE line # << >> /\ Len(line) # 1
    <2>1. r = line
        BY <1>3 DEF Console!Joined
    <2> QED BY <2>1
<1> QED BY <1>1, <1>2, <1>3

LEMMA TailKeeps ==
    ASSUME NEW text \in Seq(Typed), text # << >>, NEW u
    PROVE  /\ Head(text) \in Typed /\ Tail(text) \in Seq(Typed)
           /\ Own(text, u) => Own(Tail(text), u) /\ Head(text).cable = u.cable /\ ~u.noted
           /\ NoFrame(text) => NoFrame(Tail(text)) /\ Head(text).what # "frame"
<1> DEFINE n == Len(text)
           r == Tail(text)
<1>1. n \in Nat \ {0} /\ Head(text) = text[1] /\ r \in Seq(Typed) /\ Len(r) = n - 1
      /\ \A i \in 1 .. (n - 1) : r[i] = text[i + 1]
    BY EmptySeq, HeadTailProperties, LenProperties
<1>2. 1 \in 1 .. n /\ \A i \in 1 .. (n - 1) : i + 1 \in 1 .. n
    BY <1>1
<1>3. text[1] \in Typed
    BY <1>1
<1> HIDE DEF n, r
<1>4. Own(text, u) => Own(r, u) /\ text[1].cable = u.cable /\ ~u.noted
    BY <1>1, <1>2 DEF Own, n
<1>5. NoFrame(text) => NoFrame(r) /\ text[1].what # "frame"
    BY <1>1, <1>2 DEF NoFrame, n
<1> QED BY <1>1, <1>3, <1>4, <1>5 DEF r

\* A step of the line: the text is as it was, gone, or of the connection that is there.
LineStep ==
    /\ LineTypes'
    /\ (mUsb.noted => ~mUsb.up)'
    /\ (mPc = "read" => ~mCli.binary /\ mCli.on)'
    /\ (mCli.line # << >> => mCli.on)'
    /\ (mUsb.latch \/ Own(mCli.line, mUsb))'
    /\ \/ mCli'.line = mCli.line
       \/ Own(mCli.line, mUsb)' /\ NoFrame(mCli.line)'
    /\ ((mUsb.latch /\ mPc # "look") \/ Own(mRx, mUsb))'
    /\ (~mCli.binary => NoFrame(mRx))'

LEMMA LineStepKeeps ==
    ASSUME LineInv, LineStep
    PROVE  LineInv' /\ LineTypes'
<1>1. CASE mCli'.line = mCli.line
    <2>1. Console!LineIsOwn'
        BY <1>1 DEF LineInv, Console!LineIsOwn
    <2> QED BY <2>1 DEF LineInv, LineStep
<1>2. CASE Own(mCli.line, mUsb)' /\ NoFrame(mCli.line)'
    <2>1. Console!LineIsOwn'
        BY <1>2 DEF Own, NoFrame, Console!LineIsOwn
    <2> QED BY <2>1 DEF LineInv, LineStep
<1> QED BY <1>1, <1>2 DEF LineStep

\* Nothing of the session is left.
Reset == /\ mCli' = [on |-> FALSE, line |-> << >>, active |-> FALSE, binary |-> FALSE]
         /\ mRx' = << >>

LEMMA ResetSteps ==
    ASSUME ConsoleTypes, Reset, mUsb' \in Cables, mUsb'.noted => ~mUsb'.up, mPc' # "read"
    PROVE  LineStep
<1>1. mCli' \in Sessions /\ mCli'.line = << >>
    BY NothingTyped DEF Reset, Sessions
<1> QED BY <1>1, NothingTyped DEF Reset, LineStep, LineTypes

\* The cable and the keys.
LEMMA CableSteps ==
    ASSUME ConsoleTypes, LineInv, Console!Plug \/ Console!Unplug
    PROVE  LineStep
<1>1. /\ mUsb' \in Cables /\ mUsb'.latch = mUsb.latch /\ (mUsb'.noted => ~mUsb'.up)
      /\ mUsb.noted \/ (mUsb'.cable = mUsb.cable /\ ~mUsb'.noted)
         \/ (mUsb'.cable = mUsb.cable /\ mUsb'.noted = mUsb.noted)
    <2>1. CASE Console!Plug
        <3> DEFINE c == IF mUsb.noted THEN 1 - mUsb.cable ELSE mUsb.cable
        <3>1. c \in {0, 1} /\ (mUsb.noted \/ c = mUsb.cable)
            BY DEF ConsoleTypes, Cables
        <3>2. mUsb' = [mUsb EXCEPT !.up = TRUE, !.noted = FALSE, !.cable = c]
            BY <2>1 DEF Console!Plug
        <3> HIDE DEF c
        <3> QED BY <3>1, <3>2 DEF ConsoleTypes, Cables
    <2>2. CASE Console!Unplug
        BY <2>2 DEF Console!Unplug, ConsoleTypes, Cables
    <2> QED BY <2>1, <2>2
<1>2. UNCHANGED <<mPc, mCli, mRx>>
    BY DEF Console!Plug, Console!Unplug, Console!Console
<1>3. \A text : Own(text, mUsb) => Own(text, mUsb')
    <2>1. CASE mUsb.noted
        BY <2>1 DEF Own
    <2>2. CASE ~mUsb.noted
        BY <1>1, <2>2 DEF Own, ConsoleTypes, Cables
    <2> QED BY <2>1, <2>2 DEF ConsoleTypes, Cables
<1> QED BY <1>1, <1>2, <1>3 DEF LineInv, LineStep, LineTypes, ConsoleTypes

LEMMA TypeSteps ==
    ASSUME ConsoleTypes, LineInv, Console!Type
    PROVE  LineStep
<1>1. PICK piece \in IF mCli.binary THEN {Console!Frame} ELSE Console!Pieces :
            mRx' = Append(mRx, piece)
    BY DEF Console!Type
<1>2. /\ piece \in Typed /\ piece.cable = mUsb.cable
      /\ ~mCli.binary => piece.what # "frame"
    <2>1. CASE mCli.binary
        BY <1>1, <2>1 DEF Console!Frame, Typed, Words, ConsoleTypes, Cables
    <2>2. CASE ~mCli.binary
        BY <1>1, <2>2, ConsoleConstants DEF Console!Pieces, Console!Ops, Typed, Words, ConsoleTypes, Cables
    <2> QED BY <2>1, <2>2
<1>3. UNCHANGED <<mUsb, mPc, mCli>> /\ ~mUsb.noted
    BY DEF Console!Type, LineInv, ConsoleTypes, Cables
<1>4. mRx \in Seq(Typed)
    BY DEF ConsoleTypes
<1> DEFINE n == Len(mRx)
<1>5. /\ n \in Nat /\ mRx' \in Seq(Typed) /\ Len(mRx') = n + 1
      /\ \A i \in 1 .. n : mRx'[i] = mRx[i]
      /\ mRx'[n + 1] = piece
    BY <1>1, <1>2, <1>4, AppendProperties, LenProperties
<1>6. \A i \in 1 .. (n + 1) : i \in 1 .. n \/ i = n + 1
    BY <1>5
<1> HIDE DEF n
<1>7. Own(mRx, mUsb) => Own(mRx', mUsb)
    BY <1>2, <1>3, <1>5, <1>6 DEF Own, n
<1>8. ~mCli.binary /\ NoFrame(mRx) => NoFrame(mRx')
    BY <1>2, <1>5, <1>6 DEF NoFrame, n
<1> QED BY <1>3, <1>5, <1>7, <1>8 DEF LineInv, LineStep, LineTypes, ConsoleTypes

\* The task looks at the cable.
LEMMA LookSteps ==
    ASSUME ConsoleTypes, LineInv, Console!Flush \/ Console!Look \/ Console!Poll
    PROVE  LineStep
<1>1. CASE Console!Flush
    <2>1. mUsb' = Console!Noticed /\ mCli' = mCli /\ mPc' = "look"
          /\ mRx' = IF Console!Seen THEN << >> ELSE mRx
        BY <1>1 DEF Console!Flush
    <2>2. /\ mUsb' \in Cables /\ (mUsb'.noted => ~mUsb'.up) /\ mUsb'.latch = Console!Seen
          /\ mUsb'.latch \/ Own(mCli.line, mUsb')
          /\ mUsb'.latch \/ Own(mRx, mUsb')
        BY <2>1, NoticedKeeps
    <2>3. mRx' \in Seq(Typed) /\ Own(mRx', mUsb') /\ (~mCli.binary => NoFrame(mRx'))
        BY <2>1, <2>2, NothingTyped DEF LineInv, ConsoleTypes
    <2> QED BY <2>1, <2>2, <2>3 DEF LineInv, LineStep, LineTypes, ConsoleTypes
<1>2. CASE Console!Look
    <2>1. mUsb' = [mUsb EXCEPT !.latch = FALSE] /\ mPc = "look" /\ mPc' = "poll"
        BY <1>2 DEF Console!Look
    <2>2. /\ mUsb' \in Cables /\ mUsb'.cable = mUsb.cable /\ mUsb'.noted = mUsb.noted
          /\ mUsb'.up = mUsb.up
        BY <2>1 DEF ConsoleTypes, Cables
    <2>3. CASE mUsb.latch /\ mCli.on
        <3>1. Reset
            BY <1>2, <2>3 DEF Console!Look, Console!SessionReset, Reset
        <3> QED BY <2>1, <2>2, <3>1, ResetSteps DEF LineInv
    <2>4. CASE ~(mUsb.latch /\ mCli.on)
        <3>1. UNCHANGED <<mCli, mRx>>
            BY <1>2, <2>4 DEF Console!Look
        <3>2. Own(mRx, mUsb') /\ Own(mCli.line, mUsb')
            <4>1. Own(mRx, mUsb)
                BY <2>1 DEF LineInv
            <4>2. Own(mCli.line, mUsb)
                BY <2>4, NothingTyped DEF LineInv
            <4> QED BY <2>2, <4>1, <4>2 DEF Own
        <3> QED BY <2>1, <2>2, <3>1, <3>2 DEF LineInv, LineStep, LineTypes, ConsoleTypes
    <2> QED BY <2>3, <2>4
<1>3. CASE Console!Poll
    <2>1. mUsb' = Console!Noticed
        BY <1>3 DEF Console!Poll
    <2>2. /\ mUsb' \in Cables /\ (mUsb'.noted => ~mUsb'.up) /\ mUsb'.latch = Console!Seen
          /\ mUsb'.latch \/ Own(mCli.line, mUsb')
          /\ mUsb'.latch \/ Own(mRx, mUsb')
        BY <2>1, NoticedKeeps
    <2>3. CASE Console!Seen /\ mCli.on
        <3>1. Reset /\ mPc' = "flush"
            BY <1>3, <2>3 DEF Console!Poll, Console!SessionReset, Reset
        <3> QED BY <2>2, <3>1, ResetSteps
    <2>4. CASE Console!Seen /\ ~mCli.on
        <3>1. UNCHANGED <<mCli, mRx>> /\ mPc' = "flush"
            BY <1>3, <2>4 DEF Console!Poll
        <3> QED BY <2>2, <2>4, <3>1, NothingTyped DEF LineInv, LineStep, LineTypes, ConsoleTypes
    <2>5. CASE ~Console!Seen
        <3>1. /\ mPc' = IF mCli.binary THEN "binary" ELSE "read"
              /\ mCli' = [mCli EXCEPT !.on = TRUE] /\ mRx' = mRx
            BY <1>3, <2>5 DEF Console!Poll
        <3>2. /\ mCli' \in Sessions /\ mCli'.on /\ mCli'.line = mCli.line
              /\ mCli'.binary = mCli.binary
            BY <3>1 DEF ConsoleTypes, Sessions
        <3> QED BY <2>2, <2>5, <3>1, <3>2 DEF LineInv, LineStep, LineTypes, ConsoleTypes
    <2> QED BY <2>3, <2>4, <2>5
<1> QED BY <1>1, <1>2, <1>3

\* What reading a byte leaves of the session.
LEMMA ConsumesLine ==
    ASSUME ConsoleTypes, NEW piece \in Typed, Consumes(piece)
    PROVE  /\ mCli'.on = mCli.on /\ (mCli.binary => mCli'.binary)
           /\ \/ mCli' = mCli
              \/ mCli'.line = << >> /\ mCli' \in Sessions
              \/ mCli' = [mCli EXCEPT !.line = Console!Joined(mCli.line, piece)]
<1>1. CASE mCli' = mCli
    BY <1>1
<1>2. CASE \/ mCli' = [mCli EXCEPT !.line = << >>, !.active = FALSE]
          \/ mCli' = [mCli EXCEPT !.line = << >>, !.active = TRUE]
          \/ mCli' = [mCli EXCEPT !.line = << >>, !.binary = TRUE]
          \/ mCli' = [mCli EXCEPT !.line = << >>]
    BY <1>2, NothingTyped DEF ConsoleTypes, Sessions
<1>3. CASE mCli' = [mCli EXCEPT !.line = Console!Joined(mCli.line, piece)]
    BY <1>3 DEF ConsoleTypes, Sessions
<1>4. CASE Executes
    <2> DEFINE k == Head(mCli.line)
    <2>1. k \in Typed /\ Console!Execute(k)
        BY <1>4, ExecutedIsTyped DEF Executes
    <2> HIDE DEF k
    <2>2. \/ mCli' = [mCli EXCEPT !.line = << >>, !.active = TRUE]
          \/ mCli' = [mCli EXCEPT !.line = << >>, !.binary = TRUE]
          \/ mCli' = [mCli EXCEPT !.line = << >>]
        BY <2>1, ExecuteIs DEF Console!SubmitRequest
    <2> QED BY <1>2, <2>2
<1> QED BY <1>1, <1>2, <1>3, <1>4 DEF Consumes

LEMMA ReadSteps ==
    ASSUME ConsoleTypes, LineInv, Console!Read
    PROVE  LineStep
<1> DEFINE piece == Head(mRx)
<1>1. /\ mPc = "read" /\ mUsb' = Console!Noticed /\ mRx # << >> /\ ~Console!Seen
      /\ mPc' = "run" /\ Consumes(piece)
      /\ mRx' = IF mCli'.binary THEN << >> ELSE Tail(mRx)
    BY ReadIs
<1>2. /\ mUsb' \in Cables /\ (mUsb'.noted => ~mUsb'.up) /\ ~mUsb'.latch
      /\ Own(mCli.line, mUsb') /\ Own(mRx, mUsb')
    BY <1>1, NoticedKeeps, NoticedIs DEF Cables
<1>3. /\ mRx \in Seq(Typed) /\ mCli.line \in Seq(Typed) /\ mCli \in Sessions
      /\ ~mCli.binary /\ mCli.on /\ NoFrame(mRx) /\ NoFrame(mCli.line)
    BY <1>1 DEF ConsoleTypes, Sessions, LineInv, Console!LineIsOwn, NoFrame
<1>4. /\ piece \in Typed /\ Tail(mRx) \in Seq(Typed)
      /\ Own(Tail(mRx), mUsb') /\ piece.cable = mUsb'.cable /\ ~mUsb'.noted
      /\ NoFrame(Tail(mRx)) /\ piece.what # "frame"
    BY <1>1, <1>2, <1>3, TailKeeps
<1> HIDE DEF piece
<1>5. mRx' \in Seq(Typed) /\ Own(mRx', mUsb') /\ NoFrame(mRx')
    BY <1>1, <1>4, NothingTyped
<1>6. mCli'.on
    BY <1>1, <1>3, <1>4, ConsumesLine
<1>7. mCli' \in Sessions /\ Own(mCli'.line, mUsb') /\ NoFrame(mCli'.line)
    <2>1. CASE mCli' = mCli
        BY <1>2, <1>3, <2>1
    <2>2. CASE mCli'.line = << >> /\ mCli' \in Sessions
        BY <2>2, NothingTyped
    <2>3. CASE mCli' = [mCli EXCEPT !.line = Console!Joined(mCli.line, piece)]
        <3> DEFINE r == Console!Joined(mCli.line, piece)
        <3>1. r \in Seq(Typed) /\ Own(r, mUsb') /\ NoFrame(r)
            BY <1>2, <1>3, <1>4, JoinedIs
        <3>2. mCli' = [mCli EXCEPT !.line = r]
            BY <2>3
        <3> HIDE DEF r
        <3> QED BY <1>3, <3>1, <3>2 DEF Sessions
    <2> QED BY <1>1, <1>4, <2>1, <2>2, <2>3, ConsumesLine
<1> QED BY <1>1, <1>2, <1>5, <1>6, <1>7 DEF LineStep, LineTypes

LEMMA OtherLineSteps ==
    ASSUME ConsoleTypes, LineInv,
           \/ Console!ReadNothing \/ Console!RunCommand \/ Console!Binary
           \/ Console!OutputFull \/ Console!Leave \/ Console!Dispatch \/ Console!Inspected
           \/ Console!Shutdown \/ Console!StopConsole \/ Console!Tick
    PROVE  LineStep
<1>1. CASE Console!ReadNothing
    <2>1. mUsb' = Console!Noticed /\ UNCHANGED <<mCli, mRx>> /\ mPc = "read" /\ mPc' = "run"
        BY <1>1 DEF Console!ReadNothing
    <2>2. /\ mUsb' \in Cables /\ (mUsb'.noted => ~mUsb'.up)
          /\ mUsb'.latch \/ Own(mCli.line, mUsb')
          /\ mUsb'.latch \/ Own(mRx, mUsb')
        BY <2>1, NoticedKeeps
    <2> QED BY <2>1, <2>2 DEF LineInv, LineStep, LineTypes, ConsoleTypes
<1>2. CASE Console!RunCommand
    <2>1. UNCHANGED <<mUsb, mRx>> /\ mPc = "run" /\ mPc' = "flush"
          /\ mCli' \in {mCli, [mCli EXCEPT !.active = FALSE]}
        BY <1>2 DEF Console!RunCommand
    <2>2. /\ mCli' \in Sessions /\ mCli'.on = mCli.on /\ mCli'.line = mCli.line
          /\ mCli'.binary = mCli.binary
        BY <2>1 DEF ConsoleTypes, Sessions
    <2> QED BY <2>1, <2>2 DEF LineInv, LineStep, LineTypes, ConsoleTypes
<1>3. CASE Console!Binary
    <2>1. mUsb' = mUsb /\ mPc' = "flush" /\ mRx' = << >>
          /\ mCli' \in {mCli, [mCli EXCEPT !.binary = FALSE, !.line = << >>]}
        BY <1>3 DEF Console!Binary
    <2>2. /\ mCli' \in Sessions /\ mCli'.on = mCli.on
          /\ mCli'.line = mCli.line \/ mCli'.line = << >>
        BY <2>1, NothingTyped DEF ConsoleTypes, Sessions
    <2> QED BY <2>1, <2>2, NothingTyped DEF LineInv, LineStep, LineTypes, ConsoleTypes
<1>4. CASE Console!OutputFull \/ Console!Leave
    <2>1. Reset /\ mPc' # "read" /\ (mUsb' = mUsb \/ mUsb' = Console!Noticed)
        BY <1>4 DEF Console!OutputFull, Console!Leave, Console!SessionReset, Reset
    <2>2. mUsb' \in Cables /\ (mUsb'.noted => ~mUsb'.up)
        BY <2>1, NoticedKeeps DEF LineInv, ConsoleTypes
    <2> QED BY <2>1, <2>2, ResetSteps
<1>5. CASE \/ Console!Dispatch \/ Console!Inspected \/ Console!Shutdown \/ Console!StopConsole
          \/ Console!Tick
    <2>1. UNCHANGED <<mUsb, mRx, mPc, mCli>>
        BY <1>5 DEF Console!Dispatch, Console!Inspected, Console!Shutdown, Console!StopConsole,
                    Console!Tick, Console!Console
    <2> QED BY <2>1 DEF LineInv, LineStep, LineTypes, ConsoleTypes
<1> QED BY <1>1, <1>2, <1>3, <1>4, <1>5

LEMMA LinesStep ==
    ASSUME ConsoleTypes, LineInv, Console!Next
    PROVE  LineInv' /\ LineTypes'
<1>1. LineStep
    BY CableSteps, TypeSteps, LookSteps, ReadSteps, OtherLineSteps
       DEF Console!Next, Console!ConsoleTask, Console!Owner
<1> QED BY <1>1, LineStepKeeps

-----------------------------------------------------------------------------
(* The prompt.                                                             *)

\* A confirmation that still counts answers the prompt that was just shown.
PromptInv == mExec.token # 0 /\ mExec.left > 0 => mFresh = mExec.request

\* A request leaves no prompt behind.
LEMMA SubmitsForget ==
    ASSUME ConsoleTypes, NEW request, Console!SubmitRequest(Console!Forgets(mExec), request)
    PROVE  /\ mExec'.token = 0
           /\ mSlot'.state = "queued" /\ mSlot.state # "queued" => mSlot'.request = request
<1> DEFINE e == Console!Forgets(mExec)
<1>1. e \in Executors /\ e.token = 0
    BY ForgetsIs
<1>2. Console!SubmitRequest(e, request)
    OBVIOUS
<1> HIDE DEF e
<1>3. \/ mExec' = [Console!NoExec EXCEPT !.next = e.next] /\ mSlot' = mSlot
      \/ /\ mExec' = [e EXCEPT !.active = TRUE, !.ticket = mSlot.ticket + 1, !.ready = FALSE]
         /\ mSlot' = Console!Queued(request)
    BY <1>2 DEF Console!SubmitRequest
<1> QED BY <1>1, <1>3 DEF Console!NoExec, Executors, Console!Queued, ConsoleTypes, Exchanges

\* Forgetting, and showing a prompt.
LEMMA PromptShown ==
    ASSUME ConsoleTypes, NEW word \in Writes,
           mExec' = [mExec EXCEPT !.request = word, !.next = mExec.next + 1,
                                  !.token = mExec.next + 1, !.left = Deadline]
    PROVE  mExec'.request = word
BY DEF ConsoleTypes, Executors

LEMMA PromptStep ==
    ASSUME ConsoleTypes, PromptInv, Console!Next
    PROVE  PromptInv'
<1>1. CASE Quiet
    BY <1>1 DEF Quiet, PromptInv
<1>2. CASE Cancels
    <2>1. mExec' = Given
        BY <1>2 DEF Cancels, Console!ExecutorCancel, Given
    <2> QED BY <2>1, GivenIs DEF PromptInv
<1>3. CASE Executes
    <2> DEFINE piece == Head(mCli.line)
    <2>1. piece \in Typed /\ Console!Execute(piece)
        BY <1>3, ExecutedIsTyped DEF Executes
    <2> HIDE DEF piece
    <2>2. CASE \E request : Console!SubmitRequest(Console!Forgets(mExec), request)
        BY <2>2, SubmitsForget DEF PromptInv
    <2>3. CASE mExec' = Console!Forgets(mExec)
               \/ mExec' = [Console!Forgets(mExec) EXCEPT !.active = TRUE]
        BY <2>3, ForgetsIs DEF PromptInv, Executors
    <2>4. CASE /\ piece.what \in Writes /\ mFresh' = piece.what
               /\ mExec' = [mExec EXCEPT !.request = piece.what, !.next = mExec.next + 1,
                                         !.token = mExec.next + 1, !.left = Deadline]
        BY <2>4, PromptShown DEF PromptInv
    <2> QED BY <2>1, <2>2, <2>3, <2>4, ExecuteIs
<1>4. CASE Console!RunCommand
    <2>1. \/ mExec' = mExec
          \/ mExec' = [mExec EXCEPT !.active = FALSE, !.ready = FALSE]
          \/ mExec' = [mExec EXCEPT !.ticket = 0, !.ready = TRUE]
          \/ mExec' = Given
        BY <1>4 DEF Console!RunCommand, Given
    <2>2. mFresh' = mFresh
        BY <1>4 DEF Console!RunCommand
    <2> QED BY <2>1, <2>2, GivenIs DEF PromptInv, ConsoleTypes, Executors
<1>5. CASE Console!Dispatch \/ Console!Inspected \/ Console!Shutdown
    <2>1. UNCHANGED <<mExec, mFresh>>
        BY <1>5 DEF Console!Dispatch, Console!Inspected, Console!Shutdown, Console!Console,
                    Console!History
    <2> QED BY <2>1 DEF PromptInv
<1>6. CASE Console!Tick
    <2> DEFINE left == IF mExec.left > 0 THEN mExec.left - 1 ELSE 0
    <2>1. mExec' = [mExec EXCEPT !.left = left] /\ mFresh' = IF mExec.left = 1 THEN None ELSE mFresh
        BY <1>6 DEF Console!Tick
    <2>2. left > 0 => mExec.left > 0 /\ mExec.left # 1
        BY DEF ConsoleTypes, Executors
    <2> HIDE DEF left
    <2>3. mExec'.token = mExec.token /\ mExec'.left = left /\ mExec'.request = mExec.request
        BY <2>1 DEF ConsoleTypes, Executors
    <2> QED BY <2>1, <2>2, <2>3 DEF PromptInv
<1> QED BY <1>1, <1>2, <1>3, <1>4, <1>5, <1>6, ConsoleSteps

LEMMA ConfirmedHolds ==
    ASSUME ConsoleTypes, PromptInv, Console!Next
    PROVE  Console!ConfirmedStep
<1> SUFFICES ASSUME mSlot.state # "queued", mSlot'.state = "queued",
                    Console!Changes(mSlot'.request)
             PROVE  mSlot'.request.confirmed /\ mFresh = mSlot'.request.op
    BY DEF Console!ConfirmedStep
<1>1. CASE Executes
    <2> DEFINE piece == Head(mCli.line)
    <2>1. piece \in Typed /\ Console!Execute(piece)
        BY <1>1, ExecutedIsTyped DEF Executes
    <2> HIDE DEF piece
    <2>2. CASE /\ Console!Confirms(piece)
               /\ Console!SubmitRequest(Console!Forgets(mExec),
                                        [op |-> mExec.request, confirmed |-> TRUE])
        <3>1. mSlot'.request = [op |-> mExec.request, confirmed |-> TRUE]
            BY <2>2, SubmitsForget
        <3> QED BY <2>2, <3>1 DEF Console!Confirms, PromptInv
    <2>3. CASE /\ piece.what \in Reads
               /\ Console!SubmitRequest(Console!Forgets(mExec), ForgetFor(piece.what))
        <3>1. mSlot'.request = ForgetFor(piece.what)
            BY <2>3, SubmitsForget
        <3> QED BY <2>3, <3>1, ConsoleConstants DEF ForgetFor, Console!Changes
    <2>4. CASE mSlot' = mSlot
        BY <2>4
    <2> QED BY <2>1, <2>2, <2>3, <2>4, ExecuteIs
<1>2. CASE Quiet
    BY <1>2 DEF Quiet
<1>3. CASE Cancels \/ Console!RunCommand
    <2>1. mSlot' = mSlot \/ mSlot' = Console!Free \/ mSlot' = Console!GivenUp
        BY <1>3 DEF Cancels, Console!ExecutorCancel, Console!RunCommand
    <2> QED BY <2>1, FreeIs, GivenUpIs
<1>4. CASE Console!Dispatch
    BY <1>4 DEF Console!Dispatch
<1>5. CASE Console!Inspected
    <2>1. \/ mSlot' = Console!Free
          \/ mSlot'.state = "complete"
        BY <1>5 DEF Console!Inspected, ConsoleTypes, Exchanges
    <2> QED BY <2>1, FreeIs
<1>6. CASE Console!Shutdown
    <2>1. mSlot'.state # "queued"
        BY <1>6 DEF Console!Shutdown, ConsoleTypes, Exchanges
    <2> QED BY <2>1
<1>7. CASE Console!Tick
    <2>1. PICK age : mSlot' = [mSlot EXCEPT !.age = age]
        BY <1>7 DEF Console!Tick
    <2> QED BY <2>1 DEF ConsoleTypes, Exchanges
<1> QED BY <1>1, <1>2, <1>3, <1>4, <1>5, <1>6, <1>7, ConsoleSteps

-----------------------------------------------------------------------------
(* The console, whatever else moves.                                       *)

ConsoleInv == ConsoleTypes /\ HistoryInv /\ LineInv /\ PromptInv

LEMMA ConsoleStarts ==
    ASSUME Console!Init
    PROVE  ConsoleInv
<1>1. /\ mUsb = [up |-> FALSE, cable |-> 0, latch |-> FALSE, noted |-> TRUE]
      /\ mRx = << >> /\ mPc = "flush"
      /\ mCli = [on |-> FALSE, line |-> << >>, active |-> FALSE, binary |-> FALSE]
      /\ mExec = Console!NoExec /\ mSlot = Console!NoSlot /\ mOwner = None
      /\ mEffects.made = {} /\ mEffects.erred = {} /\ mEffects \in Effected
      /\ mTold = Console!Untold
    BY DEF Console!Init, Console!NoEffects, Effected
<1>2. mUsb \in Cables /\ mCli \in Sessions /\ mRx \in Seq(Typed)
    BY <1>1, NothingTyped DEF Cables, Sessions
<1>3. mExec \in Executors /\ mExec.token = 0 /\ mExec.ticket = 0
    BY <1>1 DEF Console!NoExec, Executors
<1>4. /\ mSlot \in Exchanges /\ mSlot.state = "idle" /\ ~mSlot.abandoned /\ mSlot.ticket = 0
      /\ ~mSlot.closing
    BY <1>1, ConsoleConstants DEF Console!NoSlot, Console!NoRequest, Exchanges, Requests
<1>5. mTold \in [Console!Tickets -> Reports] /\ \A t \in Console!Tickets : mTold[t] = "nothing"
    BY <1>1 DEF Console!Untold, Reports
<1>6. ConsoleTypes
    BY <1>1, <1>2, <1>3, <1>4, <1>5 DEF ConsoleTypes
<1>7. HistoryInv
    BY <1>1, <1>3, <1>4, <1>5 DEF HistoryInv, OneRequest, OneHistory, Complete, Final,
                                  Console!ToldTruly
<1>8. LineInv
    BY <1>1, NothingTyped DEF LineInv, Console!LineIsOwn
<1> QED BY <1>3, <1>6, <1>7, <1>8 DEF ConsoleInv, PromptInv

LEMMA ConsoleStep ==
    ASSUME ConsoleInv, Console!Next
    PROVE  ConsoleInv'
<1>1. HistoryInv' /\ RequestTypes' /\ LineInv' /\ LineTypes' /\ PromptInv'
    BY HistoryStep, RequestTypesStep, LinesStep, PromptStep DEF ConsoleInv
<1>2. ConsoleTypes'
    BY <1>1 DEF RequestTypes, LineTypes, ConsoleTypes
<1> QED BY <1>1, <1>2 DEF ConsoleInv

LEMMA ConsoleStays ==
    ASSUME ConsoleInv, UNCHANGED ConsoleVars
    PROVE  ConsoleInv'
BY DEF ConsoleInv, ConsoleVars, ConsoleTypes, HistoryInv, OneRequest, OneHistory, Complete, Final,
       Console!ToldTruly, LineInv, Own, NoFrame, Console!LineIsOwn, PromptInv

LEMMA AlwaysConsole == MCSpec => [](part = "console" => ConsoleInv)
<1>1. MCInit => (part = "console" => ConsoleInv)
    BY ConsoleStarts DEF MCInit
<1>2. (part = "console" => ConsoleInv) /\ [MCNext]_mcVars => (part = "console" => ConsoleInv)'
    <2> SUFFICES ASSUME part = "console" => ConsoleInv, [MCNext]_mcVars, part' = "console"
                 PROVE  ConsoleInv'
        OBVIOUS
    <2>1. CASE MCNext
        <3>1. ConsoleInv /\ Console!Next
            BY <2>1 DEF MCNext
        <3> QED BY <3>1, ConsoleStep
    <2>2. CASE UNCHANGED mcVars
        <3>1. ConsoleInv /\ UNCHANGED ConsoleVars
            BY <2>2 DEF mcVars
        <3> QED BY <3>1, ConsoleStays
    <2> QED BY <2>1, <2>2
<1> QED BY <1>1, <1>2, PTL DEF MCSpec

(* The user is never told that a change was not made when it was or still  *)
(* may be, but for an interrupt during the shutdown, or after an owner's   *)
(* error for a change that was made; is told only of the request that was  *)
(* asked; and a line that runs is of one connection and has no frame of    *)
(* the binary protocol (note4_cli_control.cc, note4_cli_session.cc).       *)
THEOREM ConsoleTellsTheTruth == MCSpec => []ConsoleSound
<1>1. (part = "console" => ConsoleInv) => ConsoleSound
    BY DEF ConsoleInv, HistoryInv, LineInv, ConsoleSound
<1> QED BY <1>1, AlwaysConsole, PTL

(* A change is queued only as the answer to the prompt that was shown for  *)
(* it last and still counts (note4_cli_diagnostics.cc).                    *)
THEOREM ChangesAreConfirmed == MCSpec => ConfirmedOnly
<1>1. (part = "console" => ConsoleInv) /\ [MCNext]_mcVars
         => [part = "console" => Console!ConfirmedStep]_ConsoleVars
    <2> SUFFICES ASSUME part = "console" => ConsoleInv, MCNext, part = "console"
                 PROVE  Console!ConfirmedStep
        BY DEF mcVars, ConsoleVars
    <2>1. ConsoleInv /\ Console!Next
        BY DEF MCNext
    <2> QED BY <2>1, ConfirmedHolds DEF ConsoleInv
<1> QED BY <1>1, AlwaysConsole, PTL DEF MCSpec, ConfirmedOnly
=============================================================================
