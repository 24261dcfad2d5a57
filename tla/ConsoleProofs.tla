--------------------------- MODULE ConsoleProofs ---------------------------
(***************************************************************************)
(* Safety of what the owner and the operators administer, for any number   *)
(* of connections, accounts, requests, providers, messages and attempts: a *)
(* connection changes only under the request that asked for it, the        *)
(* clients in service are always one whole set, and what a conversation    *)
(* shows is what was edited last, in its own place.                        *)
(***************************************************************************)
EXTENDS ConnectionAdmin, ProviderModes, Messages, SequenceTheorems, TLAPS

-----------------------------------------------------------------------------
(* ConnectionAdmin.                                                        *)
(* What a request read before its await is behind the row only by edits,   *)
(* which raise the revision, and by what is learnt meanwhile; unless an    *)
(* edit was written over another.                                          *)

LEMMA UpdatedIs ==
  ASSUME NEW row \in Row, NEW a, a.read \in Row, NEW new \in Row
  PROVE  LET r == Updated(row, a, new) IN
         /\ r \in Row
         /\ r.key = IF new.key # a.read.key \/ a.op = "rotate" THEN new.key ELSE row.key
         /\ r.token = IF new.token # a.read.token \/ a.op = "rotate" THEN new.token ELSE row.token
         /\ r.account = IF new.account # a.read.account THEN new.account ELSE row.account
         /\ r.enabled = IF new.enabled # a.read.enabled THEN new.enabled ELSE row.enabled
         /\ r.inbound = IF new.inbound # a.read.inbound THEN new.inbound ELSE row.inbound
         /\ r.state = IF new.state # a.read.state THEN new.state ELSE row.state
         /\ r.revision = IF new.revision # a.read.revision THEN new.revision ELSE row.revision
         /\ r.dated = IF new.dated # a.read.dated THEN new.dated ELSE row.dated
<1> DEFINE r == Updated(row, a, new)
<1>1. DOMAIN row = {"key", "token", "account", "enabled", "inbound", "state", "revision", "dated"}
  BY DEF Row
<1>2. r = [f \in DOMAIN row |->
             IF new[f] # a.read[f] \/ (a.op = "rotate" /\ f \in {"key", "token"}) THEN new[f] ELSE row[f]]
  BY DEF Updated
<1> HIDE DEF r
<1>3. /\ r.key = IF new.key # a.read.key \/ a.op = "rotate" THEN new.key ELSE row.key
      /\ r.token = IF new.token # a.read.token \/ a.op = "rotate" THEN new.token ELSE row.token
      /\ r.account = IF new.account # a.read.account THEN new.account ELSE row.account
      /\ r.enabled = IF new.enabled # a.read.enabled THEN new.enabled ELSE row.enabled
      /\ r.inbound = IF new.inbound # a.read.inbound THEN new.inbound ELSE row.inbound
      /\ r.state = IF new.state # a.read.state THEN new.state ELSE row.state
      /\ r.revision = IF new.revision # a.read.revision THEN new.revision ELSE row.revision
      /\ r.dated = IF new.dated # a.read.dated THEN new.dated ELSE row.dated
  BY <1>1, <1>2
<1>4. r \in Row
  BY <1>1, <1>2, <1>3 DEF Row
<1>5. QED
  BY <1>3, <1>4 DEF r

\* The states a connection in use may be in.
Live == {"ready", "degraded"}

\* What a row may have become since it was read, as long as no edit was lost: an
\* edit raises the revision, and what else is written only adds to what is known.
Became(read, row) ==
  /\ read.revision <= row.revision
  /\ read.revision = row.revision =>
       /\ read.inbound => row.inbound
       /\ read.inbound /\ read.state \in Live => row.state \in Live
       /\ kind # "environment" =>
            row.enabled = read.enabled /\ row.key = read.key /\ row.token = read.token

RowSound(c) ==
  /\ conn[c].enabled => conn[c].account # Missing
  /\ ~lapped[c] /\ conn[c].enabled => conn[c].inbound /\ conn[c].state \in Live
  /\ kind # "environment" => conn[c].key \in Keys

\* A request goes on with a row that has kept its account.
AskSound(a) ==
  /\ a.conn \in Known
  /\ a.op \notin {"check", "send"} => a.read.revision < MaxRevision
  /\ a.read.account # Missing => conn[a.conn].account = a.read.account
  /\ kind # "environment" => a.read.key \in Keys
  /\ a.op = "rotate" => a.key \in Keys
  /\ ~lapped[a.conn] => Became(a.read, conn[a.conn])

ConnInv ==
  /\ ConnTypeOK
  /\ \A c \in Known : RowSound(c)
  /\ \A q \in Asks : ask[q] # Missing => env # Missing /\ AskSound(ask[q])
  /\ \A f \in Arrivals : arrival[f] # Missing => arrival[f] \in Known

\* What a step may do to a connection.
ConnStepSound(c) ==
  /\ conn[c].account # Missing => conn'[c].account = conn[c].account
  /\ conn[c].dated /\ ~conn[c].enabled /\ conn'[c].enabled =>
       \E q \in Asks : ask[q] # Missing /\ ask[q].op = "enable" /\ ask'[q] = Missing

LEMMA RowsAre ==
  ASSUME ConnTypeOK
  PROVE  /\ \A c \in Known : c \in Conns /\ conn[c] \in Row /\ conn[c].revision \in Nat
         /\ \A q \in Asks : ask[q] # Missing =>
              /\ ask[q] \in Ask /\ ask[q].conn \in Conns /\ ask[q].read \in Row
              /\ ask[q].read.revision \in Nat
         /\ Row \subseteq [key : Keys \cup {Missing}, token : Accounts \cup {Missing},
                           account : Accounts \cup {Missing}, enabled : BOOLEAN, inbound : BOOLEAN,
                           state : {"unconfigured", "awaiting_installation",
                                    "awaiting_inbound_verification", "ready", "degraded"},
                           revision : Nat, dated : BOOLEAN]
<1>1. MaxRevision \in Nat /\ 1..MaxRevision \subseteq Nat
  BY ConnAssumption
<1>2. \A row \in Row : row.revision \in Nat
  BY <1>1 DEF Row
<1>3. QED
  BY <1>1, <1>2 DEF ConnTypeOK, Known, Ask, Row

LEMMA BecameTwice ==
  ASSUME NEW r \in Row, NEW s \in Row, NEW t \in Row, Became(r, s), Became(s, t)
  PROVE  Became(r, t)
<1>1. r.revision \in Nat /\ s.revision \in Nat /\ t.revision \in Nat
  BY ConnAssumption DEF Row
<1>2. r.revision <= t.revision /\ (r.revision = t.revision => r.revision = s.revision /\ s.revision = t.revision)
  BY <1>1 DEF Became
<1>3. QED
  BY <1>2 DEF Became

\* Requests end, listeners end, and nothing else changes.
LEMMA Fewer ==
  ASSUME ConnInv, UNCHANGED <<kind, conn, lapped>>,
         env' = env \/ (\A q \in Asks : ask'[q] = Missing), env' \in Keys \cup {Missing},
         install' \in [Conns -> 1..MaxRevision \cup {Missing}],
         ask' \in [Asks -> Ask \cup {Missing}], arrival' \in [Arrivals -> Conns \cup {Missing}],
         \A q \in Asks : ask'[q] \in {Missing, ask[q]},
         \A f \in Arrivals : arrival'[f] \in {Missing, arrival[f]}
  PROVE  ConnInv' /\ \A c \in Known : ConnStepSound(c)
<1>1. ConnTypeOK'
  BY DEF ConnInv, ConnTypeOK
<1>2. Known' = Known /\ \A c \in Known : RowSound(c)'
  BY DEF ConnInv, Known, RowSound
<1>3. ASSUME NEW q \in Asks, ask'[q] # Missing PROVE env' # Missing /\ AskSound(ask[q])'
  <2>1. ask'[q] = ask[q] /\ env' = env
    BY <1>3
  <2>2. AskSound(ask[q])
    BY <1>3, <2>1 DEF ConnInv
  <2>3. AskSound(ask[q])'
    BY <1>2, <2>1, <2>2 DEF AskSound, Became
  <2>4. QED
    BY <1>3, <2>1, <2>3 DEF ConnInv
<1>4. \A f \in Arrivals : arrival'[f] # Missing => arrival'[f] \in Known'
  BY <1>2 DEF ConnInv
<1>5. \A c \in Known : ConnStepSound(c)
  BY DEF ConnStepSound
<1>6. QED
  BY <1>1, <1>2, <1>3, <1>4, <1>5 DEF ConnInv

\* A row is written, by a request that ends or by what is not a request.
LEMMA Written ==
  ASSUME ConnInv, NEW c \in Known, NEW row \in Row, Store(c, row), NEW lost \in BOOLEAN,
         lapped' = [lapped EXCEPT ![c] = lost], lapped[c] => lost,
         UNCHANGED <<kind, install, env>>,
         ask' \in [Asks -> Ask \cup {Missing}], arrival' \in [Arrivals -> Conns \cup {Missing}],
         \A q \in Asks : ask'[q] \in {Missing, ask[q]},
         \A f \in Arrivals : arrival'[f] \in {Missing, arrival[f]},
         conn[c].account # Missing => row.account = conn[c].account,
         kind # "environment" => row.key \in Keys,
         row.enabled => row.account # Missing,
         ~lost => Became(conn[c], row) /\ (row.enabled => row.inbound /\ row.state \in Live)
  PROVE  ConnInv' /\ \A d \in Known \ {c} : ConnStepSound(d)
<1>1. /\ conn \in [Conns -> Row \cup {Missing}] /\ c \in Conns /\ conn[c] \in Row
      /\ lapped \in [Conns -> BOOLEAN] /\ row # Missing
  BY ConnAssumption, RowsAre DEF ConnInv, ConnTypeOK
<1>2. /\ conn'[c] = row /\ \A d \in Conns \ {c} : conn'[d] = conn[d]
      /\ lapped'[c] = lost /\ \A d \in Conns \ {c} : lapped'[d] = lapped[d]
  BY <1>1 DEF Store
<1>3. ConnTypeOK'
  BY <1>1 DEF ConnInv, ConnTypeOK, Store
<1>4. Known' = Known
  BY <1>1, <1>2 DEF Known
<1>5. ASSUME NEW d \in Known PROVE RowSound(d)'
  <2>1. CASE d = c
    BY <1>2, <2>1 DEF RowSound
  <2>2. CASE d # c
    BY <1>2, <2>2, RowsAre DEF ConnInv, RowSound
  <2>3. QED
    BY <2>1, <2>2
<1>6. ASSUME NEW q \in Asks, ask'[q] # Missing PROVE env' # Missing /\ AskSound(ask[q])'
  <2> DEFINE a == ask[q]
  <2>1. ask'[q] = a /\ a # Missing /\ AskSound(a) /\ env # Missing
    BY <1>6 DEF ConnInv
  <2>2. a.conn \in Known /\ a.conn \in Conns /\ a.read \in Row
    BY <2>1, RowsAre DEF ConnInv, AskSound
  <2> HIDE DEF a
  <2>3. a.read.account # Missing => conn'[a.conn].account = a.read.account
    <3>1. CASE a.conn = c
      BY <1>2, <2>1, <3>1 DEF AskSound
    <3>2. CASE a.conn # c
      BY <1>2, <2>1, <2>2, <3>2 DEF AskSound
    <3>3. QED
      BY <3>1, <3>2
  <2>4. ASSUME ~lapped'[a.conn] PROVE Became(a.read, conn'[a.conn])
    <3>1. CASE a.conn = c
      <4>1. ~lost /\ ~lapped[c]
        BY <1>2, <2>4, <3>1
      <4>2. Became(a.read, conn[c]) /\ Became(conn[c], row)
        BY <2>1, <3>1, <4>1 DEF AskSound
      <4>3. Became(a.read, row)
        BY <1>1, <2>2, <4>2, BecameTwice
      <4>4. QED
        BY <1>2, <3>1, <4>3
    <3>2. CASE a.conn # c
      BY <1>2, <2>1, <2>2, <2>4, <3>2 DEF AskSound
    <3>3. QED
      BY <3>1, <3>2
  <2>6. AskSound(ask[q])'
    BY <1>4, <2>1, <2>2, <2>3, <2>4 DEF AskSound, Became
  <2>7. QED
    BY <2>1, <2>6
<1>7. \A f \in Arrivals : arrival'[f] # Missing => arrival'[f] \in Known'
  BY <1>4 DEF ConnInv
<1>8. \A d \in Known \ {c} : ConnStepSound(d)
  BY <1>2, RowsAre DEF ConnInv, ConnStepSound
<1>9. QED
  BY <1>3, <1>4, <1>5, <1>6, <1>7, <1>8 DEF ConnInv

LEMMA TokensAre == Tokens \subseteq Accounts \cup {Missing}
BY ConnAssumption DEF Tokens

LEMMA AccountOfIs == \A key \in Keys : AccountOf(key) \in Accounts
BY DEF Keys, AccountOf

LEMMA EditedIs ==
  ASSUME NEW a \in Ask, a.read.revision < MaxRevision, a.op = "rotate" => a.key \in Keys
  PROVE  LET new == Edited(a) IN
         /\ new \in Row /\ new.revision = a.read.revision + 1
         /\ new.account = a.read.account
         /\ new.enabled = (a.op = "enable")
         /\ new.key = IF a.op = "rotate" THEN a.key ELSE a.read.key
         /\ a.op # "rotate" => new.inbound = a.read.inbound /\ new.state = a.read.state
<1>1. a.read \in Row /\ a.token \in Accounts \cup {Missing} /\ a.read.revision \in 1..MaxRevision /\ MaxRevision \in Nat
  BY ConnAssumption DEF Ask, Row
<1> DEFINE row == [a.read EXCEPT !.revision = @ + 1]
<1>2. /\ row \in Row /\ row.revision = a.read.revision + 1 /\ row.account = a.read.account
      /\ row.key = a.read.key
      /\ row.inbound = a.read.inbound /\ row.state = a.read.state
  BY <1>1 DEF Row
<1> DEFINE new == Edited(a)
<1>3. new = IF a.op = "rotate" THEN Rotated(row, a.key, a.token) ELSE [row EXCEPT !.enabled = a.op = "enable"]
  BY DEF Edited
<1> HIDE DEF row, new
<1>4. /\ new \in Row /\ new.revision = a.read.revision + 1
      /\ new.account = a.read.account
      /\ new.enabled = (a.op = "enable")
      /\ new.key = IF a.op = "rotate" THEN a.key ELSE a.read.key
      /\ a.op # "rotate" => new.inbound = a.read.inbound /\ new.state = a.read.state
  <2>1. CASE a.op = "rotate"
    BY <1>1, <1>2, <1>3, <2>1 DEF Rotated, Row
  <2>2. CASE a.op # "rotate"
    BY <1>2, <1>3, <2>2 DEF Row
  <2>3. QED
    BY <2>1, <2>2
<1>5. QED
  BY <1>4 DEF new

\* A request that goes on: the row it read, the row as it is, and its end.
LEMMA GoesOn ==
  ASSUME ConnInv, NEW q \in Asks, ask[q] # Missing, Answered(q)
  PROVE  /\ ask[q] \in Ask /\ AskSound(ask[q]) /\ env \in Keys
         /\ ask[q].conn \in Known /\ ask[q].conn \in Conns
         /\ conn[ask[q].conn] \in Row /\ RowSound(ask[q].conn)
         /\ ask[q].read \in Row /\ ask[q].read.revision \in Nat
         /\ conn[ask[q].conn].revision \in Nat
         /\ ask' \in [Asks -> Ask \cup {Missing}] /\ ask'[q] = Missing
         /\ \A p \in Asks : ask'[p] \in {Missing, ask[p]}
<1>1. ConnTypeOK /\ AskSound(ask[q]) /\ env # Missing
  BY DEF ConnInv
<1>2. /\ ask[q] \in Ask /\ ask[q].conn \in Known /\ ask[q].read \in Row
      /\ ask[q].read.revision \in Nat
  BY <1>1, RowsAre DEF AskSound
<1>3. /\ ask[q].conn \in Conns /\ conn[ask[q].conn] \in Row
      /\ conn[ask[q].conn].revision \in Nat /\ RowSound(ask[q].conn)
  BY <1>1, <1>2, RowsAre DEF ConnInv
<1>4. ask \in [Asks -> Ask \cup {Missing}] /\ env \in Keys
  BY <1>1 DEF ConnTypeOK
<1>5. /\ ask' \in [Asks -> Ask \cup {Missing}] /\ ask'[q] = Missing
      /\ \A p \in Asks : ask'[p] \in {Missing, ask[p]}
  BY <1>4 DEF Answered
<1>6. QED
  BY <1>1, <1>2, <1>3, <1>4, <1>5

LEMMA PatchKeeps ==
  ASSUME ConnInv, NEW q \in Asks, Patch(q)
  PROVE  ConnInv' /\ \A d \in Known : ConnStepSound(d)
<1> DEFINE a == ask[q]
           c == a.conn
           rd == a.read
           was == conn[c]
           new == Edited(a)
           row == Updated(was, a, new)
           lost == lapped[c] \/ was.revision # rd.revision
<1>1. /\ a # Missing /\ a.op \in {"rotate", "enable", "disable"} /\ Answered(q)
      /\ UNCHANGED <<kind, arrival, install, env>>
  BY DEF Patch
<1>2. /\ a \in Ask /\ AskSound(a) /\ c \in Known /\ c \in Conns /\ was \in Row /\ RowSound(c)
      /\ rd \in Row /\ rd.revision \in Nat /\ was.revision \in Nat
      /\ ask' \in [Asks -> Ask \cup {Missing}] /\ ask'[q] = Missing
      /\ \A p \in Asks : ask'[p] \in {Missing, ask[p]}
  BY <1>1, GoesOn
<1>3. /\ arrival' \in [Arrivals -> Conns \cup {Missing}]
      /\ \A f \in Arrivals : arrival'[f] \in {Missing, arrival[f]}
      /\ install' \in [Conns -> 1..MaxRevision \cup {Missing}] /\ env' \in Keys \cup {Missing}
      /\ lapped \in [Conns -> BOOLEAN]
  BY <1>1 DEF ConnInv, ConnTypeOK
<1>4. CASE UNCHANGED <<conn, lapped>>
  BY <1>1, <1>2, <1>3, <1>4, Fewer
<1>5. ASSUME ~UNCHANGED <<conn, lapped>>
      PROVE  ConnInv' /\ \A d \in Known : ConnStepSound(d)
  <2>1. /\ a.op = "rotate" => MayRotate(rd, a.key)
        /\ a.op = "enable" => MayEnable(rd)
        /\ Store(c, row) /\ lapped' = [lapped EXCEPT ![c] = @ \/ conn[c].revision # rd.revision]
    BY <1>5 DEF Patch
  <2>2. lapped' = [lapped EXCEPT ![c] = lost] /\ lost \in BOOLEAN /\ (lapped[c] => lost)
    BY <1>2, <1>3, <2>1
  <2>3. /\ new \in Row /\ new.revision = rd.revision + 1
        /\ new.account = rd.account
        /\ new.enabled = (a.op = "enable")
        /\ new.key = IF a.op = "rotate" THEN a.key ELSE rd.key
        /\ a.op # "rotate" => new.inbound = rd.inbound /\ new.state = rd.state
    BY <1>1, <1>2, EditedIs DEF AskSound
  <2>4. /\ row \in Row /\ row.account = was.account
        /\ row.key = IF new.key # rd.key \/ a.op = "rotate" THEN new.key ELSE was.key
        /\ row.enabled = IF new.enabled # rd.enabled THEN new.enabled ELSE was.enabled
        /\ row.inbound = IF new.inbound # rd.inbound THEN new.inbound ELSE was.inbound
        /\ row.state = IF new.state # rd.state THEN new.state ELSE was.state
        /\ row.revision = rd.revision + 1
    <3> HIDE DEF new, was
    <3>1. /\ row \in Row
          /\ row.account = IF new.account # rd.account THEN new.account ELSE was.account
          /\ row.key = IF new.key # rd.key \/ a.op = "rotate" THEN new.key ELSE was.key
          /\ row.enabled = IF new.enabled # rd.enabled THEN new.enabled ELSE was.enabled
          /\ row.inbound = IF new.inbound # rd.inbound THEN new.inbound ELSE was.inbound
          /\ row.state = IF new.state # rd.state THEN new.state ELSE was.state
          /\ row.revision = IF new.revision # rd.revision THEN new.revision ELSE was.revision
      BY <1>2, <2>3, UpdatedIs
    <3>2. QED
      BY <1>2, <2>3, <3>1
  <2>5. /\ a.read.account # Missing => was.account = rd.account
        /\ kind # "environment" => rd.key \in Keys
        /\ a.op = "rotate" => a.key \in Keys /\ kind # "environment"
        /\ ~lapped[c] => Became(rd, was)
        /\ a.op = "enable" => rd.state = "ready" /\ rd.inbound /\ rd.account # Missing
        /\ was.enabled => was.account # Missing
        /\ ~lapped[c] /\ was.enabled => was.inbound /\ was.state \in Live
        /\ kind # "environment" => was.key \in Keys
        /\ ~lost => ~lapped[c] /\ was.revision = rd.revision
    BY <1>2, <2>1 DEF AskSound, RowSound, MayRotate, MayEnable
  <2> HIDE DEF new, row, was, rd
  <2>6. kind # "environment" => row.key \in Keys
    BY <2>3, <2>4, <2>5
  <2>7. row.enabled => row.account # Missing
    BY <1>1, <2>3, <2>4, <2>5 DEF rd
  <2>8. ASSUME ~lost PROVE Became(was, row) /\ (row.enabled => row.inbound /\ row.state \in Live)
    <3> HIDE DEF lost
    <3>1. Became(was, row)
      BY <1>2, <2>4, <2>5, <2>8 DEF Became
    <3>2. Became(rd, was) /\ was.revision = rd.revision
      BY <2>5, <2>8
    <3>3. ASSUME row.enabled PROVE row.inbound /\ row.state \in Live
      <4>1. CASE a.op = "rotate"
        BY <1>2, <2>3, <2>4, <2>5, <2>8, <3>2, <3>3, <4>1 DEF Became, Row
      <4>2. CASE a.op = "enable"
        BY <1>2, <2>3, <2>4, <2>5, <2>8, <3>2, <3>3, <4>2 DEF Became, Row, Live
      <4>3. CASE a.op = "disable"
        BY <1>2, <2>3, <2>4, <2>5, <2>8, <3>2, <3>3, <4>3 DEF Became, Row
      <4>4. QED
        BY <1>1, <4>1, <4>2, <4>3
    <3>4. QED
      BY <3>1, <3>3
  <2>9. ConnInv' /\ \A d \in Known \ {c} : ConnStepSound(d)
    <3> HIDE DEF lost
    <3>1. conn[c].account # Missing => row.account = conn[c].account
      BY <2>4 DEF was
    <3>2. ~lost => Became(conn[c], row) /\ (row.enabled => row.inbound /\ row.state \in Live)
      BY <2>8 DEF was
    <3>3. row \in Row
      BY <2>4
    <3> HIDE DEF c
    <3>4. QED
      BY <1>1, <1>2, <1>3, <2>1, <2>2, <2>6, <2>7, <3>1, <3>2, <3>3, Written
  <2>10. ConnStepSound(c)
    <3>1. conn'[c] = row
      BY <1>2, <2>1 DEF Store, ConnInv, ConnTypeOK
    <3>2. row.enabled /\ ~was.enabled => a.op = "enable"
      BY <1>2, <2>3, <2>4 DEF Row
    <3>3. conn[c].account # Missing => conn'[c].account = conn[c].account
      BY <1>1, <2>4, <3>1 DEF was
    <3>4. ASSUME ~conn[c].enabled, conn'[c].enabled
          PROVE  \E p \in Asks : ask[p] # Missing /\ ask[p].op = "enable" /\ ask'[p] = Missing
      BY <1>1, <1>2, <3>1, <3>2, <3>4 DEF was
    <3>5. QED
      BY <3>3, <3>4 DEF ConnStepSound
  <2>11. QED
    BY <2>9, <2>10
<1>6. QED
  BY <1>4, <1>5

LEMMA CheckKeeps ==
  ASSUME ConnInv, NEW q \in Asks, Check(q)
  PROVE  ConnInv' /\ \A d \in Known : ConnStepSound(d)
<1> DEFINE c == ask[q].conn
           rd == ask[q].read
           was == conn[c]
<1>1. /\ ask[q] # Missing /\ Answered(q)
      /\ UNCHANGED <<kind, arrival, install, env, lapped>>
  BY DEF Check
<1>2. /\ AskSound(ask[q]) /\ env \in Keys /\ c \in Known /\ c \in Conns /\ was \in Row /\ RowSound(c)
      /\ rd \in Row /\ rd.revision \in Nat /\ was.revision \in Nat
      /\ ask' \in [Asks -> Ask \cup {Missing}] /\ ask'[q] = Missing
      /\ \A p \in Asks : ask'[p] \in {Missing, ask[p]}
  BY <1>1, GoesOn
<1>3. /\ arrival' \in [Arrivals -> Conns \cup {Missing}]
      /\ \A f \in Arrivals : arrival'[f] \in {Missing, arrival[f]}
      /\ install' \in [Conns -> 1..MaxRevision \cup {Missing}] /\ env' \in Keys \cup {Missing}
      /\ lapped \in [Conns -> BOOLEAN]
  BY <1>1 DEF ConnInv, ConnTypeOK
<1>4. CASE UNCHANGED conn
  BY <1>1, <1>2, <1>3, <1>4, Fewer
<1>5. ASSUME ~UNCHANGED conn
      PROVE  ConnInv' /\ \A d \in Known : ConnStepSound(d)
  <2>2. PICK account \in Identity(rd) :
          Belongs(c, account) /\ Store(c, VerifiedRow(was, account))
    BY <1>5 DEF Check
  <2> DEFINE key == KeyInUse(rd)
             row == VerifiedRow(was, account)
  <2>3. /\ key \in Keys
        /\ was.enabled => was.account # Missing
        /\ ~lapped[c] /\ was.enabled => was.inbound /\ was.state \in Live
        /\ kind # "environment" => was.key \in Keys
    BY <1>2 DEF KeyInUse, AskSound, RowSound, Row
  <2>4. account \in Accounts /\ account # Missing
    BY <1>2, <2>2, <2>3, AccountOfIs, ConnAssumption DEF Identity, Row
  <2>5. was.account # Missing => account = was.account
    BY <2>2 DEF Belongs
  <2> HIDE DEF key, was, rd
  <2>6. /\ row \in Row /\ row.account = account /\ row.key = was.key
        /\ row.token = was.token
        /\ row.dated = TRUE /\ row.revision = was.revision /\ row.inbound = was.inbound
        /\ row.enabled = was.enabled
        /\ was.inbound => row.state = "ready"
    <3>1. row = VerifiedRow(was, account)
      OBVIOUS
    <3> HIDE DEF row
    <3>2. QED
      BY <1>2, <2>4, <3>1 DEF VerifiedRow, Row
  <2>7. conn'[c] = row /\ Store(c, row)
    BY <1>2, <2>2 DEF Store, ConnInv, ConnTypeOK, was
  <2> HIDE DEF row
  <2>8. Became(was, row)
    BY <1>2, <2>6 DEF Became, Live
  <2>9. ~lapped[c] => (row.enabled => row.inbound /\ row.state \in Live)
    BY <2>3, <2>6 DEF Live
  <2>10. ConnInv' /\ \A d \in Known \ {c} : ConnStepSound(d)
    <3>1. conn[c].account # Missing => row.account = conn[c].account
      BY <2>5, <2>6 DEF was
    <3>2. Became(conn[c], row)
      BY <2>8 DEF was
    <3>3. /\ lapped' = [lapped EXCEPT ![c] = lapped[c]] /\ lapped[c] \in BOOLEAN
          /\ kind # "environment" => row.key \in Keys
          /\ row.enabled => row.account # Missing
      BY <1>1, <1>2, <1>3, <2>3, <2>4, <2>6
    <3> HIDE DEF c
    <3>4. QED
      BY <1>1, <1>2, <1>3, <2>6, <2>7, <2>3, <2>9, <3>1, <3>2, <3>3, Written
  <2>11. ConnStepSound(c)
    BY <2>5, <2>6, <2>7 DEF ConnStepSound, was
  <2>12. QED
    BY <2>10, <2>11
<1>6. QED
  BY <1>4, <1>5

LEMMA InstallKeeps ==
  ASSUME ConnInv, NEW q \in Asks, Install(q)
  PROVE  ConnInv' /\ \A d \in Known : ConnStepSound(d)
<1> DEFINE c == ask[q].conn
           rd == ask[q].read
           was == conn[c]
<1>1. /\ ask[q] # Missing /\ ask[q].op = "install" /\ Answered(q)
      /\ UNCHANGED <<kind, arrival, install, env, lapped>>
  BY DEF Install
<1>2. /\ AskSound(ask[q]) /\ env \in Keys /\ c \in Known /\ c \in Conns /\ was \in Row /\ RowSound(c)
      /\ rd \in Row /\ rd.revision \in Nat /\ was.revision \in Nat
      /\ ask' \in [Asks -> Ask \cup {Missing}] /\ ask'[q] = Missing
      /\ \A p \in Asks : ask'[p] \in {Missing, ask[p]}
  BY <1>1, GoesOn
<1>3. /\ arrival' \in [Arrivals -> Conns \cup {Missing}]
      /\ \A f \in Arrivals : arrival'[f] \in {Missing, arrival[f]}
      /\ install' \in [Conns -> 1..MaxRevision \cup {Missing}] /\ env' \in Keys \cup {Missing}
      /\ lapped \in [Conns -> BOOLEAN]
  BY <1>1 DEF ConnInv, ConnTypeOK
<1>4. CASE UNCHANGED conn
  BY <1>1, <1>2, <1>3, <1>4, Fewer
<1>5. ASSUME ~UNCHANGED conn
      PROVE  ConnInv' /\ \A d \in Known : ConnStepSound(d)
  <2>1. was.revision = rd.revision
    BY <1>5 DEF Install, UnchangedSince
  <2> DEFINE seen(account) == VerifiedRow(was, account)
             installed(account) == [seen(account) EXCEPT !.key = rd.key, !.token = account,
                                      !.enabled = FALSE, !.revision = @ + 1]
  <2>2. PICK account \in Accounts : Belongs(c, account) /\ Store(c, installed(account))
    BY <1>5 DEF Install
  <2> DEFINE row == installed(account)
             mid == seen(account)
  <2>3. /\ rd.revision < MaxRevision /\ rd.key \in Keys \cup {Missing}
        /\ kind # "environment" => rd.key \in Keys
    BY <1>1, <1>2 DEF AskSound, Row
  <2>4. account \in Accounts /\ account # Missing
    BY <2>2, ConnAssumption
  <2>5. was.account # Missing => account = was.account
    BY <2>2 DEF Belongs
  <2> HIDE DEF was, rd
  <2>6. /\ mid \in Row /\ mid.account = account
        /\ mid.revision = was.revision
    <3>1. mid = VerifiedRow(was, account)
      OBVIOUS
    <3> HIDE DEF mid
    <3>2. QED
      BY <1>2, <2>3, <2>4, <3>1 DEF VerifiedRow, Row
  <2>7. row = [mid EXCEPT !.key = rd.key, !.token = account, !.enabled = FALSE, !.revision = @ + 1]
    OBVIOUS
  <2>8. conn'[c] = row /\ Store(c, row)
    BY <1>2, <2>2 DEF Store, ConnInv, ConnTypeOK
  <2> HIDE DEF row, mid, seen, installed
  <2>9. was.revision + 1 \in 1..MaxRevision
    BY <1>2, <2>1, <2>3, ConnAssumption
  <2>10. /\ row \in Row /\ row.account = account /\ row.token = account /\ row.key = rd.key
         /\ row.revision = was.revision + 1 /\ row.enabled = FALSE
    BY <2>3, <2>4, <2>6, <2>7, <2>9 DEF Row
  <2>11. Became(was, row)
    BY <1>2, <2>10 DEF Became
  <2>12. ConnInv' /\ \A d \in Known \ {c} : ConnStepSound(d)
    <3>1. conn[c].account # Missing => row.account = conn[c].account
      BY <2>5, <2>10 DEF was
    <3>2. Became(conn[c], row)
      BY <2>11 DEF was
    <3>3. /\ lapped' = [lapped EXCEPT ![c] = lapped[c]] /\ lapped[c] \in BOOLEAN
          /\ kind # "environment" => row.key \in Keys
          /\ ~row.enabled
      BY <1>1, <1>2, <1>3, <2>3, <2>10
    <3> HIDE DEF c
    <3>4. QED
      BY <1>1, <1>2, <1>3, <2>8, <2>10, <3>1, <3>2, <3>3, Written
  <2>13. ConnStepSound(c)
    BY <2>5, <2>8, <2>10 DEF ConnStepSound, was
  <2>14. QED
    BY <2>12, <2>13
<1>6. QED
  BY <1>4, <1>5

LEMMA AdmitArrivalKeeps ==
  ASSUME ConnInv, NEW f \in Arrivals, AdmitArrival(f)
  PROVE  ConnInv' /\ \A d \in Known : ConnStepSound(d)
<1> DEFINE c == arrival[f]
           was == conn[c]
           row == Heard(was)
<1>1. /\ arrival[f] # Missing /\ arrival' = [arrival EXCEPT ![f] = Missing]
      /\ Store(c, row) /\ UNCHANGED <<kind, ask, install, env, lapped>>
  BY DEF AdmitArrival
<1>2. ConnTypeOK /\ c \in Known
  BY <1>1 DEF ConnInv
<1>3. /\ c \in Conns /\ was \in Row /\ was.revision \in Nat /\ RowSound(c)
  BY <1>2, RowsAre DEF ConnInv
<1>4. /\ arrival' \in [Arrivals -> Conns \cup {Missing}]
      /\ \A e \in Arrivals : arrival'[e] \in {Missing, arrival[e]}
      /\ ask' \in [Asks -> Ask \cup {Missing}] /\ \A q \in Asks : ask'[q] \in {Missing, ask[q]}
      /\ lapped \in [Conns -> BOOLEAN] /\ conn \in [Conns -> Row \cup {Missing}]
  BY <1>1, <1>2 DEF ConnTypeOK
<1> HIDE DEF c
<1>5. conn'[c] = row
  BY <1>1, <1>3, <1>4 DEF Store
<1>6. /\ row \in Row /\ row.account = was.account /\ row.key = was.key /\ row.enabled = was.enabled
      /\ row.token = was.token /\ row.revision = was.revision /\ row.inbound = TRUE
      /\ row.state = IF was.account # Missing THEN "ready" ELSE was.state
  <2> HIDE DEF was
  <2>1. QED
    BY <1>3 DEF Heard, Row
<1>7. /\ was.enabled => was.account # Missing
      /\ kind # "environment" => was.key \in Keys
      /\ ~lapped[c] /\ was.enabled => was.inbound /\ was.state \in Live
  BY <1>3 DEF RowSound
<1> HIDE DEF row
<1>8. Became(conn[c], row) /\ (row.enabled => row.inbound /\ row.state \in Live)
  BY <1>3, <1>6, <1>7 DEF Became, Live
<1>9. /\ lapped' = [lapped EXCEPT ![c] = lapped[c]] /\ lapped[c] \in BOOLEAN
      /\ kind # "environment" => row.key \in Keys
      /\ row.enabled => row.account # Missing
      /\ conn[c].account # Missing => row.account = conn[c].account
  BY <1>1, <1>3, <1>4, <1>6, <1>7
<1>10. ConnInv' /\ \A d \in Known \ {c} : ConnStepSound(d)
  BY <1>1, <1>2, <1>3, <1>4, <1>6, <1>8, <1>9, Written
<1>11. ConnStepSound(c)
  BY <1>1, <1>5, <1>6 DEF ConnStepSound
<1>12. QED
  BY <1>10, <1>11

\* The row that is marked, if it is, keeps all but its state.
LEMMA DeliveryEndsKeeps ==
  ASSUME ConnInv, NEW q \in Asks, DeliveryEnds(q)
  PROVE  ConnInv' /\ \A d \in Known : ConnStepSound(d)
<1> DEFINE c == ask[q].conn
           was == conn[c]
           row == Degraded(was, ask[q].read)
<1>1. /\ ask[q] # Missing /\ Answered(q)
      /\ Store(c, row) \/ UNCHANGED conn
      /\ UNCHANGED <<kind, arrival, install, env, lapped>>
  BY DEF DeliveryEnds
<1>2. /\ env \in Keys /\ c \in Known /\ c \in Conns /\ was \in Row /\ RowSound(c)
      /\ was.revision \in Nat
      /\ ask' \in [Asks -> Ask \cup {Missing}] /\ ask'[q] = Missing
      /\ \A p \in Asks : ask'[p] \in {Missing, ask[p]}
  BY <1>1, GoesOn DEF DeliveryEnds
<1>3. /\ arrival' \in [Arrivals -> Conns \cup {Missing}]
      /\ \A f \in Arrivals : arrival'[f] \in {Missing, arrival[f]}
      /\ install' \in [Conns -> 1..MaxRevision \cup {Missing}] /\ env' \in Keys \cup {Missing}
      /\ lapped \in [Conns -> BOOLEAN] /\ conn \in [Conns -> Row \cup {Missing}]
  BY <1>1 DEF ConnInv, ConnTypeOK
<1>4. CASE UNCHANGED conn
  BY <1>1, <1>2, <1>3, <1>4, Fewer
<1>5. ASSUME Store(c, row)
      PROVE  ConnInv' /\ \A d \in Known : ConnStepSound(d)
  <2>1. conn'[c] = row
    BY <1>2, <1>3, <1>5 DEF Store
  <2>2. /\ row \in Row /\ row.account = was.account /\ row.key = was.key /\ row.token = was.token
        /\ row.enabled = was.enabled /\ row.inbound = was.inbound /\ row.dated = was.dated
        /\ row.revision = was.revision /\ row.state \in {was.state, "degraded"}
    <3> HIDE DEF was
    <3>1. CASE ask[q].read.state = "degraded"
      BY <1>2, <3>1 DEF Degraded
    <3>2. CASE ask[q].read.state # "degraded"
      BY <1>2, <3>2 DEF Degraded, Row
    <3>3. QED
      BY <3>1, <3>2
  <2>3. /\ was.enabled => was.account # Missing
        /\ kind # "environment" => was.key \in Keys
        /\ ~lapped[c] /\ was.enabled => was.inbound /\ was.state \in Live
    BY <1>2 DEF RowSound, Live
  <2> HIDE DEF row, c
  <2>5. /\ lapped' = [lapped EXCEPT ![c] = lapped[c]] /\ lapped[c] \in BOOLEAN
        /\ kind # "environment" => row.key \in Keys
        /\ row.enabled => row.account # Missing
        /\ conn[c].account # Missing => row.account = conn[c].account
    BY <1>1, <1>2, <1>3, <2>2, <2>3
  <2>6. Became(conn[c], row) /\ (~lapped[c] /\ row.enabled => row.inbound /\ row.state \in Live)
    BY <1>2, <2>2, <2>3 DEF Became, Live
  <2>7. ConnInv' /\ \A d \in Known \ {c} : ConnStepSound(d)
    BY <1>1, <1>2, <1>3, <1>5, <2>2, <2>5, <2>6, Written
  <2>8. ConnStepSound(c)
    BY <1>1, <2>1, <2>2 DEF ConnStepSound
  <2>9. QED
    BY <2>7, <2>8
<1>6. QED
  BY <1>1, <1>4, <1>5

LEMMA VerifyLegacyKeeps ==
  ASSUME ConnInv, NEW c \in Conns, VerifyLegacy(c)
  PROVE  ConnInv' /\ \A d \in Known : ConnStepSound(d)
<1> DEFINE was == conn[c]
           account == AccountOf(env)
           seen == VerifiedRow(was, account)
           row == [seen EXCEPT !.enabled = EnabledAfter(was), !.state = "ready", !.inbound = TRUE]
<1>1. /\ env # Missing /\ kind = "environment" /\ c \in Known /\ Belongs(c, account) /\ Store(c, row)
      /\ UNCHANGED <<kind, ask, arrival, install, env, lapped>>
  BY DEF VerifyLegacy
<1>2. ConnTypeOK /\ was \in Row /\ was.revision \in Nat /\ RowSound(c)
  BY <1>1, RowsAre DEF ConnInv
<1>3. /\ arrival' \in [Arrivals -> Conns \cup {Missing}]
      /\ \A e \in Arrivals : arrival'[e] \in {Missing, arrival[e]}
      /\ ask' \in [Asks -> Ask \cup {Missing}] /\ \A q \in Asks : ask'[q] \in {Missing, ask[q]}
      /\ lapped \in [Conns -> BOOLEAN] /\ conn \in [Conns -> Row \cup {Missing}] /\ env \in Keys
  BY <1>1, <1>2 DEF ConnTypeOK
<1>4. account \in Accounts /\ account # Missing /\ (was.account # Missing => account = was.account)
  BY <1>1, <1>3, AccountOfIs, ConnAssumption DEF Belongs
<1>5. conn'[c] = row
  BY <1>1, <1>3 DEF Store
<1> HIDE DEF account
<1>6. /\ row \in Row /\ row.account = account /\ row.revision = was.revision
      /\ row.enabled = EnabledAfter(was) /\ row.inbound = TRUE /\ row.state = "ready"
  <2> HIDE DEF was
  <2>1. seen \in Row /\ seen.account = account /\ seen.revision = was.revision
    <3>1. seen = VerifiedRow(was, account)
      OBVIOUS
    <3> HIDE DEF seen
    <3>2. QED
      BY <1>2, <1>4, <3>1 DEF VerifiedRow, Row
  <2>2. EnabledAfter(was) \in BOOLEAN
    BY <1>2 DEF EnabledAfter, Row
  <2> HIDE DEF seen
  <2>3. QED
    BY <2>1, <2>2 DEF Row
<1> HIDE DEF row
<1>7. Became(conn[c], row) /\ row.state \in Live
  BY <1>1, <1>2, <1>6 DEF Became, Live
<1>8. /\ lapped' = [lapped EXCEPT ![c] = lapped[c]] /\ lapped[c] \in BOOLEAN
      /\ row.account # Missing
      /\ conn[c].account # Missing => row.account = conn[c].account
  BY <1>1, <1>2, <1>3, <1>4, <1>6
<1>9. ConnInv' /\ \A d \in Known \ {c} : ConnStepSound(d)
  BY <1>1, <1>2, <1>3, <1>6, <1>7, <1>8, Written
<1>10. ConnStepSound(c)
  BY <1>1, <1>4, <1>5, <1>6 DEF ConnStepSound, EnabledAfter
<1>11. QED
  BY <1>9, <1>10

\* A request begins with the row as it is.
LEMMA AskForKeeps ==
  ASSUME ConnInv, NEW q \in Asks, NEW c \in Conns, NEW op \in {"rotate", "enable", "disable", "check", "install", "send"},
         NEW key \in Keys \cup {Missing}, NEW token \in Accounts \cup {Missing},
         op = "rotate" => key \in Keys, AskFor(q, c, op, key, token),
         install' \in [Conns -> 1..MaxRevision \cup {Missing}]
  PROVE  ConnInv' /\ \A d \in Known : ConnStepSound(d)
<1> DEFINE a == [op |-> op, conn |-> c, key |-> key, token |-> token, read |-> conn[c]]
<1>1. /\ env # Missing /\ c \in Known
      /\ op \notin {"check", "send"} => conn[c].revision < MaxRevision
      /\ ask' = [ask EXCEPT ![q] = a] /\ UNCHANGED <<kind, conn, arrival, env, lapped>>
  BY DEF AskFor
<1>2. ConnTypeOK /\ conn[c] \in Row /\ RowSound(c) /\ conn[c].revision \in Nat
  BY <1>1, RowsAre DEF ConnInv
<1>3. a \in Ask /\ a.conn = c /\ a.op = op /\ a.key = key /\ a.read = conn[c]
  BY <1>2 DEF Ask
<1> HIDE DEF a
<1>4. ask \in [Asks -> Ask \cup {Missing}]
  BY <1>2 DEF ConnTypeOK
<1>5. ask'[q] = a /\ \A p \in Asks \ {q} : ask'[p] = ask[p]
  BY <1>1, <1>4
<1>6. ConnTypeOK'
  BY <1>1, <1>2, <1>3 DEF ConnTypeOK
<1>7. Known' = Known /\ \A d \in Known : RowSound(d)'
  BY <1>1 DEF ConnInv, Known, RowSound
<1>8. AskSound(ask[q])'
  <2>1. ask'[q] = a
    BY <1>5
  <2>2. a.conn \in Known /\ (a.op \notin {"check", "send"} => a.read.revision < MaxRevision)
    BY <1>1, <1>3
  <2>3. Became(conn[c], conn[c])
    BY <1>2 DEF Became
  <2>4. kind # "environment" => conn[c].key \in Keys
    BY <1>2 DEF RowSound
  <2>5. QED
    BY <1>1, <1>3, <1>7, <2>1, <2>2, <2>3, <2>4 DEF AskSound, Became
<1>9. ASSUME NEW p \in Asks, ask'[p] # Missing PROVE env' # Missing /\ AskSound(ask[p])'
  <2>1. CASE p = q
    BY <1>1, <1>8, <2>1
  <2>2. CASE p # q
    <3>1. ask'[p] = ask[p] /\ AskSound(ask[p])
      BY <1>5, <1>9, <2>2 DEF ConnInv
    <3>2. AskSound(ask[p])'
      BY <1>1, <1>7, <3>1 DEF AskSound, Became
    <3>3. QED
      BY <1>1, <3>2
  <2>3. QED
    BY <2>1, <2>2
<1>10. \A f \in Arrivals : arrival'[f] # Missing => arrival'[f] \in Known'
  BY <1>1, <1>7 DEF ConnInv
<1>11. \A d \in Known : ConnStepSound(d)
  BY <1>1 DEF ConnStepSound
<1>12. QED
  BY <1>6, <1>7, <1>9, <1>10, <1>11 DEF ConnInv

LEMMA PatchBeginsKeeps ==
  ASSUME ConnInv, NEW q \in Asks, NEW c \in Conns, PatchBegins(q, c)
  PROVE  ConnInv' /\ \A d \in Known : ConnStepSound(d)
<1>1. install' \in [Conns -> 1..MaxRevision \cup {Missing}]
  BY DEF PatchBegins, ConnInv, ConnTypeOK
<1>2. ASSUME NEW key \in Keys, NEW token \in Tokens, AskFor(q, c, "rotate", key, token)
      PROVE  ConnInv' /\ \A d \in Known : ConnStepSound(d)
  BY <1>1, <1>2, AskForKeeps, TokensAre
<1>3. ASSUME NEW op \in {"enable", "disable"}, AskFor(q, c, op, Missing, Missing)
      PROVE  ConnInv' /\ \A d \in Known : ConnStepSound(d)
  BY <1>1, <1>3, AskForKeeps
<1>4. QED
  BY <1>2, <1>3 DEF PatchBegins

LEMMA CheckBeginsKeeps ==
  ASSUME ConnInv, NEW q \in Asks, NEW c \in Conns, CheckBegins(q, c)
  PROVE  ConnInv' /\ \A d \in Known : ConnStepSound(d)
<1>1. install' \in [Conns -> 1..MaxRevision \cup {Missing}] /\ AskFor(q, c, "check", Missing, Missing)
  BY DEF CheckBegins, ConnInv, ConnTypeOK
<1>2. QED
  BY <1>1, AskForKeeps

LEMMA DeliveryBeginsKeeps ==
  ASSUME ConnInv, NEW q \in Asks, NEW c \in Conns, DeliveryBegins(q, c)
  PROVE  ConnInv' /\ \A d \in Known : ConnStepSound(d)
<1>1. install' \in [Conns -> 1..MaxRevision \cup {Missing}] /\ AskFor(q, c, "send", Missing, Missing)
  BY DEF DeliveryBegins, ConnInv, ConnTypeOK
<1>2. QED
  BY <1>1, AskForKeeps

\* A listener begins, an installation is offered: no row and no request changes.
LEMMA ConnRowsStay ==
  ASSUME ConnInv, UNCHANGED <<kind, conn, ask, env, lapped>>,
         install' \in [Conns -> 1..MaxRevision \cup {Missing}],
         arrival' \in [Arrivals -> Known \cup {Missing}]
  PROVE  ConnInv' /\ \A d \in Known : ConnStepSound(d)
<1>1. ConnTypeOK'
  BY DEF ConnInv, ConnTypeOK, Known
<1>2. Known' = Known /\ \A d \in Known : RowSound(d)'
  BY DEF ConnInv, Known, RowSound
<1>3. \A p \in Asks : ask'[p] # Missing => env' # Missing /\ AskSound(ask[p])'
  BY <1>2 DEF ConnInv, AskSound, Became
<1>4. QED
  BY <1>1, <1>2, <1>3 DEF ConnInv, ConnStepSound

LEMMA InstallBeginsKeeps ==
  ASSUME ConnInv, NEW q \in Asks, NEW c \in Conns, InstallBegins(q, c)
  PROVE  ConnInv' /\ \A d \in Known : ConnStepSound(d)
<1>1. install' \in [Conns -> 1..MaxRevision \cup {Missing}]
  BY DEF InstallBegins, ConnInv, ConnTypeOK
<1>2. CASE AskFor(q, c, "install", Missing, Missing)
  BY <1>1, <1>2, AskForKeeps
<1>3. CASE UNCHANGED <<kind, conn, ask, arrival, env, lapped>>
  <2>1. arrival' \in [Arrivals -> Known \cup {Missing}]
    BY <1>3 DEF ConnInv, ConnTypeOK
  <2>2. QED
    BY <1>1, <1>3, <2>1, ConnRowsStay
<1>4. QED
  BY <1>2, <1>3 DEF InstallBegins

LEMMA OfferKeeps ==
  ASSUME ConnInv, NEW c \in Conns, InstallOffered(c)
  PROVE  ConnInv' /\ \A d \in Known : ConnStepSound(d)
<1>1. UNCHANGED <<kind, conn, ask, arrival, env, lapped>> /\ c \in Known /\ conn[c] \in Row
  BY RowsAre DEF InstallOffered, ConnInv
<1>2. conn[c].revision \in 1..MaxRevision
  BY <1>1 DEF Row
<1>3. /\ install' \in [Conns -> 1..MaxRevision \cup {Missing}]
      /\ arrival' \in [Arrivals -> Known \cup {Missing}]
  BY <1>1, <1>2 DEF InstallOffered, ConnInv, ConnTypeOK
<1>4. QED
  BY <1>1, <1>3, ConnRowsStay

LEMMA ListenKeeps ==
  ASSUME ConnInv, NEW f \in Arrivals, NEW c \in Conns, Listen(f, c)
  PROVE  ConnInv' /\ \A d \in Known : ConnStepSound(d)
<1>1. /\ UNCHANGED <<kind, conn, ask, install, env, lapped>> /\ c \in Known
      /\ arrival' = [arrival EXCEPT ![f] = c]
  BY DEF Listen
<1>2. /\ install' \in [Conns -> 1..MaxRevision \cup {Missing}]
      /\ arrival' \in [Arrivals -> Known \cup {Missing}]
  BY <1>1 DEF ConnInv, ConnTypeOK
<1>3. QED
  BY <1>1, <1>2, ConnRowsStay

\* A row that nobody refers to yet.
LEMMA Created ==
  ASSUME ConnInv, NEW c \in Conns, conn[c] = Missing, NEW key \in Keys \cup {Missing},
         NEW token \in Accounts \cup {Missing}, NEW state \in {"unconfigured", "awaiting_installation"}, kind # "environment" => key \in Keys,
         Store(c, NewRow(key, token, state)), UNCHANGED <<kind, ask, arrival, install, lapped>>,
         env' \in Keys, env = Missing \/ env' = env
  PROVE  ConnInv' /\ \A d \in Known : ConnStepSound(d)
<1> DEFINE row == NewRow(key, token, state)
<1>1. /\ ConnTypeOK /\ Missing \notin Row /\ 1 \in 1..MaxRevision
      /\ conn \in [Conns -> Row \cup {Missing}] /\ Missing \notin Keys
  BY ConnAssumption DEF ConnInv, ConnTypeOK
<1>2. row \in Row /\ ~row.enabled /\ row.key = key
  BY <1>1 DEF NewRow, Row
<1>3. conn' = [conn EXCEPT ![c] = row]
  BY DEF Store
<1> HIDE DEF row
<1>4. conn'[c] = row /\ \A d \in Conns \ {c} : conn'[d] = conn[d]
  BY <1>1, <1>3
<1>5. ConnTypeOK'
  BY <1>1, <1>2, <1>3 DEF ConnTypeOK
<1>6. Known' = Known \cup {c} /\ c \notin Known /\ \A d \in Known : conn'[d] = conn[d] /\ d \in Conns
  BY <1>1, <1>2, <1>4 DEF Known
<1>7. ASSUME NEW d \in Known' PROVE RowSound(d)'
  <2>1. CASE d = c
    BY <1>2, <1>4, <2>1 DEF RowSound
  <2>2. CASE d # c
    BY <1>6, <1>7, <2>2 DEF RowSound, ConnInv
  <2>3. QED
    BY <2>1, <2>2
<1>8. ASSUME NEW p \in Asks, ask'[p] # Missing PROVE env' # Missing /\ AskSound(ask[p])'
  <2>1. ask'[p] = ask[p] /\ AskSound(ask[p])
    BY <1>8 DEF ConnInv
  <2>2. conn'[ask[p].conn] = conn[ask[p].conn] /\ ask[p].conn \in Known'
    BY <1>6, <2>1 DEF AskSound
  <2>3. AskSound(ask[p])'
    BY <2>1, <2>2 DEF AskSound, Became
  <2>4. QED
    BY <1>1, <1>8, <2>3 DEF ConnInv
<1>9. \A f \in Arrivals : arrival'[f] # Missing => arrival'[f] \in Known'
  BY <1>6 DEF ConnInv
<1>10. \A d \in Known : ConnStepSound(d)
  BY <1>6 DEF ConnStepSound
<1>11. QED
  BY <1>5, <1>7, <1>8, <1>9, <1>10 DEF ConnInv

LEMMA CreateKeeps ==
  ASSUME ConnInv, NEW c \in Conns, NEW key \in Keys, NEW token \in Tokens, Create(c, key, token)
  PROVE  ConnInv' /\ \A d \in Known : ConnStepSound(d)
<1> DEFINE state == IF kind = "slack" THEN "awaiting_installation" ELSE "unconfigured"
<1>1. /\ conn[c] = Missing /\ Store(c, NewRow(key, token, state)) /\ env # Missing
      /\ UNCHANGED <<kind, ask, arrival, install, env, lapped>>
  BY DEF Create
<1>2. state \in {"unconfigured", "awaiting_installation"} /\ env' \in Keys
  BY <1>1 DEF ConnInv, ConnTypeOK
<1> HIDE DEF state
<1>3. QED
  BY <1>1, <1>2, Created, TokensAre

LEMMA StartKeeps ==
  ASSUME ConnInv, NEW key \in Keys, Start(key)
  PROVE  ConnInv' /\ \A d \in Known : ConnStepSound(d)
<1>1. /\ env = Missing /\ env' = key /\ UNCHANGED <<kind, ask, arrival, install, lapped>>
  BY DEF Start
<1>2. ConnTypeOK /\ \A q \in Asks : ask[q] = Missing
  BY <1>1 DEF ConnInv
<1>3. CASE UNCHANGED conn
  <2>1. /\ install' \in [Conns -> 1..MaxRevision \cup {Missing}]
        /\ ask' \in [Asks -> Ask \cup {Missing}] /\ arrival' \in [Arrivals -> Conns \cup {Missing}]
        /\ \A q \in Asks : ask'[q] \in {Missing, ask[q]} /\ ask'[q] = Missing
        /\ \A f \in Arrivals : arrival'[f] \in {Missing, arrival[f]}
    BY <1>1, <1>2 DEF ConnTypeOK
  <2>2. QED
    BY <1>1, <1>3, <2>1, Fewer
<1>4. ASSUME ~UNCHANGED conn
      PROVE  ConnInv' /\ \A d \in Known : ConnStepSound(d)
  <2> DEFINE c == CHOOSE d \in Conns : TRUE
  <2>1. kind = "environment" /\ Known = {} /\ Store(c, NewRow(Missing, Missing, "unconfigured"))
    BY <1>4 DEF Start
  <2> HIDE DEF c
  <2>2. c \in Conns
    BY <1>2, <1>4, <2>1 DEF Store, ConnTypeOK
  <2>3. conn[c] = Missing
    BY <2>1, <2>2 DEF Known
  <2>4. QED
    BY <1>1, <2>1, <2>2, <2>3, Created
<1>5. QED
  BY <1>3, <1>4

LEMMA StopKeeps ==
  ASSUME ConnInv, Stop
  PROVE  ConnInv' /\ \A d \in Known : ConnStepSound(d)
<1>1. /\ env' \in Keys \cup {Missing} /\ UNCHANGED <<kind, conn, lapped>>
      /\ install' \in [Conns -> 1..MaxRevision \cup {Missing}]
      /\ ask' \in [Asks -> Ask \cup {Missing}] /\ arrival' \in [Arrivals -> Conns \cup {Missing}]
      /\ \A q \in Asks : ask'[q] \in {Missing, ask[q]} /\ ask'[q] = Missing
      /\ \A f \in Arrivals : arrival'[f] \in {Missing, arrival[f]}
  BY DEF Stop, ConnInv, ConnTypeOK
<1>2. QED
  BY <1>1, Fewer

LEMMA ConnInductive ==
  /\ ConnInit => ConnInv
  /\ ConnInv /\ [ConnNext]_connVars => ConnInv' /\ (\A d \in Known : ConnStepSound(d))
<1>1. ConnInit => ConnInv
  BY DEF ConnInit, ConnInv, ConnTypeOK, Known
<1>2. ASSUME ConnInv, ConnNext
      PROVE  ConnInv' /\ (\A d \in Known : ConnStepSound(d))
  <2>1. ASSUME NEW c \in Conns, NEW key \in Keys, NEW token \in Tokens, Create(c, key, token)
        PROVE  ConnInv' /\ \A d \in Known : ConnStepSound(d)
    BY <1>2, <2>1, CreateKeeps
  <2>2. ASSUME NEW c \in Conns, InstallOffered(c) \/ VerifyLegacy(c)
        PROVE  ConnInv' /\ \A d \in Known : ConnStepSound(d)
    BY <1>2, <2>2, OfferKeeps, VerifyLegacyKeeps
  <2>3. ASSUME NEW c \in Conns, NEW q \in Asks,
               \/ PatchBegins(q, c) \/ CheckBegins(q, c) \/ InstallBegins(q, c)
               \/ DeliveryBegins(q, c)
        PROVE  ConnInv' /\ \A d \in Known : ConnStepSound(d)
    BY <1>2, <2>3, PatchBeginsKeeps, CheckBeginsKeeps, InstallBeginsKeeps,
       DeliveryBeginsKeeps
  <2>4. ASSUME NEW c \in Conns, NEW f \in Arrivals, Listen(f, c)
        PROVE  ConnInv' /\ \A d \in Known : ConnStepSound(d)
    BY <1>2, <2>4, ListenKeeps
  <2>5. ASSUME NEW q \in Asks, Patch(q) \/ Check(q) \/ Install(q) \/ DeliveryEnds(q)
        PROVE  ConnInv' /\ \A d \in Known : ConnStepSound(d)
    BY <1>2, <2>5, PatchKeeps, CheckKeeps, InstallKeeps, DeliveryEndsKeeps
  <2>6. ASSUME NEW f \in Arrivals, AdmitArrival(f)
        PROVE  ConnInv' /\ \A d \in Known : ConnStepSound(d)
    BY <1>2, <2>6, AdmitArrivalKeeps
  <2>7. ASSUME NEW key \in Keys, Start(key)
        PROVE  ConnInv' /\ \A d \in Known : ConnStepSound(d)
    BY <1>2, <2>7, StartKeeps
  <2>8. CASE Stop
    BY <1>2, <2>8, StopKeeps
  <2>9. QED
    BY <1>2, <2>1, <2>2, <2>3, <2>4, <2>5, <2>6, <2>7, <2>8 DEF ConnNext
<1>3. ASSUME ConnInv, UNCHANGED connVars PROVE ConnInv' /\ \A d \in Known : ConnStepSound(d)
  BY <1>3 DEF connVars, ConnInv, ConnTypeOK, Known, RowSound, AskSound, Became, ConnStepSound
<1>4. QED
  BY <1>1, <1>2, <1>3 DEF connVars

\* What a check or an installation records is recorded on the credentials it read: a
\* row that an edit has written since has another revision.
LEMMA AnswersAreForTheirKeys ==
  ASSUME ConnInv, ConnNext, conn' # conn, NEW q \in Asks,
         ask[q] # Missing, ask[q].op \in {"check", "install"}, ask'[q] = Missing,
         kind # "environment", ~lapped[ask[q].conn]
  PROVE  Secret(conn[ask[q].conn]) = Secret(ask[q].read)
<1>1. ASSUME NEW p \in Asks, Answered(p) PROVE p = q
  BY <1>1 DEF Answered, ConnInv, ConnTypeOK
<1>2. CASE Check(q) \/ Install(q)
  <2>1. conn[ask[q].conn].revision = ask[q].read.revision
    BY <1>2 DEF Check, Install, UnchangedSince
  <2>2. Became(ask[q].read, conn[ask[q].conn])
    BY DEF ConnInv, AskSound
  <2>3. QED
    BY <2>1, <2>2 DEF Became, Secret
<1>3. ASSUME NEW c \in Conns,
             \/ \E key \in Keys, token \in Tokens : Create(c, key, token)
             \/ InstallOffered(c) \/ VerifyLegacy(c)
      PROVE  FALSE
  BY <1>3 DEF Create, InstallOffered, VerifyLegacy
<1>4. ASSUME NEW c \in Conns, NEW p \in Asks,
             PatchBegins(p, c) \/ CheckBegins(p, c) \/ InstallBegins(p, c) \/ DeliveryBegins(p, c)
      PROVE  FALSE
  BY <1>4 DEF PatchBegins, CheckBegins, InstallBegins, DeliveryBegins, AskFor
<1>5. ASSUME NEW p \in Asks, Patch(p) \/ DeliveryEnds(p) PROVE FALSE
  BY <1>1, <1>5 DEF Patch, DeliveryEnds
<1>6. ASSUME NEW p \in Asks, Check(p) \/ Install(p) PROVE Check(q) \/ Install(q)
  BY <1>1, <1>6 DEF Check, Install
<1>7. ASSUME NEW f \in Arrivals, AdmitArrival(f) \/ \E c \in Conns : Listen(f, c) PROVE FALSE
  BY <1>7 DEF AdmitArrival, Listen
<1>8. ASSUME (\E key \in Keys : Start(key)) \/ Stop PROVE FALSE
  BY <1>8 DEF Start, Stop
<1>9. QED
  BY <1>2, <1>3, <1>4, <1>5, <1>6, <1>7, <1>8 DEF ConnNext

\* The state of the rows, the requests and the listeners stays of its type.
THEOREM ConnTypeCorrect == ConnSpec => []ConnTypeOK
<1>1. ConnInv => ConnTypeOK
  BY DEF ConnInv
<1>2. QED
  BY ConnInductive, <1>1, PTL DEF ConnSpec

\* However edits, checks, installations, deliveries, arrivals and starts overlap: an
\* account once verified stays, what is enabled has one, and as long as no edit was
\* written over another it is ready or was refused a delivery, and an answer of the
\* provider is recorded for the credentials it was asked with.
THEOREM ConnectionsAreSound == ConnSpec => ConnectionsSound
<1>1. ConnInv => ConnTypeOK /\ EnabledHasAccount /\ EnabledIsReady
  BY DEF ConnInv, RowSound, EnabledHasAccount, EnabledIsReady, Live
<1>2. ConnInv /\ [ConnNext]_connVars =>
        [conn' # conn => \A c \in Known : conn[c].account # Missing => conn'[c].account = conn[c].account]_connVars
  BY ConnInductive DEF ConnStepSound
<1>3. ConnInv /\ [ConnNext]_connVars =>
        [conn' # conn => \A q \in Asks :
           /\ ask[q] # Missing /\ ask[q].op \in {"check", "install"} /\ ask'[q] = Missing
           /\ kind # "environment" /\ ~lapped[ask[q].conn]
           => Secret(conn[ask[q].conn]) = Secret(ask[q].read)]_connVars
  BY AnswersAreForTheirKeys DEF connVars
<1>4. ConnInv /\ [ConnNext]_connVars =>
        [conn' # conn => \A c \in Known : conn[c].dated /\ ~conn[c].enabled /\ conn'[c].enabled =>
           \E q \in Asks : ask[q] # Missing /\ ask[q].op = "enable" /\ ask'[q] = Missing]_connVars
  BY ConnInductive DEF ConnStepSound
<1>5. QED
  BY ConnInductive, <1>1, <1>2, <1>3, <1>4, PTL
  DEF ConnSpec, ConnectionsSound, AccountFixed, AnswerIsForItsKey, OwnersChoiceStays

-----------------------------------------------------------------------------
(* ProviderModes.                                                          *)
(* The clients in service were built at once, from credentials that were   *)
(* accepted.                                                               *)

Configurations == [Providers -> SUBSET Modes]
Rows           == [Providers -> Modes \cup {NoMode}]

\* The clients in service were all built from the same rows, though perhaps not
\* from those in the database; only of an accepted configuration are there any.
OneBundle ==
  /\ serving => /\ Accepted(credentials)
                /\ \E o \in Rows : clients = BuildClients(credentials, o)
  /\ ~serving => clients = NoClients

ModeInv == ModeTypeOK /\ OneBundle /\ LiveMatchesSaved

-----------------------------------------------------------------------------
(* A bundle that was built.                                                *)

\* A provider gets a client in its own mode as soon as it has credentials.
LEMMA ModeResolved ==
  ASSUME NEW c \in Configurations, NEW o \in Rows, NEW p \in Providers
  PROVE  LET modes == ResolveCredentials(c, Effective(c, o))
         IN /\ c[p] # {} => modes[p] \in c[p] /\ modes[p] # NoMode
            /\ modes[p] \in Modes \cup {NoMode}
<1>1. c[p] \subseteq Modes /\ o[p] \in Modes \cup {NoMode} /\ NoMode \notin Modes
  BY ProviderModesAssumption DEF Configurations, Rows, Modes
<1>2. c[p] # {} => Effective(c, o)[p] \in c[p]
  BY <1>1 DEF Effective, Honoured, DefaultMode, Modes
<1>3. QED
  BY <1>1, <1>2 DEF ResolveCredentials

\* What the clients of a bundle serve, seam by seam.
LEMMA BundleServes ==
  ASSUME NEW c \in Configurations, NEW o \in Rows, clients = BuildClients(c, o)
  PROVE  /\ DOMAIN clients = Seams
         /\ DOMAIN clients["image"] = Readers /\ DOMAIN clients["text"] = Providers
         /\ DOMAIN clients["search"] = Searchers
         /\ \A p \in Providers :
              /\ c[p] # {} => Serves("text", p)
              /\ p \in Readers => clients["image"][p] = clients["text"][p]
              /\ p \in Searchers \ FirstParty => clients["search"][p] = clients["text"][p]
              /\ p \in FirstParty /\ "api" \in c[p] => Serves("search", p)
<1> DEFINE modes == ResolveCredentials(c, Effective(c, o))
<1>1. clients = [image  |-> [p \in Readers |-> modes[p]],
                 text   |-> modes,
                 search |-> [p \in Searchers |-> SearchMode(c, modes, p)]]
  BY DEF BuildClients
<1>2. DOMAIN modes = Providers
  BY DEF ResolveCredentials
<1>3. \A p \in Providers : c[p] # {} => modes[p] # NoMode
  BY ModeResolved
<1> HIDE DEF modes
<1>4. /\ DOMAIN clients = Seams
      /\ clients["image"] = [p \in Readers |-> modes[p]] /\ clients["text"] = modes
      /\ clients["search"] = [p \in Searchers |-> SearchMode(c, modes, p)]
  BY <1>1 DEF Seams
<1>5. ASSUME NEW p \in FirstParty, "api" \in c[p] PROVE Serves("search", p)
  <2>1. p \in Providers /\ p \in Searchers /\ NoMode # "api"
    BY ProviderModesAssumption
  <2>2. SearchMode(c, modes, p) = "api"
    BY <1>3, <1>5, <2>1 DEF SearchMode
  <2>3. QED
    BY <1>4, <2>1, <2>2 DEF Serves
<1>6. \A p \in Searchers \ FirstParty : SearchMode(c, modes, p) = modes[p]
  BY DEF SearchMode
<1>7. QED
  BY <1>2, <1>3, <1>4, <1>5, <1>6, ProviderModesAssumption DEF Serves

-----------------------------------------------------------------------------
(* The invariant.                                                          *)

LEMMA BuiltIsABundle ==
  ASSUME NEW c, NEW o
  PROVE  DOMAIN BuildClients(c, o) = Seams
BY DEF BuildClients, Seams

LEMMA StagedIsRows ==
  ASSUME ModeInv, NEW p \in Providers, NEW mode \in Modes
  PROVE  Staged(p, mode) \in Rows
BY DEF ModeInv, ModeTypeOK, Staged, Rows

\* The invariant holds at first and every step keeps it.
LEMMA ModeInductive == ModeSpec => []ModeInv
<1>1. ModeInit => ModeInv
  BY ProviderModesAssumption DEF ModeInit, ModeInv, ModeTypeOK, OneBundle, LiveMatchesSaved,
     NoClients, Seams
<1>2. ModeInv /\ [ModeNext]_modeVars => ModeInv'
  <2> SUFFICES ASSUME ModeInv, [ModeNext]_modeVars PROVE ModeInv'
    OBVIOUS
  <2>1. override \in Rows /\ credentials \in Configurations
    BY DEF ModeInv, ModeTypeOK, Rows, Configurations
  <2>2. CASE Boot
    BY <2>1, <2>2, BuiltIsABundle
       DEF Boot, ModeInv, ModeTypeOK, OneBundle, LiveMatchesSaved
  <2>3. CASE Shutdown
    BY <2>3 DEF Shutdown, ModeInv, ModeTypeOK, OneBundle, LiveMatchesSaved, NoClients
  <2>4. ASSUME NEW p \in Providers, NEW modes \in SUBSET Modes, Reconfigure(p, modes)
        PROVE  ModeInv'
    BY <2>4 DEF Reconfigure, ModeInv, ModeTypeOK, OneBundle, LiveMatchesSaved
  <2>5. ASSUME NEW p \in Providers, ChooseProvider(p) PROVE ModeInv'
    BY <2>5 DEF ChooseProvider, ModeInv, ModeTypeOK, OneBundle, LiveMatchesSaved
  <2>6. ASSUME NEW p \in Providers, NEW mode \in Modes, RefuseMode(p, mode) PROVE ModeInv'
    BY <2>6 DEF RefuseMode, ModeInv, ModeTypeOK, OneBundle, LiveMatchesSaved
  <2>7. ASSUME NEW p \in Providers, NEW mode \in Modes, ApplyMode(p, mode) PROVE ModeInv'
    <3>1. Staged(p, mode) \in Rows
      BY StagedIsRows
    <3>2. QED
      BY <2>7, <3>1, BuiltIsABundle
         DEF ApplyMode, ModeInv, ModeTypeOK, OneBundle, LiveMatchesSaved, Rows
  <2>8. ASSUME NEW p \in Providers, NEW mode \in Modes, StageFails(p, mode) PROVE ModeInv'
    BY <2>8 DEF StageFails, ModeInv, ModeTypeOK, OneBundle, LiveMatchesSaved
  <2>9. ASSUME NEW p \in Providers, NEW mode \in Modes, NEW failed \in {"build", "commit"},
               NEW restored \in BOOLEAN, SwitchFails(p, mode, failed, restored)
        PROVE  ModeInv'
    <3>1. UNCHANGED <<credentials, override, serving, choice>> /\ serving
      BY <2>9 DEF SwitchFails
    <3>2. CASE restored
      <4>1. /\ clients' = BuildClients(credentials, override)
            /\ reply' = "restored" /\ unreconciled' = FALSE
        BY <2>9, <3>2 DEF SwitchFails
      <4>2. QED
        BY <2>1, <3>1, <4>1, BuiltIsABundle
           DEF ModeInv, ModeTypeOK, OneBundle, LiveMatchesSaved
    <3>3. CASE ~restored
      <4>1. /\ clients' = Interrupted(p, mode, failed)
            /\ reply' = "not restored" /\ unreconciled' = TRUE
        BY <2>9, <3>3 DEF SwitchFails
      <4>2. \/ clients' = clients
            \/ clients' = BuildClients(credentials, Staged(p, mode))
        BY <4>1 DEF Interrupted
      <4>3. QED
        BY <3>1, <4>1, <4>2, StagedIsRows, BuiltIsABundle
           DEF ModeInv, ModeTypeOK, OneBundle, LiveMatchesSaved
    <3>4. QED
      BY <3>2, <3>3
  <2>10. CASE UNCHANGED modeVars
    BY <2>10 DEF modeVars, ModeInv, ModeTypeOK, OneBundle, LiveMatchesSaved
  <2>11. QED
    BY <2>2, <2>3, <2>4, <2>5, <2>6, <2>7, <2>8, <2>9, <2>10 DEF ModeNext
<1>3. QED
  BY <1>1, <1>2, PTL DEF ModeSpec

-----------------------------------------------------------------------------
(* What follows from it.                                                   *)

LEMMA OneBundleServes ==
  ModeInv => EveryCredentialServes /\ OneModePerProvider /\ ReceiptsAreRead
<1> SUFFICES ASSUME ModeInv PROVE EveryCredentialServes /\ OneModePerProvider /\ ReceiptsAreRead
  OBVIOUS
<1>1. credentials \in Configurations
  BY DEF ModeInv, ModeTypeOK, Configurations
<1>2. CASE ~serving
  <2>1. clients = NoClients
    BY <1>2 DEF ModeInv, OneBundle
  <2>2. \A s \in Seams, p \in Providers : ~Serves(s, p)
    BY <2>1 DEF Serves, NoClients, Seams
  <2>3. QED
    BY <1>2, <2>2 DEF EveryCredentialServes, OneModePerProvider, ReceiptsAreRead, Seams
<1>3. CASE serving
  <2>1. PICK o \in Rows : clients = BuildClients(credentials, o)
    BY <1>3 DEF ModeInv, OneBundle
  <2>2. /\ DOMAIN clients["image"] = Readers /\ DOMAIN clients["text"] = Providers
        /\ DOMAIN clients["search"] = Searchers
        /\ \A p \in Providers :
             /\ credentials[p] # {} => Serves("text", p)
             /\ p \in Readers => clients["image"][p] = clients["text"][p]
             /\ p \in Searchers \ FirstParty => clients["search"][p] = clients["text"][p]
             /\ p \in FirstParty /\ "api" \in credentials[p] => Serves("search", p)
    BY <1>1, <2>1, BundleServes
  <2>3. \A p \in Readers : credentials[p] # {} => Serves("image", p)
    BY <2>2, ProviderModesAssumption DEF Serves
  <2>4. EveryCredentialServes
    BY <2>2, <2>3 DEF EveryCredentialServes
  <2>5. OneModePerProvider
    BY <2>2 DEF OneModePerProvider, Serves
  <2>6. \E p \in Readers : Serves("image", p) /\ (Default \in Readers => p = Default)
    BY <1>3, <2>3, ProviderModesAssumption DEF ModeInv, OneBundle, Accepted
  <2>7. ReceiptsAreRead
    BY <2>2, <2>6 DEF ReceiptsAreRead, ServedBy, SelectorDefaults
  <2>8. QED
    BY <2>4, <2>5, <2>7
<1>4. QED
  BY <1>2, <1>3

\* Types of the mode registry.
THEOREM ModesTypeCorrect == ModeSpec => []ModeTypeOK
BY ModeInductive, PTL DEF ModeInv

\* Whatever was switched, failed halfway, reconfigured or left behind in the
\* database: the clients in service are those a restart would build unless the
\* operator was told to restart, each provider with credentials serves all it
\* can in one mode, and a receipt can be read.
THEOREM ModesAreSound == ModeSpec => []ModesSound
<1>1. ModeInv => ModesSound
  BY OneBundleServes DEF ModeInv, ModesSound
<1>2. QED
  BY <1>1, ModeInductive, PTL

-----------------------------------------------------------------------------
(* Messages.                                                               *)
(* A message points to the last of its rows; the row under way is the one  *)
(* the sender holds, and every reference leads to a place of its own       *)
(* message.                                                                *)

Statuses == {"pending", "sending", "retry", "accepted", "unknown", "failed", "suppressed"}
QueueRow   == [request : Request, status : Statuses, tries : 0..MaxTries]
Place == [of : Messages, text : 1..MaxText]

MessageTables ==
  /\ message \in [Messages -> MessageRow \cup {Absent}]
  /\ queue \in Seq(QueueRow) /\ Len(queue) <= LastRow
  /\ held \in Request \cup {Absent} /\ wire \subseteq Request
  /\ shown \in Seq(Place) /\ Len(shown) <= LastRow

\* A message points to its last row, which has its text.
LastRows ==
  /\ \A m \in Messages : message[m] # Absent =>
       /\ message[m].row \in 1..Len(queue)
       /\ queue[message[m].row].request.of = m
       /\ queue[message[m].row].request.text = message[m].text
  /\ \A r \in 1..Len(queue) :
       message[queue[r].request.of] # Absent /\ r <= message[queue[r].request.of].row

\* The sender holds one row, as the row is; what the provider may yet take was
\* given up.
InFlight ==
  /\ held # Absent => \E r \in 1..Len(queue) : queue[r].status = "sending"
  /\ \A r \in 1..Len(queue) : queue[r].status = "sending" =>
       /\ held # Absent /\ held = queue[r].request
       /\ \A q \in 1..Len(queue) : queue[q].status = "sending" => q = r
  /\ \A w \in wire : \E r \in 1..Len(queue) :
       queue[r].status = "unknown" /\ queue[r].request = w

\* A row was tried once it is no longer queued, and a row that was tried has
\* overtaken those before it only if they were tried themselves.
TriesBounded ==
  /\ \A r \in 1..Len(queue) :
       /\ queue[r].status = "pending" => queue[r].tries = 0
       /\ queue[r].status \in {"sending", "retry", "accepted"} => queue[r].tries >= 1
       /\ queue[r].status = "retry" => queue[r].tries < MaxTries
  /\ \A r \in 1..Len(queue), q \in 1..Len(queue) :
       q < r /\ queue[r].tries >= 1 =>
         /\ queue[q].status # "pending"
         /\ queue[q].status = "sending" => queue[q].tries >= 2

\* Every reference in use is to a place of its own message.
Places ==
  /\ \A r \in 1..Len(queue) : queue[r].request.replace # 0 =>
       /\ queue[r].request.replace \in 1..Len(shown)
       /\ shown[queue[r].request.replace].of = queue[r].request.of
  /\ \A m \in Messages : message[m] # Absent =>
       /\ message[m].ref # 0 =>
            message[m].ref \in 1..Len(shown) /\ shown[message[m].ref].of = m
       /\ queue[message[m].row].status = "accepted" => message[m].ref # 0

MessagesInv == MessageTables /\ LastRows /\ InFlight /\ TriesBounded /\ Places /\ ShownIsCurrent

-----------------------------------------------------------------------------
(* The two sequences.                                                      *)

LEMMA RowIsARow ==
  ASSUME MessagesInv, NEW r \in 1..Len(queue)
  PROVE  /\ queue[r] \in QueueRow /\ queue[r].request \in Request /\ queue[r].request.of \in Messages
         /\ Len(queue) \in Nat
<1>1. queue[r] \in QueueRow /\ Len(queue) \in Nat
  BY ElementOfSeq, LenProperties DEF MessagesInv, MessageTables
<1>2. QED
  BY <1>1 DEF QueueRow, Request

LEMMA RowSet ==
  ASSUME queue \in Seq(QueueRow), NEW r \in 1..Len(queue), NEW row \in QueueRow,
         queue' = [queue EXCEPT ![r] = row]
  PROVE  /\ queue' \in Seq(QueueRow) /\ Len(queue') = Len(queue)
         /\ \A q \in 1..Len(queue) : queue'[q] = IF q = r THEN row ELSE queue[q]
BY ExceptSeq

LEMMA RowAppended ==
  ASSUME queue \in Seq(QueueRow), NEW row \in QueueRow, queue' = Append(queue, row)
  PROVE  /\ queue' \in Seq(QueueRow) /\ Len(queue') = Len(queue) + 1 /\ Len(queue) \in Nat
         /\ \A q \in 1..Len(queue) : queue'[q] = queue[q]
         /\ queue'[Len(queue) + 1] = row
BY AppendProperties, LenProperties

\* A place is written, or one is added.
LEMMA PlaceShown ==
  ASSUME shown \in Seq(Place), NEW request \in Request, NEW ref \in 1..LastRow,
         request.replace \in 0..Len(shown), Len(shown) <= LastRow, Shows(request, ref)
  PROVE  /\ shown' \in Seq(Place) /\ Len(shown') <= LastRow
         /\ Len(shown) <= Len(shown') /\ Len(shown) \in Nat /\ Len(shown') \in Nat
         /\ ref \in 1..Len(shown')
         /\ shown'[ref] = [of |-> request.of, text |-> request.text]
         /\ \A i \in 1..Len(shown) : i # ref => shown'[i] = shown[i]
         /\ ref = request.replace \/ ref = Len(shown) + 1
<1> DEFINE n == IF ref = Len(shown) + 1 THEN ref ELSE Len(shown)
           place == [of |-> request.of, text |-> request.text]
<1>1. Len(shown) \in Nat /\ DOMAIN shown = 1..Len(shown)
  BY LenProperties
<1>2. n \in Nat /\ DOMAIN shown \cup {ref} = 1..n /\ (ref = request.replace \/ ref = Len(shown) + 1)
  BY <1>1, MessagesAssumption DEF Shows
<1>3. place \in Place
  BY DEF Request, Place
<1>4. shown' = [i \in 1..n |-> IF i = ref THEN place ELSE shown[i]]
  BY <1>2 DEF Shows
<1>5. \A i \in 1..n : i # ref => shown[i] \in Place
  BY <1>1, <1>2, ElementOfSeq
<1>6. shown' \in [1..n -> Place]
  BY <1>3, <1>4, <1>5
<1>7. shown' \in Seq(Place)
  BY <1>2, <1>6, SeqDef
<1>8. Len(shown') = n
  BY <1>2, <1>4, <1>7, LenProperties
<1> HIDE DEF place
<1>9. ref \in 1..n /\ Len(shown) <= n /\ n <= LastRow
  BY <1>1, <1>2, MessagesAssumption
<1>10. QED
  BY <1>1, <1>2, <1>4, <1>7, <1>8, <1>9 DEF place

\* What the conversation shows of one message.
Current(m) ==
  /\ message[m] # Absent /\ queue[message[m].row].status = "accepted"
  /\ \A q \in Earlier(m) : queue[q].tries <= 1 /\ queue[q].status # "unknown"
  => shown[message[m].ref].text = message[m].text

LEMMA CurrentEach == ShownIsCurrent <=> \A m \in Messages : Current(m)
BY DEF ShownIsCurrent, Current

LEMMA CurrentEachNext == ShownIsCurrent' <=> \A m \in Messages : Current(m)'
BY DEF ShownIsCurrent, Current

\* It stays so while its rows only take attempts and no place of it is written.
LEMMA CurrentKept ==
  ASSUME MessagesInv, NEW m \in Messages, message[m] # Absent, message'[m] = message[m],
         \A q \in 1..Len(queue) :
           /\ queue'[q].request.of = queue[q].request.of
           /\ q = message[m].row /\ queue'[q].status = "accepted" => queue[q].status = "accepted"
           /\ queue'[q].tries <= 1 /\ queue'[q].status # "unknown" =>
                queue[q].tries <= 1 /\ queue[q].status # "unknown",
         /\ queue'[message[m].row].status = "accepted"
         /\ \A q \in Earlier(m)' : queue'[q].tries <= 1 /\ queue'[q].status # "unknown"
         => shown'[message[m].ref].text = shown[message[m].ref].text
  PROVE  Current(m)'
<1> SUFFICES ASSUME queue'[message[m].row].status = "accepted",
                    \A q \in Earlier(m)' : queue'[q].tries <= 1 /\ queue'[q].status # "unknown"
             PROVE  shown'[message[m].ref].text = message[m].text
  BY DEF Current
<1>1. message[m].row \in 1..Len(queue) /\ Len(queue) \in Nat
  BY LenProperties DEF MessagesInv, MessageTables, LastRows
<1>2. \A q \in Earlier(m) : q \in 1..Len(queue) /\ q \in Earlier(m)'
  BY <1>1 DEF Earlier
<1>3. \A q \in Earlier(m) : queue[q].tries <= 1 /\ queue[q].status # "unknown"
  BY <1>2
<1>4. queue[message[m].row].status = "accepted"
  BY <1>1
<1>5. QED
  BY <1>3, <1>4, CurrentEach DEF MessagesInv, Current

-----------------------------------------------------------------------------
(* OutboxMessenger.                                                        *)

LEMMA SendTextSound ==
  ASSUME MessagesInv, NEW m \in Messages, SendText(m) PROVE MessagesInv'
<1> DEFINE n == Len(queue) + 1
           request == [of |-> m, text |-> 1, replace |-> 0]
           row == [request |-> request, status |-> "pending", tries |-> 0]
           entry == [text |-> 1, row |-> n, ref |-> 0]
<1>1. /\ message[m] = Absent /\ Len(queue) < LastRow
      /\ queue' = Append(queue, row) /\ message' = [message EXCEPT ![m] = entry]
      /\ UNCHANGED <<held, wire, shown>>
  BY DEF SendText, Enqueued
<1>2. request \in Request /\ row \in QueueRow
  BY MessagesAssumption DEF Request, QueueRow, Statuses
<1>3. /\ queue' \in Seq(QueueRow) /\ Len(queue') = n /\ Len(queue) \in Nat
      /\ \A q \in 1..Len(queue) : queue'[q] = queue[q]
      /\ queue'[n] = row
  BY <1>1, <1>2, RowAppended DEF MessagesInv, MessageTables
<1>4. entry \in MessageRow /\ entry # Absent
  BY <1>1, <1>3, MessagesAssumption DEF MessageRow
<1>5. /\ message' \in [Messages -> MessageRow \cup {Absent}]
      /\ message'[m] = entry /\ \A o \in Messages \ {m} : message'[o] = message[o]
  BY <1>1, <1>4 DEF MessagesInv, MessageTables
<1>6. \A r \in 1..Len(queue) : queue[r].request.of \in Messages \ {m}
  BY <1>1, RowIsARow DEF MessagesInv, LastRows
<1>7. MessageTables'
  BY <1>1, <1>3, <1>5, MessagesAssumption DEF MessagesInv, MessageTables
<1>8. LastRows'
  BY <1>1, <1>3, <1>4, <1>5, <1>6 DEF MessagesInv, LastRows
<1>9. InFlight'
  BY <1>1, <1>3 DEF MessagesInv, InFlight
<1>10. TriesBounded'
  BY <1>1, <1>3 DEF MessagesInv, TriesBounded
<1>11. Places'
  BY <1>1, <1>3, <1>4, <1>5 DEF MessagesInv, Places, LastRows
<1>12. ShownIsCurrent'
  <2> SUFFICES ASSUME NEW o \in Messages PROVE Current(o)'
    BY CurrentEachNext
  <2>1. CASE o = m
    BY <1>3, <1>4, <1>5, <2>1 DEF Current
  <2>2. CASE o # m /\ message[o] = Absent
    BY <1>5, <2>2 DEF Current
  <2>3. CASE o # m /\ message[o] # Absent
    BY <1>1, <1>3, <1>5, <2>3, CurrentKept
  <2>4. QED
    BY <2>1, <2>2, <2>3
<1>13. QED
  BY <1>7, <1>8, <1>9, <1>10, <1>11, <1>12 DEF MessagesInv

\* An edit of a row that nobody holds.
LEMMA RowEdited ==
  ASSUME MessagesInv, NEW m \in Messages, message[m] # Absent, message[m].text < MaxText,
         Changeable(queue[message[m].row]),
         queue' = [queue EXCEPT ![message[m].row].request.text = message[m].text + 1],
         message' = [message EXCEPT ![m].text = message[m].text + 1],
         UNCHANGED <<held, wire, shown>>
  PROVE  MessagesInv'
<1> DEFINE n == message[m].row
           text == message[m].text + 1
           entry == [message[m] EXCEPT !.text = text]
           row == [queue[n] EXCEPT !.request.text = text]
<1>1. n \in 1..Len(queue) /\ queue[n].request.of = m /\ queue[n].status \in {"pending", "retry"}
  BY DEF MessagesInv, LastRows, Changeable
<1>2. message[m] \in MessageRow /\ text \in 1..MaxText
  BY MessagesAssumption DEF MessagesInv, MessageTables, MessageRow
<1>3. queue[n] \in QueueRow /\ queue[n].request \in Request
  BY <1>1, RowIsARow
<1>4. /\ row \in QueueRow /\ row.status = queue[n].status /\ row.tries = queue[n].tries
      /\ row.request.text = text /\ row.request.of = m
      /\ row.request.replace = queue[n].request.replace
  BY <1>1, <1>2, <1>3 DEF QueueRow, Request
<1>5. /\ entry \in MessageRow /\ entry.row = n /\ entry.ref = message[m].ref
      /\ entry.text = text
  BY <1>2 DEF MessageRow
<1>6. queue' = [queue EXCEPT ![n] = row] /\ message' = [message EXCEPT ![m] = entry]
  OBVIOUS
<1> HIDE DEF row, entry
<1>7. /\ queue' \in Seq(QueueRow) /\ Len(queue') = Len(queue)
      /\ \A q \in 1..Len(queue) : queue'[q] = IF q = n THEN row ELSE queue[q]
  <2>1. queue \in Seq(QueueRow)
    BY DEF MessagesInv, MessageTables
  <2> HIDE DEF n
  <2>2. QED
    BY <1>1, <1>4, <1>6, <2>1, RowSet
<1>8. /\ message' \in [Messages -> MessageRow \cup {Absent}]
      /\ message'[m] = entry /\ \A o \in Messages \ {m} : message'[o] = message[o]
      /\ entry # Absent
  BY <1>5, <1>6, MessagesAssumption DEF MessagesInv, MessageTables
<1>9. MessageTables'
  BY <1>7, <1>8 DEF MessagesInv, MessageTables
<1>10. LastRows'
  <2>1. \A o \in Messages : message[o] # Absent =>
          /\ message'[o] # Absent /\ message'[o].row = message[o].row
          /\ message[o].row \in 1..Len(queue)
          /\ queue'[message[o].row].request.of = o
          /\ queue'[message[o].row].request.text = message'[o].text
    BY <1>1, <1>4, <1>5, <1>7, <1>8 DEF MessagesInv, LastRows
  <2>2. \A o \in Messages : message'[o] # Absent => message[o] # Absent
    BY <1>8
  <2>3. \A r \in 1..Len(queue) :
          queue[r].request.of \in Messages /\ queue'[r].request.of = queue[r].request.of
    BY <1>1, <1>4, <1>7, RowIsARow
  <2>4. \A r \in 1..Len(queue) :
          message'[queue'[r].request.of] # Absent /\ r <= message'[queue'[r].request.of].row
    <3> TAKE r \in 1..Len(queue)
    <3> DEFINE o == queue[r].request.of
    <3>1. o \in Messages /\ message[o] # Absent /\ r <= message[o].row
      BY <2>3 DEF MessagesInv, LastRows
    <3> HIDE DEF o
    <3>2. message'[o] # Absent /\ r <= message'[o].row
      BY <2>1, <3>1
    <3>3. QED
      BY <2>3, <3>2 DEF o
  <2>5. QED
    BY <1>7, <2>1, <2>2, <2>4 DEF LastRows
<1>11. InFlight' /\ TriesBounded'
  <2>1. \A r \in 1..Len(queue) :
          /\ queue'[r].status = queue[r].status /\ queue'[r].tries = queue[r].tries
          /\ queue[r].status \in {"sending", "unknown"} => queue'[r] = queue[r]
    BY <1>1, <1>4, <1>7
  <2>2. Len(queue') = Len(queue)
    BY <1>7
  <2> HIDE DEF n, text
  <2>3. InFlight'
    <3>1. held' # Absent => \E r \in 1..Len(queue) : queue'[r].status = "sending"
      BY <2>1 DEF MessagesInv, InFlight
    <3>2. \A r \in 1..Len(queue) : queue'[r].status = "sending" =>
            /\ held' # Absent /\ held' = queue'[r].request
            /\ \A q \in 1..Len(queue) : queue'[q].status = "sending" => q = r
      BY <2>1 DEF MessagesInv, InFlight
    <3>3. \A w \in wire' : \E r \in 1..Len(queue) :
            queue'[r].status = "unknown" /\ queue'[r].request = w
      <4> TAKE w \in wire'
      <4>1. PICK r \in 1..Len(queue) : queue[r].status = "unknown" /\ queue[r].request = w
        BY DEF MessagesInv, InFlight
      <4>2. queue'[r].status = "unknown" /\ queue'[r].request = w
        BY <2>1, <4>1
      <4>3. QED
        BY <4>2
    <3>4. QED
      BY <2>2, <3>1, <3>2, <3>3 DEF InFlight
  <2>4. TriesBounded'
    BY <2>1, <2>2 DEF MessagesInv, TriesBounded
  <2>5. QED
    BY <2>3, <2>4
<1>12. Places'
  <2>1. \A r \in 1..Len(queue) :
          /\ queue'[r].request.replace = queue[r].request.replace
          /\ queue'[r].request.of = queue[r].request.of
          /\ queue'[r].status = queue[r].status
    BY <1>1, <1>4, <1>7
  <2>2. \A o \in Messages : message'[o] # Absent =>
          /\ message[o] # Absent /\ message[o].row \in 1..Len(queue)
          /\ message'[o].ref = message[o].ref /\ message'[o].row = message[o].row
    BY <1>5, <1>8 DEF MessagesInv, LastRows
  <2>3. Len(queue') = Len(queue)
    BY <1>7
  <2> HIDE DEF n, text
  <2>4. \A r \in 1..Len(queue') : queue'[r].request.replace # 0 =>
          /\ queue'[r].request.replace \in 1..Len(shown')
          /\ shown'[queue'[r].request.replace].of = queue'[r].request.of
    BY <2>1, <2>3 DEF MessagesInv, Places
  <2>5. \A o \in Messages : message'[o] # Absent =>
          /\ message'[o].ref # 0 =>
               message'[o].ref \in 1..Len(shown') /\ shown'[message'[o].ref].of = o
          /\ queue'[message'[o].row].status = "accepted" => message'[o].ref # 0
    BY <2>1, <2>2 DEF MessagesInv, Places
  <2>6. QED
    BY <2>4, <2>5 DEF Places
<1>13. ShownIsCurrent'
  <2> SUFFICES ASSUME NEW o \in Messages PROVE Current(o)'
    BY CurrentEachNext
  <2>1. CASE o = m
    BY <1>1, <1>4, <1>5, <1>7, <1>8, <2>1 DEF Current
  <2>2. CASE o # m /\ message[o] = Absent
    BY <1>8, <2>2 DEF Current
  <2>3. CASE o # m /\ message[o] # Absent
    <3>1. \A q \in 1..Len(queue) :
           /\ queue'[q].request.of = queue[q].request.of
           /\ queue'[q].status = queue[q].status /\ queue'[q].tries = queue[q].tries
      BY <1>1, <1>4, <1>7
    <3>2. QED
      BY <1>8, <2>3, <3>1, CurrentKept
  <2>4. QED
    BY <2>1, <2>2, <2>3
<1>14. QED
  BY <1>9, <1>10, <1>11, <1>12, <1>13 DEF MessagesInv

\* An edit of a row that is under way or over: a row of its own.
LEMMA RowAdded ==
  ASSUME MessagesInv, NEW m \in Messages, message[m] # Absent, message[m].text < MaxText,
         Enqueued([of |-> m, text |-> message[m].text + 1, replace |-> message[m].ref]),
         message' = [message EXCEPT ![m].text = message[m].text + 1, ![m].row = Len(queue) + 1],
         UNCHANGED <<held, wire, shown>>
  PROVE  MessagesInv'
<1> DEFINE n == Len(queue) + 1
           text == message[m].text + 1
           request == [of |-> m, text |-> text, replace |-> message[m].ref]
           row == [request |-> request, status |-> "pending", tries |-> 0]
           entry == [message[m] EXCEPT !.text = text, !.row = n]
<1>1. message[m] \in MessageRow /\ text \in 1..MaxText
  BY MessagesAssumption DEF MessagesInv, MessageTables, MessageRow
<1>2. Len(queue) < LastRow /\ queue' = Append(queue, row)
  BY DEF Enqueued
<1>3. request \in Request /\ row \in QueueRow
  BY <1>1, MessagesAssumption DEF Request, QueueRow, Statuses, MessageRow
<1>4. /\ queue' \in Seq(QueueRow) /\ Len(queue') = n /\ Len(queue) \in Nat
      /\ \A q \in 1..Len(queue) : queue'[q] = queue[q]
      /\ queue'[n] = row
  BY <1>2, <1>3, RowAppended DEF MessagesInv, MessageTables
<1>5. /\ entry \in MessageRow /\ entry # Absent
      /\ entry.text = text /\ entry.row = n /\ entry.ref = message[m].ref
  <2>1. n \in 1..LastRow
    BY <1>2, <1>4, MessagesAssumption
  <2> HIDE DEF n, text
  <2>2. entry \in MessageRow
    BY <1>1, <2>1 DEF MessageRow
  <2>3. QED
    BY <1>1, <2>2, MessagesAssumption DEF MessageRow
<1>6. message' = [message EXCEPT ![m] = entry]
  OBVIOUS
<1> HIDE DEF entry
<1>7. /\ message' \in [Messages -> MessageRow \cup {Absent}]
      /\ message'[m] = entry /\ \A o \in Messages \ {m} : message'[o] = message[o]
  BY <1>5, <1>6 DEF MessagesInv, MessageTables
<1>8. MessageTables'
  <2>1. n <= LastRow
    BY <1>2, <1>4, MessagesAssumption
  <2>2. QED
    BY <1>4, <1>5, <1>7, <2>1 DEF MessagesInv, MessageTables
<1>9. LastRows'
  <2>1. \A o \in Messages : message[o] # Absent => message[o].row \in 1..Len(queue)
    BY DEF MessagesInv, LastRows
  <2>2. \A r \in 1..Len(queue) : queue[r].request.of \in Messages
    BY RowIsARow
  <2>3. \A r \in 1..Len(queue) : message'[queue[r].request.of] # Absent
                                 /\ r <= message'[queue[r].request.of].row
    <3> TAKE r \in 1..Len(queue)
    <3> DEFINE o == queue[r].request.of
    <3>1. o \in Messages /\ message[o] # Absent /\ r <= message[o].row
      BY <2>2 DEF MessagesInv, LastRows
    <3>2. r <= n
      BY <1>4
    <3> HIDE DEF o, n
    <3>3. QED
      BY <1>5, <1>7, <3>1, <3>2 DEF o
  <2>4. row.request.of = m /\ row.request.text = text
    OBVIOUS
  <2> HIDE DEF row
  <2>5. ASSUME NEW o \in Messages, message'[o] # Absent
        PROVE  /\ message'[o].row \in 1..Len(queue')
               /\ queue'[message'[o].row].request.of = o
               /\ queue'[message'[o].row].request.text = message'[o].text
    <3>1. CASE o = m
      BY <1>4, <1>5, <1>7, <2>4, <3>1
    <3>2. CASE o # m
      BY <1>4, <1>7, <2>1, <2>5, <3>2 DEF MessagesInv, LastRows
    <3>3. QED
      BY <3>1, <3>2
  <2>6. ASSUME NEW r \in 1..Len(queue')
        PROVE  /\ message'[queue'[r].request.of] # Absent
               /\ r <= message'[queue'[r].request.of].row
    <3>1. CASE r = n
      <4>1. queue'[r].request.of = m
        BY <1>4, <2>4, <3>1
      <4>2. message'[m] # Absent /\ message'[m].row = r
        BY <1>5, <1>7, <3>1
      <4>3. n <= n
        BY <1>4
      <4>4. QED
        BY <3>1, <4>1, <4>2, <4>3
    <3>2. CASE r # n
      <4>1. r \in 1..Len(queue)
        BY <1>4, <3>2
      <4>2. queue'[r] = queue[r]
        BY <1>4, <4>1
      <4>3. QED
        BY <2>3, <4>1, <4>2
    <3>3. QED
      BY <3>1, <3>2
  <2>7. QED
    BY <2>5, <2>6 DEF LastRows
<1>10. InFlight'
  BY <1>2, <1>4 DEF MessagesInv, InFlight
<1>11. TriesBounded'
  BY <1>2, <1>4 DEF MessagesInv, TriesBounded
<1>12. Places'
  <2>1. row.request.of = m /\ row.request.replace = message[m].ref /\ row.status # "accepted"
    OBVIOUS
  <2> HIDE DEF row, request, text
  <2>2. \A r \in 1..Len(queue') : queue'[r].request.replace # 0 =>
          /\ queue'[r].request.replace \in 1..Len(shown')
          /\ shown'[queue'[r].request.replace].of = queue'[r].request.of
    <3> TAKE r \in 1..Len(queue')
    <3>1. r \in 1..Len(queue) \/ r = n
      BY <1>4
    <3>2. CASE r \in 1..Len(queue)
      BY <1>4, <3>2 DEF MessagesInv, Places
    <3>3. CASE r = n
      <4>1. queue'[r] = row
        BY <1>4, <3>3
      <4>2. QED
        BY <2>1, <4>1 DEF MessagesInv, Places
    <3>4. QED
      BY <3>1, <3>2, <3>3
  <2>3. ASSUME NEW o \in Messages, message'[o] # Absent
        PROVE  /\ message'[o].ref # 0 =>
                    message'[o].ref \in 1..Len(shown') /\ shown'[message'[o].ref].of = o
               /\ queue'[message'[o].row].status = "accepted" => message'[o].ref # 0
    <3>1. CASE o = m
      BY <1>4, <1>5, <1>7, <2>1, <3>1 DEF MessagesInv, Places
    <3>2. CASE o # m
      <4>1. message'[o] = message[o] /\ message[o] # Absent
        BY <1>7, <2>3, <3>2
      <4>2. message[o].row \in 1..Len(queue)
        BY <4>1 DEF MessagesInv, LastRows
      <4>3. queue'[message'[o].row] = queue[message[o].row]
        BY <1>4, <4>1, <4>2
      <4>4. QED
        BY <4>1, <4>3 DEF MessagesInv, Places
    <3>3. QED
      BY <3>1, <3>2
  <2>4. QED
    BY <2>2, <2>3 DEF Places
<1>13. ShownIsCurrent'
  <2> SUFFICES ASSUME NEW o \in Messages PROVE Current(o)'
    BY CurrentEachNext
  <2>1. CASE o = m
    BY <1>4, <1>5, <1>7, <2>1 DEF Current
  <2>2. CASE o # m /\ message[o] = Absent
    BY <1>7, <2>2 DEF Current
  <2>3. CASE o # m /\ message[o] # Absent
    BY <1>4, <1>7, <2>3, CurrentKept
  <2>4. QED
    BY <2>1, <2>2, <2>3
<1>14. QED
  BY <1>8, <1>9, <1>10, <1>11, <1>12, <1>13 DEF MessagesInv

LEMMA UpdateTextSound ==
  ASSUME MessagesInv, NEW m \in Messages, UpdateText(m) PROVE MessagesInv'
BY RowEdited, RowAdded DEF UpdateText

\* A row that only takes another status, or another attempt.
LEMMA RowMoves ==
  ASSUME MessagesInv, NEW r \in 1..Len(queue), NEW row \in QueueRow,
         row.request = queue[r].request, row.status # "accepted",
         row.tries <= 1 /\ row.status # "unknown" =>
           queue[r].tries <= 1 /\ queue[r].status # "unknown",
         queue' = [queue EXCEPT ![r] = row], UNCHANGED <<message, shown>>,
         held' \in Request \cup {Absent}, wire' \subseteq Request
  PROVE  /\ MessageTables' /\ LastRows' /\ Places' /\ ShownIsCurrent'
         /\ Len(queue') = Len(queue)
         /\ \A q \in 1..Len(queue) : queue'[q] = IF q = r THEN row ELSE queue[q]
<1>1. queue \in Seq(QueueRow)
  BY DEF MessagesInv, MessageTables
<1>2. /\ queue' \in Seq(QueueRow) /\ Len(queue') = Len(queue)
      /\ \A q \in 1..Len(queue) : queue'[q] = IF q = r THEN row ELSE queue[q]
  BY <1>1, RowSet
<1>3. \A q \in 1..Len(queue) : queue'[q].request = queue[q].request
  BY <1>2
<1>4. \A m \in Messages : message[m] # Absent => message[m].row \in 1..Len(queue)
  BY DEF MessagesInv, LastRows
<1>5. MessageTables'
  BY <1>2 DEF MessagesInv, MessageTables
<1>6. LastRows'
  BY <1>2, <1>3, <1>4 DEF MessagesInv, LastRows
<1>7. Places'
  BY <1>2, <1>3, <1>4 DEF MessagesInv, Places
<1>8. ShownIsCurrent'
  <2> SUFFICES ASSUME NEW m \in Messages PROVE Current(m)'
    BY CurrentEachNext
  <2>1. CASE message[m] = Absent
    BY <2>1 DEF Current
  <2>2. CASE message[m] # Absent
    BY <1>2, <1>3, <2>2, CurrentKept
  <2>3. QED
    BY <2>1, <2>2
<1>9. QED
  BY <1>2, <1>5, <1>6, <1>7, <1>8

LEMMA RemoveMessageSound ==
  ASSUME MessagesInv, NEW m \in Messages, RemoveMessage(m) PROVE MessagesInv'
<1> DEFINE r == message[m].row
           row == [queue[r] EXCEPT !.status = "suppressed"]
<1>1. /\ queue[r].status = "pending" /\ queue' = [queue EXCEPT ![r] = row]
      /\ UNCHANGED <<message, held, wire, shown>>
  BY DEF RemoveMessage
<1>2. r \in 1..Len(queue)
  BY DEF RemoveMessage, MessagesInv, LastRows
<1>3. queue[r] \in QueueRow
  BY <1>2, RowIsARow
<1>4. /\ row \in QueueRow /\ row.request = queue[r].request /\ row.status = "suppressed"
      /\ row.tries = queue[r].tries
  BY <1>3 DEF QueueRow, Statuses
<1> HIDE DEF row, r
<1>5. held' \in Request \cup {Absent} /\ wire' \subseteq Request
  BY <1>1 DEF MessagesInv, MessageTables
<1>6. /\ MessageTables' /\ LastRows' /\ Places' /\ ShownIsCurrent'
      /\ Len(queue') = Len(queue)
      /\ \A q \in 1..Len(queue) : queue'[q] = IF q = r THEN row ELSE queue[q]
  BY <1>1, <1>2, <1>4, <1>5, RowMoves
<1>7. InFlight'
  BY <1>1, <1>2, <1>4, <1>6 DEF MessagesInv, InFlight
<1>8. TriesBounded'
  BY <1>1, <1>2, <1>4, <1>6 DEF MessagesInv, TriesBounded
<1>9. QED
  BY <1>6, <1>7, <1>8 DEF MessagesInv

-----------------------------------------------------------------------------
(* The sender, and the provider.                                           *)

LEMMA ClaimSound ==
  ASSUME MessagesInv, NEW r \in 1..Len(queue), Claim(r) PROVE MessagesInv'
<1> DEFINE row == [queue[r] EXCEPT !.status = "sending", !.tries = @ + 1]
<1>1. /\ held = Absent /\ queue[r].status \in {"pending", "retry"}
      /\ \A q \in 1..(r - 1) : queue[q].status # "pending"
      /\ queue' = [queue EXCEPT ![r] = row] /\ held' = queue[r].request
      /\ UNCHANGED <<message, wire, shown>>
  BY DEF Claim, Changeable
<1>2. queue[r] \in QueueRow /\ queue[r].request \in Request
  BY RowIsARow
<1>3. queue[r].tries + 1 \in 1..MaxTries /\ queue[r].tries \in Nat
  BY <1>1, <1>2, MessagesAssumption DEF QueueRow, MessagesInv, TriesBounded
<1>4. /\ row \in QueueRow /\ row.request = queue[r].request /\ row.status = "sending"
      /\ row.tries = queue[r].tries + 1
  <2> DEFINE n == queue[r].tries + 1
  <2>1. n \in 0..MaxTries /\ "sending" \in Statuses
    BY <1>3, MessagesAssumption DEF Statuses
  <2>2. row = [queue[r] EXCEPT !.status = "sending", !.tries = n]
    BY <1>2 DEF QueueRow
  <2> HIDE DEF n, row
  <2>3. row \in QueueRow /\ row.request = queue[r].request /\ row.status = "sending" /\ row.tries = n
    BY <1>2, <2>1, <2>2 DEF QueueRow
  <2>4. QED
    BY <2>3 DEF n
<1> HIDE DEF row
<1>5. held' \in Request \cup {Absent} /\ wire' \subseteq Request
  BY <1>1, <1>2 DEF MessagesInv, MessageTables
<1>6. /\ MessageTables' /\ LastRows' /\ Places' /\ ShownIsCurrent'
      /\ Len(queue') = Len(queue)
      /\ \A q \in 1..Len(queue) : queue'[q] = IF q = r THEN row ELSE queue[q]
  <2>1. /\ row.status # "accepted"
        /\ row.tries <= 1 /\ row.status # "unknown" =>
             queue[r].tries <= 1 /\ queue[r].status # "unknown"
    BY <1>1, <1>3, <1>4
  <2>2. QED
    BY <1>1, <1>4, <1>5, <2>1, RowMoves
<1>7. \A q \in 1..Len(queue) : queue[q].status # "sending"
  BY <1>1 DEF MessagesInv, InFlight
<1>8. held' # Absent
  BY <1>1, <1>2, MessagesAssumption
<1>9. InFlight'
  BY <1>1, <1>4, <1>6, <1>7, <1>8 DEF MessagesInv, InFlight
<1>10. TriesBounded'
  <2>1. ASSUME NEW q \in 1..Len(queue)
        PROVE  /\ queue'[q].status = "pending" => queue'[q].tries = 0
               /\ queue'[q].status \in {"sending", "retry", "accepted"} => queue'[q].tries >= 1
               /\ queue'[q].status = "retry" => queue'[q].tries < MaxTries
    BY <1>3, <1>4, <1>6 DEF MessagesInv, TriesBounded
  <2>2. ASSUME NEW p \in 1..Len(queue), NEW q \in 1..Len(queue), q < p, queue'[p].tries >= 1
        PROVE  /\ queue'[q].status # "pending"
               /\ queue'[q].status = "sending" => queue'[q].tries >= 2
    <3>1. CASE p = r
      <4>1. q \in 1..(r - 1) /\ q # r
        BY <2>2, <3>1
      <4>2. QED
        BY <1>1, <1>6, <1>7, <4>1
    <3>2. CASE p # r /\ q # r
      BY <1>6, <2>2, <3>2 DEF MessagesInv, TriesBounded
    <3>3. CASE p # r /\ q = r
      <4>1. queue[r].status = "retry" /\ queue[r].tries >= 1
        BY <1>1, <1>6, <2>2, <3>3 DEF MessagesInv, TriesBounded
      <4>2. QED
        BY <1>3, <1>4, <1>6, <3>3, <4>1
    <3>4. QED
      BY <3>1, <3>2, <3>3
  <2>3. QED
    BY <1>6, <2>1, <2>2 DEF TriesBounded
<1>11. QED
  BY <1>6, <1>9, <1>10 DEF MessagesInv

LEMMA SendingRow ==
  ASSUME MessagesInv, held # Absent
  PROVE  /\ Sending \in 1..Len(queue) /\ queue[Sending].status = "sending"
         /\ queue[Sending].request = held
         /\ \A q \in 1..Len(queue) : queue[q].status = "sending" => q = Sending
<1>1. DOMAIN queue = 1..Len(queue)
  BY LenProperties DEF MessagesInv, MessageTables
<1>2. \E r \in DOMAIN queue : queue[r].status = "sending"
  BY <1>1 DEF MessagesInv, InFlight
<1>3. Sending \in DOMAIN queue /\ queue[Sending].status = "sending"
  BY <1>2 DEF Sending
<1>4. QED
  BY <1>1, <1>3 DEF MessagesInv, InFlight

\* The sender lets go of its row, and nobody is shown anything.
LEMMA SettlesSound ==
  ASSUME MessagesInv, NEW status \in {"failed", "suppressed", "retry", "unknown"}, Settles(status),
         status = "retry" => queue[Sending].tries < MaxTries,
         wire' = wire \/ (status = "unknown" /\ wire' = wire \cup {held}),
         UNCHANGED <<message, shown>>
  PROVE  MessagesInv'
<1> DEFINE r == Sending
           row == [queue[r] EXCEPT !.status = status]
<1>1. /\ held # Absent /\ held' = Absent /\ queue' = [queue EXCEPT ![r] = row]
  BY DEF Settles
<1>2. /\ r \in 1..Len(queue) /\ queue[r].status = "sending" /\ queue[r].request = held
      /\ \A q \in 1..Len(queue) : queue[q].status = "sending" => q = r
      /\ status = "retry" => queue[r].tries < MaxTries
  BY <1>1, SendingRow
<1> HIDE DEF r
<1>3. queue[r] \in QueueRow /\ queue[r].tries >= 1
  BY <1>2, RowIsARow DEF MessagesInv, TriesBounded
<1>4. /\ row \in QueueRow /\ row.request = queue[r].request /\ row.status = status
      /\ row.tries = queue[r].tries
  BY <1>3 DEF QueueRow, Statuses
<1> HIDE DEF row
<1>5. held' \in Request \cup {Absent} /\ wire' \subseteq Request
  BY <1>1 DEF MessagesInv, MessageTables
<1>6. /\ MessageTables' /\ LastRows' /\ Places' /\ ShownIsCurrent'
      /\ Len(queue') = Len(queue)
      /\ \A q \in 1..Len(queue) : queue'[q] = IF q = r THEN row ELSE queue[q]
  BY <1>1, <1>2, <1>4, <1>5, RowMoves
<1>7. InFlight'
  <2>1. \A q \in 1..Len(queue) : queue'[q].status # "sending"
    BY <1>2, <1>4, <1>6
  <2>2. \A w \in wire' : \E q \in 1..Len(queue) :
          queue'[q].status = "unknown" /\ queue'[q].request = w
    <3> TAKE w \in wire'
    <3>1. CASE w \in wire
      BY <1>2, <1>6, <3>1 DEF MessagesInv, InFlight
    <3>2. CASE w = held /\ status = "unknown"
      BY <1>2, <1>4, <1>6, <3>2
    <3>3. QED
      BY <3>1, <3>2
  <2>3. QED
    BY <1>1, <1>6, <2>1, <2>2 DEF InFlight
<1>8. TriesBounded'
  BY <1>2, <1>3, <1>4, <1>6 DEF MessagesInv, TriesBounded
<1>9. QED
  BY <1>6, <1>7, <1>8 DEF MessagesInv

\* The request of a row is taken: no place changes its owner.
LEMMA OwnersKept ==
  ASSUME MessagesInv, NEW r \in 1..Len(queue), NEW ref \in 1..LastRow, Shows(queue[r].request, ref)
  PROVE  /\ shown' \in Seq(Place) /\ Len(shown') <= LastRow
         /\ Len(shown) \in Nat /\ Len(shown') \in Nat
         /\ Len(shown) <= Len(shown') /\ ref \in 1..Len(shown')
         /\ shown'[ref].of = queue[r].request.of
         /\ shown'[ref].text = queue[r].request.text
         /\ \A i \in 1..Len(shown) : i # ref => shown'[i] = shown[i]
         /\ \A i \in 1..Len(shown) : shown'[i].of = shown[i].of
<1> DEFINE request == queue[r].request
<1>1. /\ shown \in Seq(Place) /\ Len(shown) <= LastRow /\ request \in Request
      /\ Len(shown) \in Nat
  BY RowIsARow, LenProperties DEF MessagesInv, MessageTables
<1>2. request.replace # 0 =>
        request.replace \in 1..Len(shown) /\ shown[request.replace].of = request.of
  BY DEF MessagesInv, Places
<1>3. request.replace \in 0..Len(shown)
  BY <1>1, <1>2
<1> HIDE DEF request
<1>4. Shows(request, ref)
  BY DEF request
<1>5. /\ shown' \in Seq(Place) /\ Len(shown') <= LastRow
      /\ Len(shown) <= Len(shown') /\ Len(shown) \in Nat /\ Len(shown') \in Nat
      /\ ref \in 1..Len(shown')
      /\ shown'[ref] = [of |-> request.of, text |-> request.text]
      /\ \A i \in 1..Len(shown) : i # ref => shown'[i] = shown[i]
      /\ ref = request.replace \/ ref = Len(shown) + 1
  BY <1>1, <1>3, <1>4, PlaceShown
<1>6. \A i \in 1..Len(shown) : shown'[i].of = shown[i].of
  <2> TAKE i \in 1..Len(shown)
  <2>1. CASE i = ref
    BY <1>2, <1>5, <2>1
  <2>2. CASE i # ref
    BY <1>5, <2>2
  <2>3. QED
    BY <2>1, <2>2
<1>7. QED
  BY <1>5, <1>6 DEF request

LEMMA TakenAtOnceSound ==
  ASSUME MessagesInv, NEW ref \in 1..LastRow, TakenAtOnce(ref) PROVE MessagesInv'
<1> DEFINE r == Sending
           row == [queue[r] EXCEPT !.status = "accepted"]
<1>1. /\ held # Absent /\ held' = Absent /\ queue' = [queue EXCEPT ![r] = row]
      /\ Shows(held, ref) /\ UNCHANGED wire
      /\ message' = [m \in Messages |->
           IF message[m] # Absent /\ message[m].row = r
           THEN [message[m] EXCEPT !.ref = ref] ELSE message[m]]
  BY DEF TakenAtOnce, Settles
<1>2. /\ r \in 1..Len(queue) /\ queue[r].status = "sending" /\ queue[r].request = held
      /\ \A q \in 1..Len(queue) : queue[q].status = "sending" => q = r
  BY <1>1, SendingRow
<1> HIDE DEF r
<1>3. queue[r] \in QueueRow /\ queue[r].tries >= 1 /\ queue \in Seq(QueueRow)
  BY <1>2, RowIsARow DEF MessagesInv, TriesBounded, MessageTables
<1>4. /\ row \in QueueRow /\ row.request = queue[r].request /\ row.status = "accepted"
      /\ row.tries = queue[r].tries
  BY <1>3 DEF QueueRow, Statuses
<1> HIDE DEF row
<1>5. /\ queue' \in Seq(QueueRow) /\ Len(queue') = Len(queue)
      /\ \A q \in 1..Len(queue) : queue'[q] = IF q = r THEN row ELSE queue[q]
  BY <1>1, <1>2, <1>3, <1>4, RowSet
<1>6. /\ shown' \in Seq(Place) /\ Len(shown') <= LastRow
      /\ Len(shown) \in Nat /\ Len(shown') \in Nat
      /\ Len(shown) <= Len(shown') /\ ref \in 1..Len(shown')
      /\ shown'[ref].of = queue[r].request.of
      /\ shown'[ref].text = queue[r].request.text
      /\ \A i \in 1..Len(shown) : i # ref => shown'[i] = shown[i]
      /\ \A i \in 1..Len(shown) : shown'[i].of = shown[i].of
  BY <1>1, <1>2, OwnersKept
<1>7. ASSUME NEW m \in Messages, message[m] # Absent
      PROVE  /\ message'[m] \in MessageRow /\ message'[m] # Absent
             /\ message'[m].row = message[m].row /\ message'[m].text = message[m].text
             /\ message'[m].ref = IF message[m].row = r THEN ref ELSE message[m].ref
             /\ message[m].row # r => message'[m] = message[m]
  <2>1. message[m] \in MessageRow
    BY <1>7 DEF MessagesInv, MessageTables
  <2>2. message'[m] = IF message[m].row = r THEN [message[m] EXCEPT !.ref = ref] ELSE message[m]
    BY <1>1, <1>7
  <2>3. message'[m] \in MessageRow
    BY <2>1, <2>2 DEF MessageRow
  <2>4. QED
    BY <2>1, <2>2, <2>3, MessagesAssumption DEF MessageRow
<1>8. \A m \in Messages : message[m] = Absent => message'[m] = Absent
  BY <1>1
<1>9. \A m \in Messages : message[m] # Absent => message[m].row \in 1..Len(queue)
  BY DEF MessagesInv, LastRows
<1>10. \A q \in 1..Len(queue) : queue'[q].request = queue[q].request
  BY <1>4, <1>5
<1>11. MessageTables'
  <2>1. message' \in [Messages -> MessageRow \cup {Absent}]
    <3>1. \A m \in Messages : message'[m] \in MessageRow \cup {Absent}
      BY <1>7, <1>8
    <3>2. QED
      BY <1>1, <3>1
  <2>2. QED
    BY <1>1, <1>5, <1>6, <2>1 DEF MessagesInv, MessageTables
<1>12. LastRows'
  <2>1. ASSUME NEW m \in Messages, message'[m] # Absent
        PROVE  /\ message'[m].row \in 1..Len(queue')
               /\ queue'[message'[m].row].request.of = m
               /\ queue'[message'[m].row].request.text = message'[m].text
    BY <1>5, <1>7, <1>8, <1>9, <1>10, <2>1 DEF MessagesInv, LastRows
  <2>2. ASSUME NEW q \in 1..Len(queue)
        PROVE  message'[queue[q].request.of] # Absent /\ q <= message'[queue[q].request.of].row
    <3>1. queue[q].request.of \in Messages
      BY RowIsARow
    <3>2. message[queue[q].request.of] # Absent /\ q <= message[queue[q].request.of].row
      BY DEF MessagesInv, LastRows
    <3>3. QED
      BY <1>7, <3>1, <3>2
  <2>3. QED
    BY <1>5, <1>10, <2>1, <2>2 DEF LastRows
<1>13. InFlight'
  BY <1>1, <1>2, <1>4, <1>5 DEF MessagesInv, InFlight
<1>14. TriesBounded'
  BY <1>2, <1>3, <1>4, <1>5 DEF MessagesInv, TriesBounded
<1>15. Places'
  <2>1. ASSUME NEW q \in 1..Len(queue), queue[q].request.replace # 0
        PROVE  /\ queue[q].request.replace \in 1..Len(shown')
               /\ shown'[queue[q].request.replace].of = queue[q].request.of
    BY <1>6, <2>1 DEF MessagesInv, Places
  <2>2. ASSUME NEW m \in Messages, message[m] # Absent
        PROVE  /\ message'[m].ref # 0 =>
                    message'[m].ref \in 1..Len(shown') /\ shown'[message'[m].ref].of = m
               /\ queue'[message[m].row].status = "accepted" => message'[m].ref # 0
    <3>1. CASE message[m].row = r
      BY <1>6, <1>7, <2>2, <3>1 DEF MessagesInv, LastRows
    <3>2. CASE message[m].row # r
      BY <1>5, <1>6, <1>7, <1>9, <2>2, <3>2 DEF MessagesInv, Places
    <3>3. QED
      BY <3>1, <3>2
  <2>3. QED
    BY <1>5, <1>7, <1>8, <1>10, <2>1, <2>2 DEF Places
<1>16. ShownIsCurrent'
  <2> SUFFICES ASSUME NEW m \in Messages PROVE Current(m)'
    BY CurrentEachNext
  <2>1. CASE message[m] = Absent
    BY <1>8, <2>1 DEF Current
  <2>2. CASE message[m] # Absent /\ message[m].row = r
    BY <1>6, <1>7, <2>2 DEF Current, MessagesInv, LastRows
  <2>3. CASE message[m] # Absent /\ message[m].row # r
    <3>1. ASSUME queue'[message[m].row].status = "accepted",
                 \A q \in Earlier(m)' : queue'[q].tries <= 1 /\ queue'[q].status # "unknown",
                 message[m].ref = ref
          PROVE  FALSE
      <4>1. message[m].row \in 1..Len(queue) /\ queue[message[m].row].status = "accepted"
        BY <1>5, <1>9, <2>3, <3>1
      <4>2. shown[ref].of = m /\ ref \in 1..Len(shown)
        BY <2>3, <3>1, <4>1 DEF MessagesInv, Places
      <4>3. queue[r].request.of = m
        BY <1>6, <4>2
      <4>4. r < message[m].row
        BY <1>2, <2>3, <4>1, <4>3 DEF MessagesInv, LastRows
      <4>5. queue[message[m].row].tries >= 1
        BY <4>1 DEF MessagesInv, TriesBounded
      <4>6. queue[r].tries >= 2
        BY <1>2, <4>1, <4>4, <4>5 DEF MessagesInv, TriesBounded
      <4>7. r \in Earlier(m)'
        BY <1>2, <1>7, <1>10, <2>3, <4>1, <4>3, <4>4 DEF Earlier
      <4>8. queue'[r].tries >= 2 /\ queue'[r].tries \in Nat
        BY <1>2, <1>3, <1>4, <1>5, <4>6 DEF QueueRow
      <4>9. QED
        BY <3>1, <4>7, <4>8
    <3>2. queue'[message[m].row].status = "accepted" =>
            message[m].ref \in 1..Len(shown)
      BY <1>5, <1>9, <2>3 DEF MessagesInv, Places
    <3>3. \A q \in 1..Len(queue) :
            /\ queue'[q].request.of = queue[q].request.of
            /\ q = message[m].row /\ queue'[q].status = "accepted" => queue[q].status = "accepted"
            /\ queue'[q].tries <= 1 /\ queue'[q].status # "unknown" =>
                 queue[q].tries <= 1 /\ queue[q].status # "unknown"
      BY <1>2, <1>4, <1>5, <2>3
    <3>4. QED
      BY <1>6, <1>7, <2>3, <3>1, <3>2, <3>3, CurrentKept
  <2>4. QED
    BY <2>1, <2>2, <2>3
<1>17. QED
  BY <1>11, <1>12, <1>13, <1>14, <1>15, <1>16 DEF MessagesInv

LEMMA TakenLateSound ==
  ASSUME MessagesInv, NEW request \in wire, NEW ref \in 1..LastRow, TakenLate(request, ref)
  PROVE  MessagesInv'
<1>1. /\ wire' \subseteq wire /\ Shows(request, ref) /\ UNCHANGED <<message, queue, held>>
  BY DEF TakenLate
<1>2. PICK r \in 1..Len(queue) : queue[r].status = "unknown" /\ queue[r].request = request
  BY DEF MessagesInv, InFlight
<1>3. /\ shown' \in Seq(Place) /\ Len(shown') <= LastRow
      /\ Len(shown) \in Nat /\ Len(shown') \in Nat
      /\ Len(shown) <= Len(shown') /\ ref \in 1..Len(shown')
      /\ shown'[ref].of = queue[r].request.of
      /\ shown'[ref].text = queue[r].request.text
      /\ \A i \in 1..Len(shown) : i # ref => shown'[i] = shown[i]
      /\ \A i \in 1..Len(shown) : shown'[i].of = shown[i].of
  BY <1>1, <1>2, OwnersKept
<1>4. MessageTables' /\ LastRows' /\ TriesBounded'
  BY <1>1, <1>3 DEF MessagesInv, MessageTables, LastRows, TriesBounded
<1>8. InFlight'
  BY <1>1 DEF MessagesInv, InFlight
<1>5. Places'
  <2>1. ASSUME NEW q \in 1..Len(queue), queue[q].request.replace # 0
        PROVE  /\ queue[q].request.replace \in 1..Len(shown')
               /\ shown'[queue[q].request.replace].of = queue[q].request.of
    BY <1>3, <2>1 DEF MessagesInv, Places
  <2>2. ASSUME NEW m \in Messages, message[m] # Absent
        PROVE  /\ message[m].ref # 0 =>
                    message[m].ref \in 1..Len(shown') /\ shown'[message[m].ref].of = m
               /\ queue[message[m].row].status = "accepted" => message[m].ref # 0
    BY <1>3, <2>2 DEF MessagesInv, Places
  <2>3. QED
    BY <1>1, <2>1, <2>2 DEF Places
<1>6. ShownIsCurrent'
  <2> SUFFICES ASSUME NEW m \in Messages PROVE Current(m)'
    BY CurrentEachNext
  <2>1. CASE message[m] = Absent
    BY <1>1, <2>1 DEF Current
  <2>2. CASE message[m] # Absent
    <3>1. ASSUME queue[message[m].row].status = "accepted",
                 \A q \in Earlier(m)' : queue'[q].tries <= 1 /\ queue'[q].status # "unknown",
                 message[m].ref = ref
          PROVE  FALSE
      <4>1. message[m].row \in 1..Len(queue)
        BY <2>2 DEF MessagesInv, LastRows
      <4>2. shown[ref].of = m /\ ref \in 1..Len(shown)
        BY <2>2, <3>1 DEF MessagesInv, Places
      <4>3. queue[r].request.of = m
        BY <1>3, <4>2
      <4>4. r < message[m].row
        BY <1>2, <2>2, <3>1, <4>1, <4>3 DEF MessagesInv, LastRows
      <4>5. r \in Earlier(m)'
        BY <1>1, <1>2, <4>1, <4>3, <4>4 DEF Earlier
      <4>6. QED
        BY <1>1, <1>2, <3>1, <4>5
    <3>2. queue[message[m].row].status = "accepted" => message[m].ref \in 1..Len(shown)
      BY <2>2 DEF MessagesInv, Places
    <3>3. QED
      BY <1>1, <1>3, <2>2, <3>1, <3>2, CurrentKept
  <2>3. QED
    BY <2>1, <2>2
<1>7. QED
  BY <1>4, <1>5, <1>6, <1>8 DEF MessagesInv

-----------------------------------------------------------------------------
(* The theorem.                                                            *)

LEMMA InitIInv == MessagesInit => MessagesInv
<1> SUFFICES ASSUME MessagesInit PROVE MessagesInv
  OBVIOUS
<1>1. MessageTables
  BY EmptySeq, MessagesAssumption DEF MessagesInit, MessageTables
<1>2. LastRows /\ InFlight /\ TriesBounded /\ Places /\ ShownIsCurrent
  BY EmptySeq DEF MessagesInit, LastRows, InFlight, TriesBounded, Places, ShownIsCurrent
<1>3. QED
  BY <1>1, <1>2 DEF MessagesInv

LEMMA MessagesStepSound == MessagesInv /\ MessagesNext => MessagesInv'
<1> SUFFICES ASSUME MessagesInv, MessagesNext PROVE MessagesInv'
  OBVIOUS
<1>1. DOMAIN queue = 1..Len(queue)
  BY LenProperties DEF MessagesInv, MessageTables
<1>2. CASE NotTaken
  BY <1>2, SettlesSound DEF NotTaken
<1>3. CASE Unanswered
  BY <1>3, SettlesSound DEF Unanswered
<1>4. ASSUME NEW r \in DOMAIN queue, Claim(r) PROVE MessagesInv'
  BY <1>1, <1>4, ClaimSound
<1>5. ASSUME NEW ref \in 1..LastRow, TakenAtOnce(ref) PROVE MessagesInv'
  BY <1>5, TakenAtOnceSound
<1>6. ASSUME NEW ref \in 1..LastRow, NEW request \in wire, TakenLate(request, ref) PROVE MessagesInv'
  BY <1>6, TakenLateSound
<1>7. ASSUME NEW m \in Messages, SendText(m) \/ UpdateText(m) \/ RemoveMessage(m) PROVE MessagesInv'
  BY <1>7, SendTextSound, UpdateTextSound, RemoveMessageSound
<1>8. QED
  BY <1>2, <1>3, <1>4, <1>5, <1>6, <1>7 DEF MessagesNext

LEMMA Inductive == MessagesSpec => []MessagesInv
<1>1. MessagesInv /\ UNCHANGED messageVars => MessagesInv'
  BY DEF messageVars, MessagesInv, MessageTables, LastRows, InFlight, TriesBounded, Places, ShownIsCurrent, Earlier
<1>2. QED
  BY <1>1, InitIInv, MessagesStepSound, PTL DEF MessagesSpec

\* Every row and every reference is of its type.
THEOREM MessagesTypeCorrect == MessagesSpec => []MessagesTypeOK
<1>1. MessagesInv => MessagesTypeOK
  <2> SUFFICES ASSUME MessagesInv PROVE MessagesTypeOK
    OBVIOUS
  <2>1. /\ DOMAIN queue = 1..Len(queue) /\ DOMAIN shown = 1..Len(shown)
        /\ \A r \in 1..Len(queue) : queue[r] \in QueueRow
        /\ \A r \in 1..Len(shown) : shown[r] \in Place
    BY LenProperties, ElementOfSeq DEF MessagesInv, MessageTables
  <2>2. QED
    BY <2>1 DEF MessagesInv, MessageTables, MessagesTypeOK, QueueRow, Statuses, Place
<1>2. QED
  BY <1>1, Inductive, PTL

\* However edits, attempts, late answers and crashes overlap, an edit lands in the
\* place of its own message, and once the last one is taken the conversation
\* shows it, unless an earlier one was tried again or never answered (update_text,
\* _claim_next and the settlement of a delivery).
THEOREM MessagesAreSound == MessagesSpec => []MessagesSound
<1>1. MessagesInv => MessagesSound
  BY DEF MessagesInv, Places, MessagesSound, PlacesAreOwn
<1>2. QED
  BY <1>1, Inductive, PTL
=============================================================================
