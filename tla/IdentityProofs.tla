--------------------------- MODULE IdentityProofs ---------------------------
(* What signing in keeps for any number of phones, codes and requests: one    *)
(* account and one organisation per person, no session for a disabled user    *)
(* but from a login already begun, and a bound on the guesses at a code; what *)
(* reports show while roles change; and the parts of MCIdentity together.     *)
EXTENDS MCIdentity, FiniteSetTheorems, SequenceTheorems, WellFoundedInduction, TLAPS

CodeRow == [phone : Phone, created : Nat, expires : Nat, consumed : Nat \cup {None}, attempts : Nat]
Past(pos_h) == pos_h \in {"consume", "register", "enter"}

Tables ==
  /\ now \in Nat
  /\ codes \in Seq(CodeRow) /\ misses \in Seq(Nat) /\ Len(misses) = Len(codes)
  /\ orgs \in Seq(Phone)
  /\ account \in [Phone -> Nat \cup {None}] /\ disabled \in [Phone -> Nat \cup {None}]

\* A request knows its phone and its clock, and a login the code it read.
Requests ==
  /\ pos = [h \in Handler |-> pos[h]] /\ job = [h \in Handler |-> job[h]]
  /\ \A h \in Handler :
       /\ pos[h] # "idle" => job[h].phone \in Phone /\ job[h].at \in 0..now
       /\ pos[h] \notin {"idle", "store"} => job[h].code \in DOMAIN codes
       /\ Past(pos[h]) => "org" \in DOMAIN job[h]

\* Organisations and users are each other's; a request on its way to a session
\* knows the organisation, unless the phone had none when it looked.
OwnAccounts ==
  /\ \A o \in DOMAIN orgs : account[orgs[o]] = o
  /\ \A p \in Phone : account[p] # None => account[p] \in DOMAIN orgs /\ orgs[account[p]] = p
  /\ \A t \in tokens : t.phone \in Phone /\ account[t.phone] = t.org /\ t.org # None
  /\ \A h \in Handler :
       /\ pos[h] = "consume" /\ job[h].org # None => account[job[h].phone] = job[h].org
       /\ pos[h] = "enter" => job[h].org # None /\ account[job[h].phone] = job[h].org

\* Whoever has passed the look-up began before the account was disabled.
Begun ==
  /\ \A p \in Phone : disabled[p] # None => disabled[p] \in 0..now
  /\ \A t \in tokens : t.iat \in 0..now
  /\ NoSessionOnceDisabled
  /\ \A h \in Handler : Past(pos[h]) /\ disabled[job[h].phone] # None =>
       job[h].at <= disabled[job[h].phone]

SessionsInv == Tables /\ Requests /\ OwnAccounts /\ Begun

LEMMA NoneIsNoNumber == None \notin Nat
  BY SessionsAssumption

\* A request that changes none of the tables.
LEMMA GotoKeepsTables ==
  ASSUME SessionsInv, NEW h \in Handler, NEW s, NEW j, Goto(h, s, j), UNCHANGED <<now, tables>>,
         s # "idle" => j.phone \in Phone /\ j.at \in 0..now,
         s \notin {"idle", "store"} => j.code \in DOMAIN codes,
         Past(s) => /\ "org" \in DOMAIN j
                    /\ disabled[j.phone] # None => j.at <= disabled[j.phone],
         s = "consume" /\ j.org # None => account[j.phone] = j.org,
         s = "enter" => j.org # None /\ account[j.phone] = j.org
  PROVE  SessionsInv'
<1>1. Tables /\ Requests /\ OwnAccounts /\ Begun
  BY DEF SessionsInv
<1>2. pos'[h] = s /\ job'[h] = j /\ \A g \in Handler \ {h} : pos'[g] = pos[g] /\ job'[g] = job[g]
  BY <1>1 DEF Goto, Requests
<1>3. pos' = [g \in Handler |-> pos'[g]] /\ job' = [g \in Handler |-> job'[g]]
  BY <1>1 DEF Goto, Requests
<1>4. UNCHANGED <<now, codes, orgs, account, disabled, admins, tokens, misses>>
  BY DEF tables
<1>5. Tables'
  BY <1>1, <1>4 DEF Tables
<1>6. Requests'
  BY <1>1, <1>2, <1>3, <1>4 DEF Requests
<1>7. OwnAccounts'
  BY <1>1, <1>2, <1>4 DEF OwnAccounts
<1>8. Begun'
  BY <1>1, <1>2, <1>4 DEF Begun, NoSessionOnceDisabled
<1>9. QED
  BY <1>5, <1>6, <1>7, <1>8 DEF SessionsInv

\* A request that changes codes and no other table.
LEMMA CodesKeep ==
  ASSUME SessionsInv, NEW h \in Handler, NEW s \in {"idle", "register", "enter"},
         s # "idle" => pos[h] = "consume" /\ (s = "enter" <=> job[h].org # None),
         Goto(h, s, IF s = "idle" THEN None ELSE job[h]),
         codes' \in Seq(CodeRow), misses' \in Seq(Nat), Len(misses') = Len(codes'),
         DOMAIN codes \subseteq DOMAIN codes',
         UNCHANGED <<now, orgs, account, disabled, admins, tokens>>
  PROVE  SessionsInv'
<1>1. Tables /\ Requests /\ OwnAccounts /\ Begun
  BY DEF SessionsInv
<1>2. /\ pos'[h] = s /\ (s # "idle" => job'[h] = job[h])
      /\ \A g \in Handler \ {h} : pos'[g] = pos[g] /\ job'[g] = job[g]
  BY <1>1 DEF Goto, Requests
<1>3. pos' = [g \in Handler |-> pos'[g]] /\ job' = [g \in Handler |-> job'[g]]
  BY <1>1 DEF Goto, Requests
<1>5. Tables'
  BY <1>1 DEF Tables
<1>6. Requests'
  BY <1>1, <1>2, <1>3 DEF Requests, Past
<1>7. OwnAccounts'
  BY <1>1, <1>2 DEF OwnAccounts
<1>8. Begun'
  BY <1>1, <1>2 DEF Begun, NoSessionOnceDisabled, Past
<1>9. QED
  BY <1>5, <1>6, <1>7, <1>8 DEF SessionsInv

LEMMA SessionsInit == Init => SessionsInv
<1> SUFFICES ASSUME Init PROVE SessionsInv
  OBVIOUS
<1>1. codes = <<>> /\ orgs = <<>> /\ misses = <<>> /\ now = 0
  BY DEF Init
<1>2. Tables
  BY <1>1, EmptySeq DEF Init, Tables
<1>3. Requests
  BY DEF Init, Requests, Past
<1>4. OwnAccounts
  BY <1>1 DEF Init, OwnAccounts
<1>5. Begun
  BY <1>1 DEF Init, Begun, NoSessionOnceDisabled, Past
<1>6. QED
  BY <1>2, <1>3, <1>4, <1>5 DEF SessionsInv

----------------------------------------------------------------------------

LEMMA CodeUpdateKeepsRows ==
  ASSUME SessionsInv, NEW c \in DOMAIN codes, NEW r \in CodeRow, codes' = [codes EXCEPT ![c] = r]
  PROVE  codes' \in Seq(CodeRow) /\ Len(codes') = Len(codes) /\ DOMAIN codes' = DOMAIN codes
<1>1. codes \in Seq(CodeRow) /\ c \in 1..Len(codes)
  BY DEF SessionsInv, Tables
<1>2. QED
  BY <1>1, ExceptSeq

LEMMA SendKeeps ==
  ASSUME SessionsInv, NEW h \in Handler, SendCode(h) \/ Login(h) \/ Abandon(h)
  PROVE  SessionsInv'
<1>1. CASE SendCode(h)
  <2>1. PICK p \in Phone : Goto(h, "store", [phone |-> p, at |-> now])
    BY <1>1 DEF SendCode
  <2>2. now \in 0..now /\ UNCHANGED <<now, tables>>
    BY <1>1 DEF SendCode, SessionsInv, Tables
  <2>3. QED
    BY <2>1, <2>2, GotoKeepsTables DEF Past
<1>2. CASE Login(h)
  <2>1. PICK p \in Phone, c \in CodeIds, s \in {"lookup", "miss"} :
          Goto(h, s, [phone |-> p, at |-> now, code |-> c, read |-> codes[c].attempts])
    BY <1>2 DEF Login
  <2>2. now \in 0..now /\ UNCHANGED <<now, tables>>
    BY <1>2 DEF Login, SessionsInv, Tables
  <2>3. QED
    BY <2>1, <2>2, GotoKeepsTables DEF Past, CodeIds
<1>3. CASE Abandon(h)
  BY <1>3, GotoKeepsTables DEF Abandon, Done, Past
<1>4. QED
  BY <1>1, <1>2, <1>3

LEMMA StoreKeeps ==
  ASSUME SessionsInv, NEW h \in Handler, StoreCode(h)
  PROVE  SessionsInv'
<1>1. Tables /\ job[h].phone \in Phone /\ job[h].at \in 0..now
  BY DEF StoreCode, SessionsInv, Requests
<1>2. Goto(h, "idle", None) /\ UNCHANGED <<now, orgs, account, disabled, admins, tokens>>
  BY DEF StoreCode, Done
<1>3. Row(job[h]) \in CodeRow
  <2>1. job[h].at + CodeTtl \in Nat
    BY <1>1, SessionsAssumption DEF Tables
  <2>2. QED
    BY <1>1, <2>1 DEF Row, CodeRow, Tables
<1>4. \/ codes' = Append(codes, Row(job[h])) /\ misses' = Append(misses, 0)
      \/ UNCHANGED <<codes, misses>>
  BY DEF StoreCode
<1>5. /\ codes' \in Seq(CodeRow) /\ misses' \in Seq(Nat) /\ Len(misses') = Len(codes')
      /\ DOMAIN codes \subseteq DOMAIN codes'
  <2>1. CASE codes' = Append(codes, Row(job[h])) /\ misses' = Append(misses, 0)
    <3>1. codes' \in Seq(CodeRow) /\ Len(codes') = Len(codes) + 1
      BY <1>1, <1>3, <2>1, AppendProperties DEF Tables
    <3>2. misses' \in Seq(Nat) /\ Len(misses') = Len(misses) + 1
      BY <1>1, <2>1, AppendProperties DEF Tables
    <3>3. DOMAIN codes = 1..Len(codes) /\ DOMAIN codes' = 1..Len(codes') /\ Len(codes) \in Nat
      BY <1>1, <3>1 DEF Tables
    <3>4. QED
      BY <1>1, <3>1, <3>2, <3>3 DEF Tables
  <2>2. CASE UNCHANGED <<codes, misses>>
    BY <1>1, <2>2 DEF Tables
  <2>3. QED
    BY <1>4, <2>1, <2>2
<1>6. QED
  BY <1>2, <1>5, CodesKeep

LEMMA MissKeeps ==
  ASSUME SessionsInv, NEW h \in Handler, Miss(h)
  PROVE  SessionsInv'
<1> DEFINE c == job[h].code
           r == Missed(codes[c], job[h].at)
<1>1. Tables /\ c \in DOMAIN codes /\ job[h].at \in 0..now
  BY DEF Miss, SessionsInv, Requests
<1>2. codes' = [codes EXCEPT ![c] = r] /\ misses' = [misses EXCEPT ![c] = @ + 1]
  <2>1. CountMiss(c, job[h].at, job[h].read) /\ misses' = [misses EXCEPT ![c] = @ + 1]
    BY DEF Miss
  <2>2. QED
    BY <2>1 DEF CountMiss
<1>3. r \in CodeRow
  <2>1. codes[c] \in CodeRow
    BY <1>1, ElementOfSeq DEF Tables
  <2>2. job[h].at \in Nat
    BY <1>1 DEF Tables
  <2>3. codes[c].attempts + 1 \in Nat /\ codes[c].consumed \in Nat \cup {None}
    BY <2>1 DEF CodeRow
  <2>4. DEFINE n == codes[c].attempts + 1
               k == IF n >= MaxAttempts THEN job[h].at ELSE codes[c].consumed
  <2>5. n \in Nat /\ k \in Nat \cup {None} /\ r = [codes[c] EXCEPT !.attempts = n, !.consumed = k]
    BY <2>2, <2>3 DEF Missed
  <2>6. QED
    <3> HIDE DEF n, k, r
    <3>1. QED
      BY <2>1, <2>5 DEF CodeRow
<1>4. codes' \in Seq(CodeRow) /\ Len(codes') = Len(codes) /\ DOMAIN codes' = DOMAIN codes
  BY <1>1, <1>2, <1>3, CodeUpdateKeepsRows
<1>5. misses' \in Seq(Nat) /\ Len(misses') = Len(misses)
  <2>1. misses \in Seq(Nat) /\ c \in 1..Len(misses) /\ misses[c] + 1 \in Nat
    BY <1>1 DEF Tables
  <2>2. QED
    BY <1>2, <2>1, ExceptSeq
<1>6. Goto(h, "idle", None) /\ UNCHANGED <<now, orgs, account, disabled, admins, tokens>>
  BY DEF Miss, Done
<1>7. QED
  BY <1>1, <1>4, <1>5, <1>6, CodesKeep DEF Tables

LEMMA LookupKeeps ==
  ASSUME SessionsInv, NEW h \in Handler, Lookup(h)
  PROVE  SessionsInv'
<1>1. /\ job[h].phone \in Phone /\ job[h].at \in 0..now /\ job[h].code \in DOMAIN codes
      /\ UNCHANGED <<now, tables>>
  BY DEF Lookup, SessionsInv, Requests
<1>2. CASE MayEnter(job[h].phone)
  <2>1. Goto(h, "consume", [phone |-> job[h].phone, at |-> job[h].at, code |-> job[h].code,
                            org |-> account[job[h].phone]])
    BY <1>2 DEF Lookup
  <2>2. QED
    BY <1>1, <1>2, <2>1, GotoKeepsTables DEF MayEnter
<1>3. CASE ~MayEnter(job[h].phone)
  BY <1>1, <1>3, GotoKeepsTables DEF Lookup, Done, Past
<1>4. QED
  BY <1>2, <1>3

LEMMA ConsumeKeeps ==
  ASSUME SessionsInv, NEW h \in Handler, Consume(h)
  PROVE  SessionsInv'
<1> DEFINE c == job[h].code
           r == [codes[c] EXCEPT !.consumed = job[h].at]
<1>1. Tables /\ c \in DOMAIN codes /\ job[h].at \in 0..now /\ pos[h] = "consume"
  BY DEF Consume, SessionsInv, Requests
<1>2. codes' = [codes EXCEPT ![c] = r] /\ UNCHANGED <<now, orgs, account, disabled, admins, tokens, misses>>
  BY DEF Consume
<1>3. r \in CodeRow
  <2>1. codes[c] \in CodeRow
    BY <1>1, ElementOfSeq DEF Tables
  <2>2. job[h].at \in Nat
    BY <1>1 DEF Tables
  <2>3. QED
    BY <2>1, <2>2 DEF CodeRow
<1>4. codes' \in Seq(CodeRow) /\ Len(codes') = Len(codes) /\ DOMAIN codes' = DOMAIN codes
  BY <1>1, <1>2, <1>3, CodeUpdateKeepsRows
<1>5. PICK s \in {"register", "enter"} : Goto(h, s, job[h]) /\ (s = "enter" <=> job[h].org # None)
  BY DEF Consume
<1>6. QED
  BY <1>1, <1>2, <1>4, <1>5, CodesKeep DEF Tables

LEMMA RegisterKeeps ==
  ASSUME SessionsInv, NEW h \in Handler, Register(h)
  PROVE  SessionsInv'
<1> DEFINE p == job[h].phone
           o == Len(orgs) + 1
<1>1. Tables /\ Requests /\ OwnAccounts /\ Begun
  BY DEF SessionsInv
<1>2. /\ pos[h] = "register" /\ p \in Phone /\ job[h].at \in 0..now
      /\ job[h].code \in DOMAIN codes /\ "org" \in DOMAIN job[h]
      /\ disabled[p] # None => job[h].at <= disabled[p]
  BY <1>1 DEF Register, Requests, Begun, Past
<1>3. CASE account[p] # None
  <2>1. Goto(h, "idle", None) /\ UNCHANGED <<now, tables>>
    BY <1>3 DEF Register, Done, tables
  <2>2. QED
    BY <2>1, GotoKeepsTables DEF Past
<1>4. CASE account[p] = None
  <2>1. /\ orgs' = Append(orgs, p) /\ account' = [account EXCEPT ![p] = o]
        /\ Goto(h, "enter", [job[h] EXCEPT !.org = o])
        /\ UNCHANGED <<now, codes, disabled, admins, tokens, misses>>
    BY <1>4 DEF Register
  <2>2. /\ o \in Nat /\ o # None /\ orgs' \in Seq(Phone) /\ Len(orgs') = o /\ orgs'[o] = p
        /\ \A q \in DOMAIN orgs : orgs'[q] = orgs[q]
        /\ DOMAIN orgs' = DOMAIN orgs \cup {o}
    BY <1>1, <1>2, <2>1, AppendProperties, NoneIsNoNumber DEF Tables
  <2>3. account'[p] = o /\ \A q \in Phone \ {p} : account'[q] = account[q]
    BY <1>1, <1>2, <2>1 DEF Tables
  <2>4. /\ pos'[h] = "enter" /\ job'[h].phone = p /\ job'[h].at = job[h].at /\ job'[h].org = o
        /\ job'[h].code = job[h].code /\ "org" \in DOMAIN job'[h]
        /\ \A g \in Handler \ {h} : pos'[g] = pos[g] /\ job'[g] = job[g]
    <3>1. job'[h] = [job[h] EXCEPT !.org = o] /\ pos'[h] = "enter"
      BY <1>1, <2>1 DEF Goto, Requests
    <3>2. \A g \in Handler \ {h} : pos'[g] = pos[g] /\ job'[g] = job[g]
      BY <1>1, <2>1 DEF Goto, Requests
    <3>3. DOMAIN job'[h] = DOMAIN job[h]
      BY <3>1
    <3>4. QED
      BY <1>2, <3>1, <3>2, <3>3
  <2>5. pos' = [g \in Handler |-> pos'[g]] /\ job' = [g \in Handler |-> job'[g]]
    BY <1>1, <2>1 DEF Goto, Requests
  <2> HIDE DEF p, o
  <2>6. Tables'
    BY <1>1, <2>1, <2>2 DEF Tables
  <2>7. Requests'
    BY <1>1, <1>2, <2>1, <2>4, <2>5 DEF Requests, p
  <2>8. OwnAccounts'
    <3>1. ASSUME NEW q \in DOMAIN orgs' PROVE account'[orgs'[q]] = q
      <4>1. CASE q = o
        BY <2>2, <2>3, <4>1
      <4>2. CASE q # o
        <5>1. q \in DOMAIN orgs /\ orgs'[q] = orgs[q] /\ orgs[q] \in Phone
          BY <1>1, <2>2, <3>1, <4>2, ElementOfSeq DEF Tables
        <5>2. orgs[q] # p
          BY <1>1, <1>4, <5>1, NoneIsNoNumber DEF OwnAccounts, Tables, p
        <5>3. QED
          BY <1>1, <2>3, <5>1, <5>2 DEF OwnAccounts
      <4>3. QED
        BY <4>1, <4>2
    <3>2. ASSUME NEW q \in Phone, account'[q] # None
          PROVE  account'[q] \in DOMAIN orgs' /\ orgs'[account'[q]] = q
      BY <1>1, <2>2, <2>3, <3>2 DEF OwnAccounts
    <3>3. ASSUME NEW t \in tokens PROVE t.phone \in Phone /\ account'[t.phone] = t.org /\ t.org # None
      BY <1>1, <1>4, <2>3, <3>3 DEF OwnAccounts, p
    <3>4. ASSUME NEW g \in Handler
          PROVE  /\ pos'[g] = "consume" /\ job'[g].org # None => account'[job'[g].phone] = job'[g].org
                 /\ pos'[g] = "enter" => job'[g].org # None /\ account'[job'[g].phone] = job'[g].org
      <4>1. CASE g = h
        BY <2>2, <2>3, <2>4, <4>1
      <4>2. CASE g # h
        <5>1. pos[g] # "idle" => job[g].phone \in Phone
          BY <1>1 DEF Requests
        <5>2. QED
          BY <1>1, <1>4, <2>3, <2>4, <4>2, <5>1 DEF OwnAccounts, p
      <4>3. QED
        BY <4>1, <4>2
    <3>5. QED
      BY <2>1, <3>1, <3>2, <3>3, <3>4 DEF OwnAccounts
  <2>9. Begun'
    BY <1>1, <1>2, <2>1, <2>4 DEF Begun, NoSessionOnceDisabled, Past
  <2>10. QED
    BY <2>6, <2>7, <2>8, <2>9 DEF SessionsInv
<1>5. QED
  BY <1>3, <1>4

LEMMA EnterKeeps ==
  ASSUME SessionsInv, NEW h \in Handler, Enter(h)
  PROVE  SessionsInv'
<1>1. Tables /\ Requests /\ OwnAccounts /\ Begun
  BY DEF SessionsInv
<1>2. /\ pos[h] = "enter" /\ job[h].phone \in Phone /\ job[h].at \in 0..now
      /\ account[job[h].phone] = job[h].org /\ job[h].org # None
      /\ disabled[job[h].phone] # None => job[h].at <= disabled[job[h].phone]
  BY <1>1 DEF Enter, Requests, OwnAccounts, Begun, Past
<1>3. PICK t : /\ tokens' = tokens \cup {t}
               /\ t.phone = job[h].phone /\ t.org = job[h].org /\ t.iat = job[h].at
  <2> DEFINE t == [phone |-> job[h].phone, org |-> job[h].org, iat |-> job[h].at,
                   code |-> job[h].code, by |-> h]
  <2>1. tokens' = tokens \cup {t}
    BY DEF Enter
  <2>2. t.phone = job[h].phone /\ t.org = job[h].org /\ t.iat = job[h].at
    OBVIOUS
  <2>3. QED
    BY <2>1, <2>2
<1>4. Goto(h, "idle", None) /\ UNCHANGED <<now, codes, orgs, account, disabled, misses>>
  BY DEF Enter, Done
<1>5. /\ pos'[h] = "idle" /\ \A g \in Handler \ {h} : pos'[g] = pos[g] /\ job'[g] = job[g]
      /\ pos' = [g \in Handler |-> pos'[g]] /\ job' = [g \in Handler |-> job'[g]]
  BY <1>1, <1>4 DEF Goto, Requests
<1>6. Tables'
  BY <1>1, <1>4 DEF Tables
<1>7. Requests'
  BY <1>1, <1>4, <1>5 DEF Requests, Past
<1>8. OwnAccounts'
  BY <1>1, <1>2, <1>3, <1>4, <1>5 DEF OwnAccounts
<1>9. Begun'
  BY <1>1, <1>2, <1>3, <1>4, <1>5 DEF Begun, NoSessionOnceDisabled, Past
<1>10. QED
  BY <1>6, <1>7, <1>8, <1>9 DEF SessionsInv

LEMMA OthersKeep ==
  ASSUME SessionsInv, Tick \/ Disable \/ UNCHANGED vars
  PROVE  SessionsInv'
<1>1. Tables /\ Requests /\ OwnAccounts /\ Begun
  BY DEF SessionsInv
<1>2. /\ now' \in Nat /\ now <= now'
      /\ UNCHANGED <<codes, orgs, account, admins, tokens, misses, pos, job>>
      /\ \/ UNCHANGED disabled
         \/ \E p \in Phone : disabled[p] = None /\ disabled' = [disabled EXCEPT ![p] = now] /\ now' = now
  BY <1>1 DEF Tick, Disable, tables, vars, Tables
<1>3. \A p \in Phone : disabled'[p] = disabled[p] \/ (disabled[p] = None /\ disabled'[p] = now)
  BY <1>1, <1>2 DEF Tables
<1>4. Tables'
  BY <1>1, <1>2 DEF Tables
<1>5. Requests'
  BY <1>1, <1>2 DEF Requests, Tables
<1>6. OwnAccounts'
  BY <1>1, <1>2 DEF OwnAccounts
<1>7. \A h \in Handler : Past(pos[h]) => job[h].phone \in Phone /\ job[h].at \in 0..now
  BY <1>1 DEF Requests, Past
<1>8. Begun'
  <2>1. \A p \in Phone : disabled'[p] # None => disabled'[p] \in 0..now'
    BY <1>1, <1>2, <1>3 DEF Begun, Tables
  <2>2. \A t \in tokens : t.iat \in 0..now'
    BY <1>1, <1>2 DEF Begun, Tables
  <2>3. NoSessionOnceDisabled'
    BY <1>1, <1>2, <1>3 DEF Begun, NoSessionOnceDisabled, OwnAccounts, Tables
  <2>4. \A h \in Handler : Past(pos[h]) /\ disabled'[job[h].phone] # None =>
          job[h].at <= disabled'[job[h].phone]
    BY <1>1, <1>3, <1>7 DEF Begun, Tables
  <2>5. QED
    BY <1>2, <2>1, <2>2, <2>3, <2>4 DEF Begun
<1>9. QED
  BY <1>4, <1>5, <1>6, <1>8 DEF SessionsInv

LEMMA SessionsStep == SessionsInv /\ [Next]_vars => SessionsInv'
<1> SUFFICES ASSUME SessionsInv, [Next]_vars PROVE SessionsInv'
  OBVIOUS
<1>1. CASE Tick \/ Disable \/ UNCHANGED vars
  BY <1>1, OthersKeep
<1>2. ASSUME NEW h \in Handler,
             \/ SendCode(h) \/ StoreCode(h) \/ Login(h) \/ Miss(h) \/ Lookup(h)
             \/ Consume(h) \/ Register(h) \/ Enter(h) \/ Abandon(h)
      PROVE  SessionsInv'
  BY <1>2, SendKeeps, StoreKeeps, MissKeeps, LookupKeeps, ConsumeKeeps, RegisterKeeps, EnterKeeps
<1>3. QED
  BY <1>1, <1>2 DEF Next

\* A registration makes the organisation and its user or neither, and every
\* session is of the user's own organisation (NoHalfRegistration): the
\* transaction of login's first use, for any first logins that coincide.
THEOREM RegistrationsAreWhole == Spec => []NoHalfRegistration
<1>1. SessionsInv => NoHalfRegistration
  BY DEF SessionsInv, OwnAccounts, NoHalfRegistration
<1>2. QED
  BY <1>1, SessionsInit, SessionsStep, PTL DEF Spec

\* A disabled user holds no session but of a login that had begun before
\* (NoSessionOnceDisabled): the look-up between the code and the token.
THEOREM DisabledMeansOut == Spec => []NoSessionOnceDisabled
<1>1. SessionsInv => NoSessionOnceDisabled
  BY DEF SessionsInv, Begun
<1>2. QED
  BY <1>1, SessionsInit, SessionsStep, PTL DEF Spec

----------------------------------------------------------------------------
(* Guesses at a code.  A request that has read a code and found the guess     *)
(* wrong will count it, whatever happens meanwhile; it has read the code when *)
(* it was still good.                                                         *)

Guessers(c) == {h \in Handler : pos[h] = "miss" /\ job[h].code = c}

Counted(c) ==
  /\ codes[c].attempts = misses[c]
  /\ misses[c] >= MaxAttempts => codes[c].consumed # None
  /\ misses[c] + Cardinality(Guessers(c)) <= MaxAttempts + Cardinality(Handler) - 1

GuessInv == \A c \in DOMAIN codes : Counted(c)

LEMMA GuessersAreFew ==
  \A c : /\ IsFiniteSet(Guessers(c)) /\ Cardinality(Guessers(c)) \in Nat
         /\ Cardinality(Guessers(c)) <= Cardinality(Handler) /\ Cardinality(Handler) \in Nat
  BY SessionsAssumption, FS_Subset, FS_CardinalityType DEF Guessers

\* A step after which no more requests guess at c than before.
LEMMA CountedKeeps ==
  ASSUME SessionsInv, NEW c \in DOMAIN codes, Counted(c),
         Guessers(c)' \subseteq Guessers(c),
         codes'[c].attempts = codes[c].attempts, misses'[c] = misses[c],
         codes[c].consumed # None => codes'[c].consumed # None
  PROVE  Counted(c)'
<1>1. Cardinality(Guessers(c)') <= Cardinality(Guessers(c)) /\ Cardinality(Guessers(c)') \in Nat
  BY GuessersAreFew, FS_Subset, FS_CardinalityType
<1>2. misses[c] \in Nat /\ Cardinality(Guessers(c)) \in Nat /\ Cardinality(Handler) \in Nat
  BY GuessersAreFew, ElementOfSeq DEF SessionsInv, Tables
<1>3. QED
  BY <1>1, <1>2, SessionsAssumption DEF Counted

LEMMA GuessLogin ==
  ASSUME SessionsInv, GuessInv, NEW h \in Handler, Login(h)
  PROVE  GuessInv'
<1>1. PICK p \in Phone, c \in CodeIds, right \in BOOLEAN :
        /\ c \in Newest(Usable(p))
        /\ Goto(h, IF right THEN "lookup" ELSE "miss",
                [phone |-> p, at |-> now, code |-> c, read |-> codes[c].attempts])
  BY DEF Login
<1>2. UNCHANGED <<codes, misses>>
  BY DEF Login, tables
<1>3. codes[c].consumed = None /\ c \in DOMAIN codes
  BY <1>1 DEF Newest, Usable, CodeIds
<1>4. job'[h].code = c /\ \A g \in Handler \ {h} : pos'[g] = pos[g] /\ job'[g] = job[g]
  BY <1>1 DEF Goto, SessionsInv, Requests
<1>5. ASSUME NEW d \in DOMAIN codes PROVE Counted(d)'
  <2>1. CASE d = c
    <3>1. misses[c] \in Nat /\ misses[c] < MaxAttempts
      BY <1>3, ElementOfSeq, SessionsAssumption DEF GuessInv, Counted, SessionsInv, Tables
    <3>2. Cardinality(Guessers(c)') \in Nat /\ Cardinality(Guessers(c)') <= Cardinality(Handler)
          /\ Cardinality(Handler) \in Nat
      BY SessionsAssumption, FS_Subset, FS_CardinalityType DEF Guessers
    <3>3. QED
      BY <1>2, <1>3, <2>1, <3>1, <3>2, SessionsAssumption DEF GuessInv, Counted
  <2>2. CASE d # c
    <3>1. Guessers(d)' \subseteq Guessers(d)
      BY <1>4, <2>2 DEF Guessers
    <3>2. QED
      BY <1>2, <3>1, CountedKeeps DEF GuessInv
  <2>3. QED
    BY <2>1, <2>2
<1>6. QED
  BY <1>2, <1>5 DEF GuessInv

LEMMA GuessMiss ==
  ASSUME SessionsInv, GuessInv, NEW h \in Handler, Miss(h)
  PROVE  GuessInv'
<1>0. PICK c : c = job[h].code
  OBVIOUS
<1>1. /\ pos[h] = "miss" /\ c \in DOMAIN codes /\ job[h].at \in Nat
      /\ codes \in Seq(CodeRow) /\ misses \in Seq(Nat) /\ Len(misses) = Len(codes)
  BY <1>0 DEF Miss, SessionsInv, Requests, Tables
<1>2. /\ codes' = [codes EXCEPT ![c] = Missed(codes[c], job[h].at)]
      /\ misses' = [misses EXCEPT ![c] = @ + 1] /\ Goto(h, "idle", None)
  BY <1>0 DEF Miss, CountMiss, Done
<1>3. pos'[h] = "idle" /\ \A g \in Handler \ {h} : pos'[g] = pos[g] /\ job'[g] = job[g]
  BY <1>2 DEF Goto, SessionsInv, Requests
<1>4. /\ DOMAIN codes' = DOMAIN codes /\ codes'[c] = Missed(codes[c], job[h].at)
      /\ misses[c] \in Nat /\ misses'[c] = misses[c] + 1
      /\ \A d \in DOMAIN codes \ {c} : codes'[d] = codes[d] /\ misses'[d] = misses[d]
  BY <1>1, <1>2, ElementOfSeq
<1>5. \A d : Guessers(d)' \subseteq Guessers(d)
  BY <1>3 DEF Guessers
<1>6. Counted(c)'
  <2>1. codes[c] \in CodeRow /\ Counted(c)
    BY <1>1, ElementOfSeq DEF GuessInv
  <2>2. /\ codes'[c].attempts = codes[c].attempts + 1
        /\ codes'[c].consumed = IF codes[c].attempts + 1 >= MaxAttempts THEN job[h].at ELSE codes[c].consumed
    BY <1>4, <2>1 DEF Missed, CodeRow
  <2>3. Guessers(c)' \subseteq Guessers(c) \ {h} /\ h \in Guessers(c)
    BY <1>0, <1>1, <1>3 DEF Guessers
  <2>4. /\ Cardinality(Guessers(c)') \in Nat
        /\ Cardinality(Guessers(c)') <= Cardinality(Guessers(c)) - 1
    <3>1. /\ IsFiniteSet(Guessers(c) \ {h})
          /\ Cardinality(Guessers(c) \ {h}) = Cardinality(Guessers(c)) - 1
      BY <2>3, GuessersAreFew, FS_RemoveElement
    <3>2. QED
      BY <2>3, <3>1, FS_Subset, FS_CardinalityType
  <2>5. Cardinality(Guessers(c)) \in Nat /\ Cardinality(Handler) \in Nat
    BY GuessersAreFew
  <2>6. job[h].at # None
    BY <1>1, NoneIsNoNumber
  <2>7. QED
    BY <1>4, <2>1, <2>2, <2>4, <2>5, <2>6, SessionsAssumption DEF Counted
<1>7. QED
  <2>1. \A d \in DOMAIN codes \ {c} : Counted(d)'
    BY <1>4, <1>5, CountedKeeps DEF GuessInv
  <2>2. QED
    BY <1>4, <1>6, <2>1 DEF GuessInv

LEMMA GuessStore ==
  ASSUME SessionsInv, GuessInv, NEW h \in Handler, StoreCode(h)
  PROVE  GuessInv'
<1>1. /\ codes \in Seq(CodeRow) /\ misses \in Seq(Nat) /\ Len(misses) = Len(codes)
      /\ Goto(h, "idle", None)
  BY DEF StoreCode, Done, SessionsInv, Tables
<1>2. pos'[h] = "idle" /\ \A g \in Handler \ {h} : pos'[g] = pos[g] /\ job'[g] = job[g]
  BY <1>1 DEF Goto, SessionsInv, Requests
<1>3. \A d : Guessers(d)' \subseteq Guessers(d)
  BY <1>2 DEF Guessers
<1>4. CASE UNCHANGED <<codes, misses>>
  BY <1>3, <1>4, CountedKeeps DEF GuessInv
<1>5. CASE codes' = Append(codes, Row(job[h])) /\ misses' = Append(misses, 0)
  <2>0. PICK n : n = Len(codes) + 1
    OBVIOUS
  <2>1. /\ DOMAIN codes' = DOMAIN codes \cup {n} /\ n \notin DOMAIN codes
        /\ codes'[n] = Row(job[h]) /\ misses'[n] = 0
        /\ \A d \in DOMAIN codes : codes'[d] = codes[d] /\ misses'[d] = misses[d]
    <3>1. /\ Len(codes) \in Nat /\ Len(codes') = n /\ DOMAIN codes = 1..Len(codes)
          /\ DOMAIN codes' = 1..n /\ DOMAIN misses = DOMAIN codes
      BY <1>1, <1>5, <2>0, AppendProperties
    <3>2. codes'[n] = Row(job[h]) /\ misses'[n] = 0
      BY <1>1, <1>5, <2>0, AppendProperties
    <3>3. \A d \in DOMAIN codes : codes'[d] = codes[d] /\ misses'[d] = misses[d]
      BY <1>1, <1>5, <2>0, <3>1
    <3>4. QED
      BY <2>0, <3>1, <3>2, <3>3
  <2>2. \A d \in DOMAIN codes : Counted(d)'
    BY <1>3, <2>1, CountedKeeps DEF GuessInv
  <2>3. Counted(n)'
    <3>1. Guessers(n) = {}
      BY <2>1 DEF Guessers, SessionsInv, Requests
    <3>2. Cardinality(Guessers(n)') = 0
      BY <1>3, <3>1, FS_EmptySet
    <3>3. codes'[n].attempts = 0
      BY <2>1 DEF Row
    <3>4. Cardinality(Handler) \in Nat
      BY GuessersAreFew
    <3>5. QED
      BY <2>1, <3>2, <3>3, <3>4, SessionsAssumption DEF Counted
  <2>4. QED
    BY <2>1, <2>2, <2>3 DEF GuessInv
<1>6. QED
  BY <1>4, <1>5 DEF StoreCode

LEMMA GuessConsume ==
  ASSUME SessionsInv, GuessInv, NEW h \in Handler, Consume(h)
  PROVE  GuessInv'
<1> DEFINE c == job[h].code
<1>1. /\ pos[h] = "consume" /\ c \in DOMAIN codes /\ job[h].at # None /\ codes \in Seq(CodeRow)
  BY NoneIsNoNumber DEF Consume, SessionsInv, Requests, Tables
<1>2. /\ codes' = [codes EXCEPT ![c].consumed = job[h].at] /\ UNCHANGED misses
      /\ \E s \in {"register", "enter"} : Goto(h, s, job[h])
  BY DEF Consume
<1>3. \A d : Guessers(d)' \subseteq Guessers(d)
  BY <1>2 DEF Guessers, Goto, SessionsInv, Requests
<1>4. /\ DOMAIN codes' = DOMAIN codes
      /\ \A d \in DOMAIN codes :
           /\ codes'[d].attempts = codes[d].attempts
           /\ codes[d].consumed # None => codes'[d].consumed # None
  <2>1. codes[c] \in CodeRow
    BY <1>1, ElementOfSeq
  <2>2. codes'[c] = [codes[c] EXCEPT !.consumed = job[h].at]
    BY <1>1, <1>2
  <2>3. codes'[c].attempts = codes[c].attempts /\ codes'[c].consumed = job[h].at
    BY <2>1, <2>2 DEF CodeRow
  <2>4. DOMAIN codes' = DOMAIN codes /\ \A d \in DOMAIN codes \ {c} : codes'[d] = codes[d]
    BY <1>1, <1>2
  <2>5. QED
    BY <1>1, <2>3, <2>4
<1>5. QED
  BY <1>2, <1>3, <1>4, CountedKeeps DEF GuessInv

LEMMA GuessStep == SessionsInv /\ GuessInv /\ [Next]_vars => GuessInv'
<1> SUFFICES ASSUME SessionsInv, GuessInv, [Next]_vars PROVE GuessInv'
  OBVIOUS
<1>1. ASSUME UNCHANGED <<codes, misses>>, \A d : Guessers(d)' \subseteq Guessers(d) PROVE GuessInv'
  BY <1>1, CountedKeeps DEF GuessInv
<1>2. CASE Tick \/ Disable \/ UNCHANGED vars
  BY <1>1, <1>2 DEF Tick, Disable, vars, tables, Guessers
<1>3. ASSUME NEW h \in Handler,
             SendCode(h) \/ Lookup(h) \/ Register(h) \/ Enter(h) \/ Abandon(h)
      PROVE  GuessInv'
  <2>1. UNCHANGED <<codes, misses>>
    BY <1>3 DEF SendCode, Lookup, Register, Enter, Abandon, tables
  <2>2. \E s \in {"store", "consume", "idle", "enter"} : \E j : Goto(h, s, j)
    BY <1>3 DEF SendCode, Lookup, Register, Enter, Abandon, Done
  <2>3. \A d : Guessers(d)' \subseteq Guessers(d)
    BY <2>2 DEF Guessers, Goto, SessionsInv, Requests
  <2>4. QED
    BY <1>1, <2>1, <2>3
<1>4. QED
  BY <1>2, <1>3, GuessLogin, GuessMiss, GuessStore, GuessConsume DEF Next

\* A code cannot be guessed at for longer than MaxAttempts and the requests that
\* coincide allow (MissesBounded): the atomic increment of login's miss.
THEOREM GuessesAreBounded == Spec => []MissesBounded
<1>1. Init => SessionsInv /\ GuessInv
  BY SessionsInit DEF Init, GuessInv
<1>2. SessionsInv /\ GuessInv => MissesBounded
  <2> SUFFICES ASSUME SessionsInv, GuessInv, NEW c \in CodeIds
               PROVE  /\ misses[c] <= MaxAttempts + Cardinality(Handler) - 1
                      /\ misses[c] >= MaxAttempts => codes[c].consumed # None
    BY DEF MissesBounded
  <2>1. Counted(c) /\ misses[c] \in Nat
    BY ElementOfSeq DEF CodeIds, GuessInv, SessionsInv, Tables
  <2>2. QED
    BY <2>1, GuessersAreFew, SessionsAssumption DEF Counted
<1>3. QED
  BY <1>1, <1>2, SessionsStep, GuessStep, PTL DEF Spec

----------------------------------------------------------------------------
(* Codes sent.  A code is created at the instant its request looked at the    *)
(* newest one.  Of the codes in a window of one cooldown and the requests     *)
(* about to add to them, there are never more than requests: one that finds   *)
(* the phone rested finds the windows around now empty, and what it stores    *)
(* later it takes from the requests.                                          *)

Window(t) == t..(t + Cooldown - 1)
Sent(p, t) == {d \in Of(p) : codes[d].created \in Window(t)}
Sending(p, t) == {h \in Handler : /\ pos[h] = "store" /\ job[h].phone = p
                                  /\ job[h].at \in Window(t)}

SendsFit ==
  \A p \in Phone, t \in Nat :
    Cardinality(Sent(p, t)) + Cardinality(Sending(p, t)) <= Cardinality(Handler)

Positions == {"idle", "store", "miss", "lookup", "consume", "register", "enter"}

Rows ==
  /\ now \in 0..Late /\ Len(codes) <= MaxCodes
  /\ \A c \in DOMAIN codes :
       /\ codes[c].created \in 0..now /\ codes[c].expires = codes[c].created + CodeTtl
       /\ codes[c].consumed \in (0..now) \cup {None}
  /\ admins \subseteq Phone
  /\ \A h \in Handler : pos[h] \in Positions

SendsInv == SessionsInv /\ Rows /\ SendsFit

LEMMA SentIsFinite ==
  ASSUME SessionsInv, NEW p, NEW t
  PROVE  /\ IsFiniteSet(Sent(p, t)) /\ Cardinality(Sent(p, t)) \in Nat
         /\ IsFiniteSet(Sending(p, t)) /\ Cardinality(Sending(p, t)) \in Nat
         /\ Cardinality(Sending(p, t)) <= Cardinality(Handler) /\ Cardinality(Handler) \in Nat
<1>1. DOMAIN codes = 1..Len(codes) /\ Len(codes) \in Nat
  BY DEF SessionsInv, Tables
<1>2. IsFiniteSet(DOMAIN codes)
  BY <1>1, FS_Interval
<1>3. Sent(p, t) \subseteq DOMAIN codes /\ Sending(p, t) \subseteq Handler
  BY DEF Sent, Of, CodeIds, Sending
<1>4. QED
  BY <1>2, <1>3, SessionsAssumption, FS_Subset, FS_CardinalityType

\* The newest code of a rested phone is a cooldown old, so all of them are.
LEMMA RestedMeansAll ==
  ASSUME SendsInv, NEW p \in Phone, Rested(p), NEW c \in Of(p)
  PROVE  now - codes[c].created >= Cooldown
<1> DEFINE T == {now - codes[d].created : d \in Of(p)}
<1>1. \A d \in Of(p) : codes[d].created \in 0..now /\ now \in Nat
  BY DEF SendsInv, Rows, SessionsInv, Tables, Of, CodeIds
<1>2. T \subseteq Nat /\ T # {}
  <2>1. \A d \in Of(p) : now - codes[d].created \in Nat
    BY <1>1
  <2>2. now - codes[c].created \in T
    OBVIOUS
  <2>3. QED
    BY <2>1, <2>2
<1>3. PICK x \in T : \A y \in T : ~(<<y, x>> \in OpToRel(<, Nat))
  <2> HIDE DEF T
  <2>1. \E x \in T : \A y \in T : ~(<<y, x>> \in OpToRel(<, Nat))
    BY <1>2, NatLessThanWellFounded, WFMin
  <2>2. QED
    BY <2>1
<1>4. PICK d \in Of(p) : x = now - codes[d].created
  BY <1>3
<1>5. \A e \in Of(p) : now - codes[e].created >= x
  <2> TAKE e \in Of(p)
  <2>1. now - codes[e].created \in T /\ now - codes[e].created \in Nat /\ x \in Nat
    BY <1>2, <1>3
  <2>2. ~(now - codes[e].created < x)
    BY <1>3, <2>1 DEF OpToRel
  <2>3. QED
    BY <2>1, <2>2
<1>6. d \in Newest(Of(p))
  <2>1. \A e \in Of(p) : codes[e].created <= codes[d].created
    BY <1>1, <1>4, <1>5
  <2>2. QED
    BY <2>1 DEF Newest
<1>7. x >= Cooldown
  BY <1>4, <1>6 DEF Rested
<1>8. x \in Nat /\ now - codes[c].created \in Nat /\ now - codes[c].created >= x
  BY <1>1, <1>2, <1>3, <1>5
<1>9. QED
  BY <1>7, <1>8, SessionsAssumption

\* A step that neither sends nor stores a code: rows keep phone and instant.
LEMMA NothingSent ==
  ASSUME SendsInv, SessionsInv',
         DOMAIN codes' = DOMAIN codes,
         \A c \in DOMAIN codes : /\ codes'[c].phone = codes[c].phone
                                 /\ codes'[c].created = codes[c].created,
         \A h \in Handler : pos'[h] = "store" =>
           pos[h] = "store" /\ job'[h].phone = job[h].phone /\ job'[h].at = job[h].at
  PROVE  SendsFit'
<1>1. SUFFICES ASSUME NEW p \in Phone, NEW t \in Nat
               PROVE  Cardinality(Sent(p, t)') + Cardinality(Sending(p, t)') <= Cardinality(Handler)
  BY DEF SendsFit
<1>2. Sent(p, t)' = Sent(p, t) /\ Sending(p, t)' \subseteq Sending(p, t)
  BY DEF Sent, Sending, Of, CodeIds, Window
<1>3. /\ IsFiniteSet(Sending(p, t)) /\ Cardinality(Sending(p, t)) \in Nat
      /\ Cardinality(Sent(p, t)) \in Nat /\ Cardinality(Handler) \in Nat
  BY SentIsFinite DEF SendsInv
<1>4. /\ Cardinality(Sending(p, t)') \in Nat
      /\ Cardinality(Sending(p, t)') <= Cardinality(Sending(p, t))
  BY <1>2, <1>3, FS_Subset, FS_CardinalityType
<1>5. Cardinality(Sent(p, t)) + Cardinality(Sending(p, t)) <= Cardinality(Handler)
  BY DEF SendsInv, SendsFit
<1>6. QED
  BY <1>2, <1>3, <1>4, <1>5

LEMMA SendFits ==
  ASSUME SendsInv, NEW h \in Handler, SendCode(h)
  PROVE  SendsFit'
<1>1. PICK q \in Phone : Rested(q) /\ Goto(h, "store", [phone |-> q, at |-> now])
  BY DEF SendCode
<1>2. UNCHANGED <<now, codes>> /\ SessionsInv /\ now \in Nat
  BY DEF SendCode, tables, SendsInv, SessionsInv, Tables
<1>3. /\ pos'[h] = "store" /\ job'[h].phone = q /\ job'[h].at = now
      /\ \A g \in Handler \ {h} : pos'[g] = pos[g] /\ job'[g] = job[g]
  BY <1>1, <1>2 DEF Goto, SessionsInv, Requests
<1>4. SUFFICES ASSUME NEW p \in Phone, NEW t \in Nat
               PROVE  Cardinality(Sent(p, t)') + Cardinality(Sending(p, t)') <= Cardinality(Handler)
  BY DEF SendsFit
<1>5. /\ IsFiniteSet(Sending(p, t)) /\ Cardinality(Sending(p, t)) \in Nat
      /\ Cardinality(Sent(p, t)) \in Nat /\ Cardinality(Handler) \in Nat
  BY <1>2, SentIsFinite
<1>6. Sent(p, t)' = Sent(p, t)
  BY <1>2 DEF Sent, Of, CodeIds, Window
<1>7. CASE p = q /\ now \in Window(t)
  <2>1. ASSUME NEW c \in Sent(p, t) PROVE FALSE
    <3>1. c \in Of(q) /\ codes[c].created \in Window(t)
      BY <1>7 DEF Sent
    <3>2. now - codes[c].created >= Cooldown
      BY <1>1, <3>1, RestedMeansAll
    <3>3. codes[c].created \in Nat /\ Cooldown \in Nat
      BY <3>1, SessionsAssumption DEF Window
    <3>4. QED
      BY <1>2, <1>7, <3>1, <3>2, <3>3 DEF Window
  <2>2. Cardinality(Sent(p, t)') = 0
    <3>1. Sent(p, t) = {}
      BY <2>1
    <3>2. QED
      BY <1>6, <3>1, FS_EmptySet
  <2>3. Sending(p, t)' \subseteq Handler
    BY DEF Sending
  <2>4. Cardinality(Sending(p, t)') <= Cardinality(Handler) /\ Cardinality(Sending(p, t)') \in Nat
    BY <2>3, SessionsAssumption, FS_Subset, FS_CardinalityType
  <2>5. QED
    BY <1>5, <2>2, <2>4
<1>8. CASE ~(p = q /\ now \in Window(t))
  <2>1. Sending(p, t)' \subseteq Sending(p, t)
    BY <1>3, <1>8 DEF Sending, Window
  <2>2. /\ Cardinality(Sending(p, t)') \in Nat
        /\ Cardinality(Sending(p, t)') <= Cardinality(Sending(p, t))
    BY <1>5, <2>1, FS_Subset, FS_CardinalityType
  <2>3. Cardinality(Sent(p, t)) + Cardinality(Sending(p, t)) <= Cardinality(Handler)
    BY DEF SendsInv, SendsFit
  <2>4. QED
    BY <1>5, <1>6, <2>2, <2>3
<1>9. QED
  BY <1>7, <1>8

\* What an insert adds to the table of codes.
LEMMA CodeAppended ==
  ASSUME SessionsInv, NEW h \in Handler, StoreCode(h), codes' # codes
  PROVE  LET n == Len(codes) + 1 IN
         /\ DOMAIN codes' = DOMAIN codes \cup {n} /\ n \notin DOMAIN codes
         /\ codes'[n] = Row(job[h]) /\ Len(codes') = n /\ Len(codes) < MaxCodes
         /\ \A c \in DOMAIN codes : codes'[c] = codes[c]
<1> DEFINE n == Len(codes) + 1
<1>1. codes \in Seq(CodeRow) /\ codes' = Append(codes, Row(job[h])) /\ Len(codes) < MaxCodes
  BY DEF SessionsInv, Tables, StoreCode
<1>2. /\ Len(codes) \in Nat /\ Len(codes') = n /\ DOMAIN codes = 1..Len(codes)
      /\ DOMAIN codes' = 1..n
  BY <1>1, AppendProperties
<1>3. codes'[n] = Row(job[h]) /\ \A c \in DOMAIN codes : codes'[c] = codes[c]
  <2>1. \A c \in 1..Len(codes) : Append(codes, Row(job[h]))[c] = codes[c]
    BY <1>1
  <2>2. codes'[n] = Row(job[h])
    BY <1>1, AppendProperties
  <2>3. QED
    BY <1>1, <1>2, <2>1, <2>2
<1>4. DOMAIN codes' = DOMAIN codes \cup {n} /\ n \notin DOMAIN codes
  BY <1>2
<1>5. QED
  BY <1>1, <1>2, <1>3, <1>4

LEMMA StoreFits ==
  ASSUME SendsInv, SessionsInv', NEW h \in Handler, StoreCode(h)
  PROVE  SendsFit'
<1>1. pos[h] = "store" /\ Goto(h, "idle", None) /\ SessionsInv
  BY DEF StoreCode, Done, SendsInv
<1>2. pos'[h] = "idle" /\ \A g \in Handler \ {h} : pos'[g] = pos[g] /\ job'[g] = job[g]
  BY <1>1 DEF Goto, SessionsInv, Requests
<1>3. CASE codes' = codes
  BY <1>2, <1>3, NothingSent
<1>4. CASE codes' # codes
  <2> DEFINE n == Len(codes) + 1
  <2>1. /\ DOMAIN codes' = DOMAIN codes \cup {n} /\ n \notin DOMAIN codes
        /\ codes'[n].phone = job[h].phone /\ codes'[n].created = job[h].at
        /\ \A c \in DOMAIN codes : codes'[c] = codes[c]
    <3>1. codes'[n] = Row(job[h]) /\ DOMAIN codes' = DOMAIN codes \cup {n} /\ n \notin DOMAIN codes
          /\ \A c \in DOMAIN codes : codes'[c] = codes[c]
      BY <1>1, <1>4, CodeAppended
    <3>2. Row(job[h]).phone = job[h].phone /\ Row(job[h]).created = job[h].at
      BY DEF Row
    <3>3. QED
      BY <3>1, <3>2
  <2> HIDE DEF n
  <2>2. SUFFICES ASSUME NEW p \in Phone, NEW t \in Nat
                 PROVE  Cardinality(Sent(p, t)') + Cardinality(Sending(p, t)') <= Cardinality(Handler)
    BY DEF SendsFit
  <2>3. /\ IsFiniteSet(Sent(p, t)) /\ Cardinality(Sent(p, t)) \in Nat
        /\ IsFiniteSet(Sending(p, t)) /\ Cardinality(Sending(p, t)) \in Nat
        /\ Cardinality(Handler) \in Nat
    BY <1>1, SentIsFinite
  <2>4. Cardinality(Sent(p, t)) + Cardinality(Sending(p, t)) <= Cardinality(Handler)
    BY DEF SendsInv, SendsFit
  <2>5. CASE h \in Sending(p, t)
    <3>1. Sending(p, t)' = Sending(p, t) \ {h}
      BY <1>2 DEF Sending, Window
    <3>2. Sent(p, t)' = Sent(p, t) \cup {n} /\ n \notin Sent(p, t)
      BY <2>1, <2>5 DEF Sent, Sending, Of, CodeIds, Window
    <3>3. Cardinality(Sending(p, t)') = Cardinality(Sending(p, t)) - 1
      BY <2>3, <2>5, <3>1, FS_RemoveElement
    <3>4. Cardinality(Sent(p, t)') = Cardinality(Sent(p, t)) + 1
      BY <2>3, <3>2, FS_AddElement
    <3>5. QED
      BY <2>3, <2>4, <3>3, <3>4
  <2>6. CASE h \notin Sending(p, t)
    <3>1. Sending(p, t)' = Sending(p, t)
      BY <1>2, <2>6 DEF Sending, Window
    <3>2. Sent(p, t)' = Sent(p, t)
      BY <1>1, <2>1, <2>6 DEF Sent, Sending, Of, CodeIds, Window
    <3>3. QED
      BY <2>4, <3>1, <3>2
  <2>7. QED
    BY <2>5, <2>6
<1>5. QED
  BY <1>3, <1>4

\* A miss counts, or a login consumes, a code at an instant that is past.
LEMMA CodeChanged ==
  ASSUME SendsInv, NEW h \in Handler, Miss(h) \/ Consume(h)
  PROVE  /\ DOMAIN codes' = DOMAIN codes /\ Len(codes') = Len(codes)
         /\ \A c \in DOMAIN codes :
              /\ codes'[c].phone = codes[c].phone /\ codes'[c].created = codes[c].created
              /\ codes'[c].expires = codes[c].expires
              /\ codes'[c].consumed \in (0..now) \cup {None}
<1> DEFINE c == job[h].code
<1>1. SessionsInv /\ c \in DOMAIN codes /\ job[h].at \in 0..now /\ codes \in Seq(CodeRow)
  BY DEF Miss, Consume, SendsInv, SessionsInv, Requests, Tables
<1>2. PICK r : /\ codes' = [codes EXCEPT ![c] = r]
               /\ r = Missed(codes[c], job[h].at) \/ r = [codes[c] EXCEPT !.consumed = job[h].at]
  BY DEF Miss, CountMiss, Consume
<1>3. codes[c] \in CodeRow /\ codes[c].consumed \in (0..now) \cup {None}
  BY <1>1, ElementOfSeq DEF SendsInv, Rows
<1>4. /\ r.phone = codes[c].phone /\ r.created = codes[c].created /\ r.expires = codes[c].expires
      /\ r.consumed \in (0..now) \cup {None}
  BY <1>1, <1>2, <1>3 DEF Missed, CodeRow
<1>5. DOMAIN codes' = DOMAIN codes /\ Len(codes') = Len(codes)
  BY <1>1, <1>2
<1>6. codes'[c] = r /\ \A d \in DOMAIN codes \ {c} : codes'[d] = codes[d]
  BY <1>1, <1>2
<1> HIDE DEF c
<1>7. QED
  BY <1>4, <1>5, <1>6 DEF SendsInv, Rows

LEMMA SendsStep == SendsInv /\ [Next]_vars => SendsInv'
<1> SUFFICES ASSUME SendsInv, [Next]_vars PROVE SendsInv'
  OBVIOUS
<1>0. SessionsInv /\ SessionsInv' /\ Rows /\ now \in Nat
  BY SessionsStep DEF SendsInv, SessionsInv, Tables
<1>1. CASE Tick \/ Disable \/ UNCHANGED vars
  <2>1. UNCHANGED <<codes, admins, pos, job>> /\ now' \in 0..Late /\ now <= now'
    BY <1>0, <1>1, SessionsAssumption DEF Tick, Disable, vars, tables, Rows
  <2>2. \A i : i \in 0..now => i \in 0..now'
    BY <1>0, <2>1
  <2>3. Rows'
    BY <1>0, <2>1, <2>2 DEF Rows
  <2>4. SendsFit'
    BY <1>0, <2>1, NothingSent
  <2>5. QED
    BY <1>0, <2>3, <2>4 DEF SendsInv
<1>2. ASSUME NEW h \in Handler,
             \/ SendCode(h) \/ StoreCode(h) \/ Login(h) \/ Miss(h) \/ Lookup(h)
             \/ Consume(h) \/ Register(h) \/ Enter(h) \/ Abandon(h)
      PROVE  SendsInv'
  <2>1. \E s \in Positions : \E j : Goto(h, s, j) /\ (s = "store" => SendCode(h))
    BY <1>2 DEF SendCode, StoreCode, Login, Miss, Lookup, Consume, Register, Enter, Abandon,
                Done, Positions
  <2>2. PICK s \in Positions : /\ pos'[h] = s /\ (s = "store" => SendCode(h))
                               /\ \A g \in Handler \ {h} : pos'[g] = pos[g] /\ job'[g] = job[g]
    BY <1>0, <2>1 DEF Goto, SessionsInv, Requests
  <2>3. UNCHANGED now /\ \A g \in Handler : pos'[g] \in Positions
    BY <1>0, <1>2, <2>2 DEF SendCode, StoreCode, Login, Miss, Lookup, Consume, Register, Enter,
                            Abandon, Rows
  <2>4. admins' \subseteq Phone
    <3>1. Enter(h) => job[h].phone \in Phone
      BY <1>0 DEF Enter, SessionsInv, Requests
    <3>2. QED
      BY <1>0, <1>2, <3>1 DEF SendCode, StoreCode, Login, Miss, Lookup, Consume, Register, Enter,
                              Abandon, Rows, tables
  <2>5. CASE SendCode(h)
    <3>1. UNCHANGED codes
      BY <2>5 DEF SendCode, tables
    <3>2. Rows'
      BY <1>0, <2>3, <2>4, <3>1 DEF Rows
    <3>3. QED
      BY <1>0, <2>5, <3>2, SendFits DEF SendsInv
  <2>6. CASE StoreCode(h)
    <3>1. Rows'
      <4>1. CASE codes' = codes
        BY <1>0, <2>3, <2>4, <4>1 DEF Rows
      <4>2. CASE codes' # codes
        <5> DEFINE n == Len(codes) + 1
        <5>1. /\ DOMAIN codes' = DOMAIN codes \cup {n} /\ Len(codes') = n /\ Len(codes) < MaxCodes
              /\ codes'[n] = Row(job[h]) /\ \A c \in DOMAIN codes : codes'[c] = codes[c]
          BY <1>0, <2>6, <4>2, CodeAppended
        <5>2. n <= MaxCodes
          BY <1>0, <5>1, SessionsAssumption DEF SessionsInv, Tables
        <5>3. /\ codes'[n].created \in 0..now /\ codes'[n].expires = codes'[n].created + CodeTtl
              /\ codes'[n].consumed = None
          BY <1>0, <2>6, <5>1 DEF Row, StoreCode, SessionsInv, Requests
        <5> HIDE DEF n
        <5>4. QED
          BY <1>0, <2>3, <2>4, <5>1, <5>2, <5>3 DEF Rows
      <4>3. QED
        BY <4>1, <4>2
    <3>2. QED
      BY <1>0, <2>6, <3>1, StoreFits DEF SendsInv
  <2>7. CASE Miss(h) \/ Consume(h)
    <3>1. /\ DOMAIN codes' = DOMAIN codes /\ Len(codes') = Len(codes)
          /\ \A c \in DOMAIN codes :
               /\ codes'[c].phone = codes[c].phone /\ codes'[c].created = codes[c].created
               /\ codes'[c].expires = codes[c].expires
               /\ codes'[c].consumed \in (0..now) \cup {None}
      BY <2>7, CodeChanged
    <3>2. Rows'
      BY <1>0, <2>3, <2>4, <3>1 DEF Rows
    <3>3. s # "store"
      BY <1>0, <2>2, <2>7 DEF Miss, Consume, SendCode
    <3>4. SendsFit'
      BY <1>0, <2>2, <3>1, <3>3, NothingSent
    <3>5. QED
      BY <1>0, <3>2, <3>4 DEF SendsInv
  <2>8. CASE Login(h) \/ Lookup(h) \/ Register(h) \/ Enter(h) \/ Abandon(h)
    <3>1. UNCHANGED codes
      BY <2>8 DEF Login, Lookup, Register, Enter, Abandon, tables
    <3>2. Rows'
      BY <1>0, <2>3, <2>4, <3>1 DEF Rows
    <3>3. pos'[h] # "store"
      BY <1>0, <2>8 DEF Login, Lookup, Register, Enter, Abandon, Done, Goto, SessionsInv, Requests
    <3>4. SendsFit'
      BY <1>0, <2>2, <3>1, <3>3, NothingSent
    <3>5. QED
      BY <1>0, <3>2, <3>4 DEF SendsInv
  <2>9. QED
    BY <1>2, <2>5, <2>6, <2>7, <2>8
<1>3. QED
  BY <1>1, <1>2 DEF Next

LEMMA SendsInit == Init => SendsInv
<1> SUFFICES ASSUME Init PROVE SendsInv
  OBVIOUS
<1>1. SessionsInv
  BY SessionsInit
<1>2. Rows
  <2>1. now = 0 /\ codes = <<>> /\ Len(codes) = 0 /\ DOMAIN codes = {}
    BY DEF Init
  <2>2. QED
    BY <2>1, SessionsAssumption DEF Init, Rows, Positions
<1>3. SendsFit
  <2>1. SUFFICES ASSUME NEW p \in Phone, NEW t \in Nat
                 PROVE  Cardinality(Sent(p, t)) + Cardinality(Sending(p, t)) <= Cardinality(Handler)
    BY DEF SendsFit
  <2>2. Sent(p, t) = {} /\ Sending(p, t) = {}
    BY DEF Init, Sent, Sending, Of, CodeIds
  <2>3. Cardinality(Sent(p, t)) = 0 /\ Cardinality(Sending(p, t)) = 0
    BY <2>2, FS_EmptySet
  <2>4. Cardinality(Handler) \in Nat
    BY GuessersAreFew
  <2>5. QED
    BY <2>3, <2>4
<1>4. QED
  BY <1>1, <1>2, <1>3 DEF SendsInv

\* LoginsHold, what the runs check of signing in beside guesses and accounts:
\* types, no session for the disabled, and no more codes in a cooldown than
\* requests that coincide; for any number of phones, requests and codes.
THEOREM LoginsAlwaysHold == Spec => []LoginsHold
<1>1. SendsInv => TypeOK
  <2> SUFFICES ASSUME SendsInv PROVE TypeOK
    OBVIOUS
  <2>1. Tables /\ Requests /\ OwnAccounts /\ Begun /\ Rows
    BY DEF SendsInv, SessionsInv
  <2>2. DOMAIN misses = CodeIds
    BY <2>1 DEF Tables, CodeIds
  <2>3. \A c \in CodeIds : codes[c].phone \in Phone /\ codes[c].attempts \in Nat
    <3>1. codes \in Seq(CodeRow)
      BY <2>1 DEF Tables
    <3>2. \A c \in DOMAIN codes : codes[c] \in CodeRow
      BY <3>1, ElementOfSeq
    <3>3. QED
      BY <3>2 DEF CodeIds, CodeRow
  <2>4. \A o \in DOMAIN orgs : orgs[o] \in Phone
    BY <2>1, ElementOfSeq DEF Tables
  <2>5. account \in [Phone -> DOMAIN orgs \cup {None}]
    BY <2>1 DEF Tables, OwnAccounts
  <2>6. disabled \in [Phone -> (0..now) \cup {None}]
    BY <2>1 DEF Tables, Begun
  <2>7. pos \in [Handler -> Positions]
    BY <2>1 DEF Requests, Rows
  <2>8. \A h \in Handler : pos[h] # "idle" => job[h].phone \in Phone /\ job[h].at \in 0..now
    BY <2>1 DEF Requests
  <2>9. QED
    BY <2>1, <2>2, <2>3, <2>4, <2>5, <2>6, <2>7, <2>8 DEF TypeOK, Rows, CodeIds, Positions
<1>2. SendsInv => SendsBounded
  <2> SUFFICES ASSUME SendsInv, NEW p \in Phone, NEW c \in Of(p)
               PROVE  Cardinality({d \in Of(p) : codes[d].created \in
                        codes[c].created..(codes[c].created + Cooldown - 1)}) <= Cardinality(Handler)
    BY DEF SendsBounded
  <2> DEFINE t == codes[c].created
  <2>1. t \in Nat
    BY DEF SendsInv, Rows, Of, CodeIds
  <2>2. Cardinality(Sent(p, t)) + Cardinality(Sending(p, t)) <= Cardinality(Handler)
    BY <2>1 DEF SendsInv, SendsFit
  <2>3. /\ Cardinality(Sent(p, t)) \in Nat /\ Cardinality(Sending(p, t)) \in Nat
        /\ Cardinality(Handler) \in Nat
    BY SentIsFinite DEF SendsInv
  <2>4. Cardinality(Sent(p, t)) <= Cardinality(Handler)
    BY <2>2, <2>3
  <2>5. QED
    BY <2>4 DEF Sent, Window
<1>3. SendsInv => LoginsHold
  BY <1>1, <1>2 DEF LoginsHold, SendsInv, SessionsInv, Begun
<1>4. QED
  BY <1>3, SendsInit, SendsStep, PTL DEF Spec

----------------------------------------------------------------------------
(* Reports: what a request has read of its user, while roles change.          *)

DeskPositions == {"idle", "role", "act", "done"}
DeskRoles == {"admin", "finance", "ops", "sales", "customer"}

\* The principal of a user, permissions and role each from some set of roles it
\* held while the request read them; or the superadmin's.
ReadFrom(p, sets) ==
  \/ p = Desk!SuperPrincipal /\ {"admin"} \in sets
  \/ \E u \in Reader, rs, qs \in sets :
       p = Desk!PrincipalOf(u, Desk!user_permissions(rs), Desk!effective_role(qs))

\* The same before the role is read: the roles of now are among those held.
HalfRead(p, sets) ==
  \E u \in Reader, rs \in sets :
    p = Desk!PrincipalOf(u, Desk!user_permissions(rs), None) /\ roles[u] \in sets

DeskTables ==
  /\ roles \in [Reader -> SUBSET Desk!Roles] /\ edits \in 0..MaxEdits
  /\ DOMAIN defs \subseteq 1..(nextDef - 1) /\ nextDef \in 1..(MaxDefs + 1)
  /\ \A i \in DOMAIN defs :
       /\ defs[i].dataset \in Desk!Dataset /\ defs[i].visibility \in Desk!Visibility
       /\ defs[i].owner \in Reader \cup {None}

\* Where a request is, by what it has read; an answered query was run for it.
DeskRequest(s, j, sets, rows) ==
  /\ s \in DeskPositions /\ sets \subseteq SUBSET Desk!Roles
  /\ s # "idle" => j = [ask |-> j.ask, p |-> j.p] /\ j.ask \in Desk!Asks
  /\ s = "role" => HalfRead(j.p, sets)
  /\ s \in {"act", "done"} => ReadFrom(j.p, sets)
  /\ s = "done" /\ j.ask.kind = "query" => rows = Desk!run(j.ask.dataset, j.p)

DeskShape ==
  /\ reportPos = [h \in Request |-> reportPos[h]] /\ reportJob = [h \in Request |-> reportJob[h]]
  /\ held = [h \in Request |-> held[h]] /\ reportAnswer = [h \in Request |-> reportAnswer[h]]

DeskInv ==
  /\ DeskTables /\ DeskShape
  /\ \A h \in Request : DeskRequest(reportPos[h], reportJob[h], held[h], reportAnswer[h])

\* Of the roles held, one ranks highest.
LEMMA HighestRole ==
  ASSUME NEW rs \in SUBSET Desk!Roles
  PROVE  /\ rs # {} => Desk!effective_role(rs) \in rs
         /\ rs = {} => Desk!effective_role(rs) = "customer"
<1>1. Desk!Roles = DeskRoles
  BY DEF Desk!Roles, DeskRoles
<1>2. /\ Desk!role_rank["admin"] = 5 /\ Desk!role_rank["finance"] = 4 /\ Desk!role_rank["ops"] = 3
      /\ Desk!role_rank["sales"] = 2 /\ Desk!role_rank["customer"] = 1
  BY DEF Desk!role_rank, Desk!Roles
<1>3. CASE rs # {}
  <2>1. \E r \in rs : \A s \in rs : Desk!role_rank[r] >= Desk!role_rank[s]
    <3>1. CASE "admin" \in rs
      BY <1>1, <1>2, <3>1 DEF DeskRoles
    <3>2. CASE "admin" \notin rs /\ "finance" \in rs
      BY <1>1, <1>2, <3>2 DEF DeskRoles
    <3>3. CASE "admin" \notin rs /\ "finance" \notin rs /\ "ops" \in rs
      BY <1>1, <1>2, <3>3 DEF DeskRoles
    <3>4. CASE "admin" \notin rs /\ "finance" \notin rs /\ "ops" \notin rs /\ "sales" \in rs
      BY <1>1, <1>2, <3>4 DEF DeskRoles
    <3>5. CASE rs = {"customer"}
      BY <1>1, <1>2, <3>5 DEF DeskRoles
    <3>6. QED
      BY <1>1, <1>3, <3>1, <3>2, <3>3, <3>4, <3>5 DEF DeskRoles
  <2>2. QED
    BY <1>3, <2>1 DEF Desk!effective_role
<1>4. QED
  BY <1>3 DEF Desk!effective_role

\* Whose role a principal has, and by whose grant it may define reports.
LEMMA PrincipalsBacked ==
  ASSUME Desk!ReportsAssumption, NEW sets \in SUBSET SUBSET Desk!Roles, NEW p, ReadFrom(p, sets)
  PROVE  /\ p.role \in Desk!Roles
         /\ p.user \in Reader => p.org = CompanyOf[p.user]
         /\ p.user \in Reader \cup {None}
         /\ p.user = None => p.role = "admin"
         /\ \E rs \in sets : p.role \in Desk!OrCustomer(rs)
         /\ p.role = "admin" => \E rs \in sets : "admin" \in rs
         /\ "report.define" \in p.perms => \E rs \in sets : rs \cap {"admin", "finance", "sales"} # {}
<1>1. CASE p = Desk!SuperPrincipal /\ {"admin"} \in sets
  BY <1>1 DEF Desk!SuperPrincipal, Desk!Superadmin, Desk!Roles, Desk!OrCustomer, Desk!ReportsAssumption
<1>2. ASSUME NEW u \in Reader, NEW rs \in sets, NEW qs \in sets,
             p = Desk!PrincipalOf(u, Desk!user_permissions(rs), Desk!effective_role(qs))
      PROVE  /\ p.role \in Desk!Roles
             /\ p.user \in Reader => p.org = CompanyOf[p.user]
             /\ p.user \in Reader \cup {None}
             /\ p.user = None => p.role = "admin"
             /\ \E rs2 \in sets : p.role \in Desk!OrCustomer(rs2)
             /\ p.role = "admin" => \E rs2 \in sets : "admin" \in rs2
             /\ "report.define" \in p.perms =>
                  \E rs2 \in sets : rs2 \cap {"admin", "finance", "sales"} # {}
  <2>1. /\ p.user = u /\ p.org = CompanyOf[u] /\ p.role = Desk!effective_role(qs)
        /\ p.perms = Desk!user_permissions(rs) /\ u # None
    BY <1>2 DEF Desk!PrincipalOf, Desk!ReportsAssumption
  <2>2. p.role \in Desk!OrCustomer(qs) /\ p.role \in Desk!Roles /\ (p.role = "admin" => "admin" \in qs)
    BY <2>1, HighestRole DEF Desk!OrCustomer, Desk!Roles
  <2>3. ASSUME "report.define" \in p.perms PROVE rs \cap {"admin", "finance", "sales"} # {}
    <3>1. PICK r \in rs : "report.define" \in Desk!permissions_for_role[r]
      BY <2>1, <2>3 DEF Desk!user_permissions
    <3>2. r \in Desk!Roles
      OBVIOUS
    <3>3. r # "ops" /\ r # "customer"
      BY <3>1 DEF Desk!permissions_for_role, Desk!Roles
    <3>4. QED
      BY <3>2, <3>3 DEF Desk!Roles
  <2>4. QED
    BY <2>1, <2>2, <2>3
<1>3. QED
  BY <1>1, <1>2 DEF ReadFrom

\* A query yields no more than the role of its principal is entitled to.
LEMMA RoleIsEntitled ==
  ASSUME Desk!ReportsAssumption, NEW d \in Desk!Dataset, NEW p, p.role \in Desk!Roles,
         p.user \in Reader => p.org = CompanyOf[p.user],
         p.user \in Reader \cup {None}, p.user = None => p.role = "admin"
  PROVE  Desk!run(d, p) \subseteq Desk!Entitled(p.role, p.user, Desk!datasets[d].source)
<1> SUFFICES ASSUME NEW f \in Desk!run(d, p)
             PROVE  f \in Desk!Entitled(p.role, p.user, Desk!datasets[d].source)
  OBVIOUS
<1> DEFINE D == Desk!datasets[d]
<1>1. f \in Desk!Facts(D.source) /\ Desk!InScope(d, p, f) /\ p.role \in DOMAIN D.rls
  BY DEF Desk!run, Desk!Answers, Desk!HasBranch
<1>2. D.rls[p.role] # None => f[D.rls[p.role].column] = Desk!Value(p, D.rls[p.role].param)
  BY <1>1 DEF Desk!InScope
<1>3. None # Desk!OwnOrg /\ None # Desk!OwnSales /\ None \notin Reader
  BY DEF Desk!ReportsAssumption
<1>4. d \in {"usage", "billing", "sales_perf", "channel_health"}
  BY DEF Desk!Dataset, Desk!datasets
<1>5. CASE p.role \in {"admin", "finance"}
  BY <1>1, <1>5 DEF Desk!Entitled
<1>6. CASE p.role = "ops"
  <2>1. D.source = "usage"
    BY <1>1, <1>4, <1>6 DEF Desk!datasets
  <2>2. QED
    BY <1>1, <1>6, <2>1 DEF Desk!Entitled
<1>7. CASE p.role = "sales"
  <2>1. D.source = "orders" /\ D.rls["sales"] = Desk!OwnSales
    BY <1>1, <1>4, <1>7 DEF Desk!datasets
  <2>2. f.created_by_sales_id = p.user
    BY <1>2, <1>3, <1>7, <2>1 DEF Desk!OwnSales, Desk!Value
  <2>3. QED
    BY <1>1, <1>7, <2>1, <2>2 DEF Desk!Entitled
<1>8. CASE p.role = "customer"
  <2>1. D.rls["customer"] = Desk!OwnOrg
    BY <1>1, <1>4, <1>8 DEF Desk!datasets
  <2>2. f.org_id = p.org /\ p.user \in Reader /\ p.user # None
    BY <1>2, <1>3, <1>8, <2>1 DEF Desk!OwnOrg, Desk!Value
  <2>3. QED
    BY <1>1, <1>8, <2>2 DEF Desk!Entitled
<1>9. QED
  BY <1>5, <1>6, <1>7, <1>8 DEF Desk!Roles

\* A request that reads or writes leaves the others and everyone's roles alone.
LEMMA OneRequest ==
  ASSUME DeskInv, NEW h \in Request, UNCHANGED <<roles, edits>>, DeskTables', DeskShape',
         \A g \in Request \ {h} : /\ reportPos'[g] = reportPos[g] /\ reportJob'[g] = reportJob[g]
                                  /\ held'[g] = held[g] /\ reportAnswer'[g] = reportAnswer[g],
         DeskRequest(reportPos[h], reportJob[h], held[h], reportAnswer[h])'
  PROVE  DeskInv'
<1>1. \A g \in Request \ {h} : DeskRequest(reportPos[g], reportJob[g], held[g], reportAnswer[g])'
  BY DEF DeskInv, DeskRequest, HalfRead
<1>2. QED
  BY <1>1 DEF DeskInv

\* The tables stay when a request only reads.
LEMMA TablesStay == DeskInv /\ UNCHANGED <<roles, edits, defs, nextDef>> => DeskTables'
  BY DEF DeskInv, DeskTables

LEMMA ChangeRolesKeeps ==
  ASSUME Desk!ReportsAssumption, DeskInv, Desk!ChangeRoles
  PROVE  DeskInv'
<1>1. PICK u \in Reader, r \in Desk!Roles :
        /\ edits < MaxEdits /\ edits' = edits + 1
        /\ roles' = [roles EXCEPT ![u] = IF r \in @ THEN @ \ {r} ELSE @ \cup {r}]
        /\ held' = [h \in Request |->
             IF reportPos[h] = "role" /\ reportJob[h].p.user = u
             THEN held[h] \cup {roles'[u]} ELSE held[h]]
        /\ UNCHANGED <<defs, nextDef, reportPos, reportJob, reportAnswer>>
  BY DEF Desk!ChangeRoles
<1>2. DeskTables /\ DeskShape
  BY DEF DeskInv
<1>3. roles' \in [Reader -> SUBSET Desk!Roles] /\ \A v \in Reader : v # u => roles'[v] = roles[v]
  BY <1>1, <1>2 DEF DeskTables
<1>4. edits' \in 0..MaxEdits
  BY <1>1, <1>2 DEF DeskTables, Desk!ReportsAssumption
<1>5. DeskTables' /\ DeskShape'
  BY <1>1, <1>2, <1>3, <1>4 DEF DeskTables, DeskShape
<1>6. ASSUME NEW h \in Request
      PROVE  DeskRequest(reportPos[h], reportJob[h], held[h], reportAnswer[h])'
  <2>1. DeskRequest(reportPos[h], reportJob[h], held[h], reportAnswer[h])
    BY DEF DeskInv
  <2>2. CASE reportPos[h] = "role"
    <3>1. held[h] \subseteq held'[h] /\ held'[h] \subseteq SUBSET Desk!Roles
      BY <1>1, <1>3, <2>1 DEF DeskRequest
    <3>2. PICK v \in Reader, rs \in held[h] :
            /\ reportJob[h].p = Desk!PrincipalOf(v, Desk!user_permissions(rs), None)
            /\ roles[v] \in held[h]
      BY <2>1, <2>2 DEF DeskRequest, HalfRead
    <3>3. reportJob[h].p.user = v
      BY <3>2 DEF Desk!PrincipalOf
    <3>4. roles'[v] \in held'[h]
      BY <1>1, <1>3, <2>2, <3>2, <3>3
    <3>5. QED
      BY <1>1, <2>1, <2>2, <3>1, <3>2, <3>4 DEF DeskRequest, HalfRead
  <2>3. CASE reportPos[h] # "role"
    <3>1. held'[h] = held[h]
      BY <1>1, <2>3
    <3>2. QED
      BY <1>1, <2>1, <2>3, <3>1 DEF DeskRequest
  <2>4. QED
    BY <2>2, <2>3
<1>7. QED
  BY <1>5, <1>6 DEF DeskInv

\* What Goto does to a request and to the others.
LEMMA DeskGoto ==
  ASSUME DeskInv, NEW h \in Request, NEW s, NEW j, Desk!Goto(h, s, j)
  PROVE  /\ reportPos'[h] = s /\ reportJob'[h] = j
         /\ \A g \in Request \ {h} : reportPos'[g] = reportPos[g] /\ reportJob'[g] = reportJob[g]
         /\ reportPos' = [g \in Request |-> reportPos'[g]]
         /\ reportJob' = [g \in Request |-> reportJob'[g]]
BY DEF DeskInv, DeskShape, Desk!Goto

LEMMA ReadPermissionsKeeps ==
  ASSUME DeskInv, NEW h \in Request, Desk!ReadPermissions(h)
  PROVE  DeskInv'
<1>1. PICK u \in Reader, a \in Desk!Asks :
        /\ Desk!Goto(h, "role",
             [ask |-> a, p |-> Desk!PrincipalOf(u, Desk!user_permissions(roles[u]), None)])
        /\ held' = [held EXCEPT ![h] = {roles[u]}]
  BY DEF Desk!ReadPermissions
<1>2. DeskTables /\ DeskShape /\ UNCHANGED <<roles, edits, defs, nextDef, reportAnswer>>
  BY DEF Desk!ReadPermissions, DeskInv
<1>3. held'[h] = {roles[u]} /\ DeskShape' /\ \A g \in Request \ {h} : held'[g] = held[g]
  BY <1>1, <1>2, DeskGoto DEF DeskShape
<1>4. DeskTables' /\ roles[u] \in SUBSET Desk!Roles
  BY <1>2, TablesStay DEF DeskTables
<1>5. DeskRequest(reportPos[h], reportJob[h], held[h], reportAnswer[h])'
  BY <1>1, <1>2, <1>3, <1>4, DeskGoto DEF DeskRequest, HalfRead, DeskPositions
<1>6. QED
  BY <1>1, <1>2, <1>3, <1>4, <1>5, DeskGoto, OneRequest

LEMMA ReadRoleKeeps ==
  ASSUME DeskInv, NEW h \in Request, Desk!ReadRole(h)
  PROVE  DeskInv'
<1> DEFINE j == reportJob[h]
           k == [j EXCEPT !.p.role = Desk!effective_role(roles[j.p.user])]
<1>1. reportPos[h] = "role" /\ Desk!Goto(h, "act", k)
  BY DEF Desk!ReadRole
<1>2. DeskTables /\ DeskShape /\ UNCHANGED <<roles, edits, defs, nextDef, held, reportAnswer>>
  BY DEF Desk!ReadRole, DeskInv
<1>3. DeskRequest("role", j, held[h], reportAnswer[h])
  BY <1>1 DEF DeskInv
<1>4. PICK u \in Reader, rs \in held[h] :
        j.p = Desk!PrincipalOf(u, Desk!user_permissions(rs), None) /\ roles[u] \in held[h]
  BY <1>3 DEF DeskRequest, HalfRead
<1>5. /\ k = [ask |-> j.ask, p |-> Desk!PrincipalOf(u, Desk!user_permissions(rs), Desk!effective_role(roles[u]))]
      /\ j.ask \in Desk!Asks
  BY <1>3, <1>4 DEF DeskRequest, Desk!PrincipalOf
<1>6. ReadFrom(k.p, held[h]) /\ k.ask = j.ask /\ k = [ask |-> k.ask, p |-> k.p]
  BY <1>4, <1>5 DEF ReadFrom
<1> HIDE DEF j, k
<1>7. DeskTables' /\ DeskShape'
  BY <1>1, <1>2, DeskGoto, TablesStay DEF DeskShape
<1>8. DeskRequest(reportPos[h], reportJob[h], held[h], reportAnswer[h])'
  BY <1>1, <1>2, <1>3, <1>5, <1>6, DeskGoto DEF DeskRequest, ReadFrom, DeskPositions
<1>9. QED
  BY <1>1, <1>2, <1>7, <1>8, DeskGoto, OneRequest

LEMMA AdminTokenKeeps ==
  ASSUME DeskInv, NEW h \in Request, Desk!AdminToken(h)
  PROVE  DeskInv'
<1>1. PICK a \in Desk!Asks : Desk!Goto(h, "act", [ask |-> a, p |-> Desk!SuperPrincipal])
  BY DEF Desk!AdminToken
<1>2. /\ DeskTables /\ DeskShape /\ held' = [held EXCEPT ![h] = {{"admin"}}]
      /\ UNCHANGED <<roles, edits, defs, nextDef, reportAnswer>>
  BY DEF Desk!AdminToken, DeskInv
<1>3. held'[h] = {{"admin"}} /\ DeskShape' /\ \A g \in Request \ {h} : held'[g] = held[g]
  BY <1>1, <1>2, DeskGoto DEF DeskShape
<1>4. DeskTables' /\ {"admin"} \in SUBSET Desk!Roles
  BY <1>2, TablesStay DEF Desk!Roles
<1>5. DeskRequest(reportPos[h], reportJob[h], held[h], reportAnswer[h])'
  BY <1>1, <1>2, <1>3, <1>4, DeskGoto DEF DeskRequest, ReadFrom, DeskPositions
<1>6. QED
  BY <1>1, <1>2, <1>3, <1>4, <1>5, DeskGoto, OneRequest

\* A request that is answered keeps what it has read.
LEMMA ReplyKeeps ==
  ASSUME DeskInv, NEW h \in Request, reportPos[h] = "act", NEW rows, Desk!Reply(h, rows), DeskTables',
         reportJob[h].ask.kind = "query" => rows = Desk!run(reportJob[h].ask.dataset, reportJob[h].p)
  PROVE  DeskInv'
<1>1. /\ DeskTables /\ DeskShape /\ UNCHANGED <<roles, edits, reportJob, held>>
      /\ reportPos' = [reportPos EXCEPT ![h] = "done"] /\ reportAnswer' = [reportAnswer EXCEPT ![h] = rows]
  BY DEF Desk!Reply, DeskInv
<1>2. /\ reportPos'[h] = "done" /\ reportAnswer'[h] = rows /\ DeskShape'
      /\ \A g \in Request \ {h} : reportPos'[g] = reportPos[g] /\ reportAnswer'[g] = reportAnswer[g]
  BY <1>1 DEF DeskShape
<1>3. DeskRequest("act", reportJob[h], held[h], reportAnswer[h])
  BY DEF DeskInv
<1>4. DeskRequest(reportPos[h], reportJob[h], held[h], reportAnswer[h])'
  BY <1>1, <1>2, <1>3 DEF DeskRequest, DeskPositions, ReadFrom
<1>5. QED
  BY <1>1, <1>2, <1>4, OneRequest

\* The kinds of questions, and what comes with each.
LEMMA AskShapes ==
  ASSUME NEW a \in Desk!Asks
  PROVE  /\ a.kind \in {"datasets", "reports", "query", "create", "open", "delete"}
         /\ a.kind \in {"query", "create"} => a.dataset \in Desk!Dataset
         /\ a.kind = "create" => a.visibility \in Desk!Visibility
         /\ a.kind = "delete" => a = [kind |-> "delete", id |-> a.id]
BY DEF Desk!Asks

LEMMA CreateKeeps ==
  ASSUME Desk!ReportsAssumption, DeskInv, NEW h \in Request, Desk!Create(h)
  PROVE  DeskInv'
<1> DEFINE a == reportJob[h].ask
           p == reportJob[h].p
<1>1. /\ reportPos[h] = "act" /\ a.kind = "create" /\ Desk!Reply(h, {})
      /\ DeskTables /\ UNCHANGED <<roles, edits>>
  BY DEF Desk!Create, Desk!Asked, Desk!Reply, DeskInv
<1>2. DeskRequest("act", reportJob[h], held[h], reportAnswer[h])
  BY <1>1 DEF DeskInv
<1>3. a.dataset \in Desk!Dataset /\ a.visibility \in Desk!Visibility
  BY <1>1, <1>2, AskShapes DEF DeskRequest
<1>4. p.user \in Reader \cup {None}
  BY <1>2, PrincipalsBacked DEF DeskRequest
<1>5. \/ UNCHANGED <<defs, nextDef>>
      \/ /\ nextDef <= MaxDefs /\ nextDef' = nextDef + 1
         /\ defs' = [i \in DOMAIN defs \cup {nextDef} |->
              IF i = nextDef
              THEN [dataset |-> a.dataset, owner |-> p.user, visibility |-> a.visibility]
              ELSE defs[i]]
  BY DEF Desk!Create
<1> HIDE DEF a, p
<1>6. DeskTables'
  <2>1. CASE UNCHANGED <<defs, nextDef>>
    BY <1>1, <2>1 DEF DeskTables
  <2>2. CASE /\ nextDef <= MaxDefs /\ nextDef' = nextDef + 1
             /\ defs' = [i \in DOMAIN defs \cup {nextDef} |->
                  IF i = nextDef
                  THEN [dataset |-> a.dataset, owner |-> p.user, visibility |-> a.visibility]
                  ELSE defs[i]]
    <3>1. nextDef' \in 1..(MaxDefs + 1) /\ DOMAIN defs' \subseteq 1..(nextDef' - 1)
      BY <1>1, <2>2 DEF DeskTables, Desk!ReportsAssumption
    <3>2. ASSUME NEW i \in DOMAIN defs'
          PROVE  /\ defs'[i].dataset \in Desk!Dataset /\ defs'[i].visibility \in Desk!Visibility
                 /\ defs'[i].owner \in Reader \cup {None}
      BY <1>1, <1>3, <1>4, <2>2, <3>2 DEF DeskTables
    <3>3. QED
      BY <1>1, <3>1, <3>2 DEF DeskTables
  <2>3. QED
    BY <1>5, <2>1, <2>2
<1>7. QED
  BY <1>1, <1>6, ReplyKeeps DEF a

LEMMA DeleteReportKeeps ==
  ASSUME DeskInv, NEW h \in Request, Desk!DeleteReport(h)
  PROVE  DeskInv'
<1>1. /\ reportPos[h] = "act" /\ reportJob[h].ask.kind = "delete" /\ Desk!Reply(h, {})
      /\ DeskTables /\ UNCHANGED <<roles, edits, nextDef>>
      /\ \/ UNCHANGED defs
         \/ defs' = [j \in DOMAIN defs \ {reportJob[h].ask.id} |-> defs[j]]
  BY DEF Desk!DeleteReport, Desk!Asked, Desk!Reply, DeskInv
<1>2. DOMAIN defs' \subseteq DOMAIN defs /\ \A i \in DOMAIN defs' : defs'[i] = defs[i]
  BY <1>1
<1>3. DeskTables'
  BY <1>1, <1>2 DEF DeskTables
<1>4. QED
  BY <1>1, <1>3, ReplyKeeps

LEMMA FinishKeeps ==
  ASSUME DeskInv, NEW h \in Request, Desk!Finish(h)
  PROVE  DeskInv'
<1>1. Desk!Goto(h, "idle", None)
  BY DEF Desk!Finish
<1>2. /\ DeskTables /\ DeskShape /\ UNCHANGED <<roles, edits, defs, nextDef>>
      /\ held' = [held EXCEPT ![h] = {}] /\ reportAnswer' = [reportAnswer EXCEPT ![h] = None]
  BY DEF Desk!Finish, DeskInv
<1>3. /\ held'[h] = {} /\ DeskShape'
      /\ \A g \in Request \ {h} : held'[g] = held[g] /\ reportAnswer'[g] = reportAnswer[g]
  BY <1>1, <1>2, DeskGoto DEF DeskShape
<1>4. DeskRequest(reportPos[h], reportJob[h], held[h], reportAnswer[h])'
  BY <1>1, <1>3, DeskGoto DEF DeskRequest, DeskPositions
<1>5. QED
  BY <1>1, <1>2, <1>3, <1>4, DeskGoto, OneRequest, TablesStay

LEMMA DeskStep == Desk!ReportsAssumption /\ DeskInv /\ [Desk!Next]_(Desk!vars) => DeskInv'
<1> SUFFICES ASSUME Desk!ReportsAssumption, DeskInv, [Desk!Next]_(Desk!vars) PROVE DeskInv'
  OBVIOUS
<1>1. CASE UNCHANGED Desk!vars
  BY <1>1 DEF Desk!vars, DeskInv, DeskTables, DeskShape, DeskRequest, HalfRead, ReadFrom
<1>2. CASE Desk!ChangeRoles
  BY <1>2, ChangeRolesKeeps
<1>3. ASSUME NEW h \in Request, Desk!Query(h) \/ Desk!Datasets(h) \/ Desk!ListReports(h) \/ Desk!OpenReport(h)
      PROVE  DeskInv'
  <2>1. reportPos[h] = "act" /\ UNCHANGED <<roles, edits, defs, nextDef>>
    BY <1>3 DEF Desk!Query, Desk!Datasets, Desk!ListReports, Desk!OpenReport, Desk!Asked, Desk!Reply
  <2>2. \E rows : /\ Desk!Reply(h, rows)
                  /\ reportJob[h].ask.kind = "query" =>
                       rows = Desk!run(reportJob[h].ask.dataset, reportJob[h].p)
    BY <1>3 DEF Desk!Query, Desk!Datasets, Desk!ListReports, Desk!OpenReport, Desk!Asked
  <2>3. QED
    BY <2>1, <2>2, TablesStay, ReplyKeeps
<1>4. QED
  BY <1>1, <1>2, <1>3, ReadPermissionsKeeps, ReadRoleKeeps, AdminTokenKeeps, CreateKeeps,
     DeleteReportKeeps, FinishKeeps DEF Desk!Next

LEMMA DeskInit == Desk!ReportsAssumption /\ Desk!Init => DeskInv
<1> SUFFICES ASSUME Desk!ReportsAssumption, Desk!Init PROVE DeskInv
  OBVIOUS
<1>1. roles \in [Reader -> SUBSET Desk!Roles] /\ edits \in 0..MaxEdits
  BY DEF Desk!Init, Desk!ReportsAssumption
<1>2. DOMAIN defs = {} /\ nextDef \in 1..(MaxDefs + 1) /\ nextDef = 1
  BY DEF Desk!Init, Desk!ReportsAssumption
<1>3. DeskTables /\ DeskShape
  BY <1>1, <1>2 DEF Desk!Init, DeskTables, DeskShape
<1>4. QED
  BY <1>3 DEF Desk!Init, DeskInv, DeskRequest, DeskPositions

LEMMA DeskTyped == Desk!ReportsAssumption /\ DeskInv => Desk!TypeOK
<1> SUFFICES ASSUME Desk!ReportsAssumption, DeskInv PROVE Desk!TypeOK
  OBVIOUS
<1>1. DeskTables /\ DeskShape
      /\ \A h \in Request : DeskRequest(reportPos[h], reportJob[h], held[h], reportAnswer[h])
  BY DEF DeskInv
<1>2. reportPos \in [Request -> DeskPositions]
  BY <1>1 DEF DeskShape, DeskRequest
<1>3. ASSUME NEW h \in Request, reportPos[h] \in {"role", "act"}
      PROVE  /\ reportJob[h].ask \in Desk!Asks /\ reportJob[h].p.role \in Desk!Roles \cup {None}
             /\ reportPos[h] = "act" => reportJob[h].p.role # None
  <2>1. CASE reportPos[h] = "role"
    <3>1. HalfRead(reportJob[h].p, held[h]) /\ reportJob[h].ask \in Desk!Asks
      BY <1>1, <2>1 DEF DeskRequest
    <3>2. reportJob[h].p.role = None
      BY <3>1 DEF HalfRead, Desk!PrincipalOf
    <3>3. QED
      BY <2>1, <3>1, <3>2
  <2>2. CASE reportPos[h] = "act"
    <3>1. reportJob[h].p.role \in Desk!Roles
      BY <1>1, <2>2, PrincipalsBacked DEF DeskRequest
    <3>2. QED
      BY <1>1, <2>2, <3>1 DEF DeskRequest, Desk!ReportsAssumption
  <2>3. QED
    BY <1>3, <2>1, <2>2
<1>4. \A h \in Request : held[h] \subseteq SUBSET Desk!Roles
  BY <1>1 DEF DeskRequest
<1>5. QED
  BY <1>1, <1>2, <1>3, <1>4 DEF DeskTables, DeskPositions, Desk!TypeOK

LEMMA DeskServes == Desk!ReportsAssumption /\ DeskInv => Desk!ServedIsEntitled
<1> SUFFICES ASSUME Desk!ReportsAssumption, DeskInv, NEW h \in Request, Desk!Answered(h, "query")
             PROVE  reportAnswer[h] \subseteq
                      UNION {Desk!Entitled(r, reportJob[h].p.user,
                                           Desk!datasets[reportJob[h].ask.dataset].source) :
                               r \in UNION {Desk!OrCustomer(rs) : rs \in held[h]}}
  BY DEF Desk!ServedIsEntitled
<1> DEFINE p == reportJob[h].p
           d == reportJob[h].ask.dataset
<1>1. reportPos[h] = "done" /\ reportJob[h].ask.kind = "query"
  BY DEF Desk!Answered
<1>2. DeskRequest("done", reportJob[h], held[h], reportAnswer[h])
  BY <1>1 DEF DeskInv
<1>3. reportAnswer[h] = Desk!run(d, p) /\ d \in Desk!Dataset /\ ReadFrom(p, held[h])
  BY <1>1, <1>2, AskShapes DEF DeskRequest
<1>4. held[h] \in SUBSET SUBSET Desk!Roles
  BY <1>2 DEF DeskRequest
<1>5. /\ p.role \in Desk!Roles /\ (p.user \in Reader => p.org = CompanyOf[p.user])
      /\ p.user \in Reader \cup {None} /\ (p.user = None => p.role = "admin")
      /\ \E rs \in held[h] : p.role \in Desk!OrCustomer(rs)
  BY <1>3, <1>4, PrincipalsBacked
<1> HIDE DEF p, d
<1>6. Desk!run(d, p) \subseteq Desk!Entitled(p.role, p.user, Desk!datasets[d].source)
  BY <1>3, <1>5, RoleIsEntitled
<1>7. QED
  BY <1>3, <1>5, <1>6 DEF p, d

LEMMA DeskLists == Desk!ReportsAssumption /\ DeskInv => Desk!ListsWhatOpens
<1> SUFFICES ASSUME Desk!ReportsAssumption, DeskInv, NEW p, Desk!enforce(p.perms, "report.read")
             PROVE  Desk!list(p) = {i \in DOMAIN defs : Desk!Opens(p, defs[i])}
  BY DEF Desk!ListsWhatOpens
<1>1. \A i \in DOMAIN defs : Desk!ListCondition(p, defs[i]) <=> Desk!Opens(p, defs[i])
  BY DEF DeskInv, DeskTables, Desk!ListCondition, Desk!Accessible, Desk!Opens, Desk!Owns,
         Desk!dataset_perm_ok
<1>2. QED
  BY <1>1 DEF Desk!list

\* The request that ends with a definition may delete it.
Deleter(h, i) ==
  /\ reportPos[h] = "act" /\ reportJob[h].ask = [kind |-> "delete", id |-> i]
  /\ \E rs \in held[h] : rs \cap {"admin", "finance", "sales"} # {}
  /\ \/ reportJob[h].p.user = defs[i].owner /\ defs[i].owner # None
     \/ \E rs \in held[h] : "admin" \in rs

LEMMA DeskDeletes ==
  ASSUME Desk!ReportsAssumption, DeskInv, [Desk!Next]_(Desk!vars),
         NEW i \in DOMAIN defs, i \notin DOMAIN defs'
  PROVE  \E h \in Request : Deleter(h, i)
<1>1. \E h \in Request : Desk!DeleteReport(h)
  <2>1. defs' # defs
    OBVIOUS
  <2>2. ~\E h \in Request : Desk!Create(h)
    BY DEF Desk!Create
  <2>3. QED
    BY <2>1, <2>2 DEF Desk!Next, Desk!vars, Desk!ChangeRoles, Desk!ReadPermissions, Desk!ReadRole,
       Desk!AdminToken, Desk!Query, Desk!Datasets, Desk!ListReports, Desk!OpenReport, Desk!Finish
<1>2. PICK h \in Request : Desk!DeleteReport(h)
  BY <1>1
<1> DEFINE a == reportJob[h].ask
           p == reportJob[h].p
<1>3. reportPos[h] = "act" /\ a.kind = "delete"
  BY <1>2 DEF Desk!DeleteReport, Desk!Asked
<1>4. DeskRequest("act", reportJob[h], held[h], reportAnswer[h])
  BY <1>3 DEF DeskInv
<1>5. a = [kind |-> "delete", id |-> a.id]
  BY <1>3, <1>4, AskShapes DEF DeskRequest
<1>6. /\ i = a.id /\ "report.define" \in p.perms
      /\ Desk!Owns(p, defs[i]) \/ p.role = "admin"
  BY <1>2 DEF Desk!DeleteReport, Desk!enforce, Desk!Deletes
<1>7. ReadFrom(p, held[h]) /\ held[h] \in SUBSET SUBSET Desk!Roles
  BY <1>4 DEF DeskRequest
<1>8. /\ \E rs \in held[h] : rs \cap {"admin", "finance", "sales"} # {}
      /\ p.role = "admin" => \E rs \in held[h] : "admin" \in rs
  BY <1>6, <1>7, PrincipalsBacked
<1>9. Desk!Owns(p, defs[i]) => p.user = defs[i].owner /\ defs[i].owner # None
  BY DEF Desk!Owns
<1>10. Deleter(h, i)
  BY <1>3, <1>5, <1>6, <1>8, <1>9 DEF Deleter
<1>11. QED
  BY <1>10

----------------------------------------------------------------------------
(* The parts together.                                                        *)

\* Whatever part moves, signing in and the reports behave as specified alone.
LEMMA PartsBehave == IdentitySpec => Spec /\ Desk!Spec
<1>1. IdentityInit => Init /\ Desk!Init
  <2>1. ReportsAreIdle => Desk!Init
    BY DEF ReportsAreIdle
  <2>2. QED
    BY <2>1 DEF IdentityInit
<1>2. [IdentityNext]_allVars => [Next]_vars /\ [Desk!Next]_(Desk!vars)
  BY DEF IdentityNext, allVars, reportVars, Desk!vars
<1>3. QED
  BY <1>1, <1>2, PTL DEF IdentitySpec, Spec, Desk!Spec

\* ReportsObeyRoles for any users, organisations, requests, edits of roles and
\* definitions: resolve_principal reads permissions and role in two statements,
\* yet a query (dataset.rs) shows nothing beyond roles held meanwhile, the list
\* of definitions is what opens, and a definition goes only by its owner's
\* hand or an administrator's (report_def.rs).
THEOREM ReportsAlwaysObeyRoles == IdentitySpec => ReportsObeyRoles
<1>1. Desk!ReportsAssumption
  BY DeskAssumption
<1>2. Desk!Spec => []DeskInv
  BY <1>1, DeskInit, DeskStep, PTL DEF Desk!Spec
<1>3. DeskInv => Desk!TypeOK /\ Desk!ServedIsEntitled /\ Desk!ListsWhatOpens
  BY <1>1, DeskTyped, DeskServes, DeskLists
<1>4. DeskInv => (part \in {"querying", "saving"} =>
                    Desk!TypeOK /\ Desk!ServedIsEntitled /\ Desk!ListsWhatOpens)
  BY <1>3
<1>5. DeskInv /\ [Desk!Next]_(Desk!vars) =>
        [\A i \in DOMAIN defs : i \notin DOMAIN defs' =>
           \E h \in Request :
             /\ reportPos[h] = "act" /\ reportJob[h].ask = [kind |-> "delete", id |-> i]
             /\ \E rs \in held[h] : rs \cap {"admin", "finance", "sales"} # {}
             /\ \/ reportJob[h].p.user = defs[i].owner /\ defs[i].owner # None
                \/ \E rs \in held[h] : "admin" \in rs]_(Desk!vars)
  BY <1>1, DeskDeletes DEF Deleter
<1>6. QED
  BY <1>2, <1>4, <1>5, PartsBehave, PTL DEF Desk!Spec, ReportsObeyRoles, Desk!OnlyOwnersDelete

----------------------------------------------------------------------------
(* Customers: the theorems of CrmProofs, for the customers of each part.      *)

Assigned == INSTANCE CrmProofs WITH
  User <- Team, RolesOf <- [u \in Team |-> StaffRoles[u]],
  Phone <- TeamPhone, Worker <- TeamWorker,
  MaxOrgs <- TeamOrgs, MaxRows <- TeamRows, MaxWrites <- TeamWrites, MaxGrants <- TeamGrants,
  account <- crmAccount, pos <- crmPos, job <- crmJob

Shown == INSTANCE CrmProofs WITH
  User <- ListStaff, RolesOf <- [u \in ListStaff |-> StaffRoles[u]],
  Phone <- ListPhone, Worker <- ListWorker,
  MaxOrgs <- ListOrgs, MaxRows <- ListRows, MaxWrites <- ListWrites, MaxGrants <- ListGrants,
  account <- crmAccount, pos <- crmPos, job <- crmJob

\* CrmProofs is about the very same requests and tables.
LEMMA AssignedAsSpecified ==
  /\ Assigned!CrmAssumption
  /\ Reassigning!Init => Assigned!Init
  /\ Reassigning!Next => Assigned!Next
  /\ Assigned!vars = Reassigning!vars
  /\ Assigned!HistoryIsOwnership => Reassigning!HistoryIsOwnership
  /\ Assigned!AttributionBacked => Reassigning!AttributionBacked
  /\ Assigned!WholeCustomers => Reassigning!WholeCustomers
  /\ Assigned!TypeOK => Reassigning!TypeOK
<1>1. Assigned!CrmAssumption
  BY ReassigningAssumption DEF Reassigning!CrmAssumption, Assigned!CrmAssumption, Reassigning!Roles, Assigned!Roles,
         Reassigning!OrgId, Assigned!OrgId, Reassigning!Jobs, Assigned!Jobs,
         Reassigning!IsFiniteSet, Assigned!IsFiniteSet
<1>2. Reassigning!Init => Assigned!Init
  BY DEF Reassigning!Init, Assigned!Init, Reassigning!OrgId, Assigned!OrgId
<1>3. Reassigning!Next => Assigned!Next
  BY DEF Reassigning!Next, Assigned!Next, Reassigning!vars, Assigned!vars, Reassigning!Orgs,
         Assigned!Orgs, Reassigning!OrgId, Assigned!OrgId, Reassigning!Goto, Assigned!Goto,
         Reassigning!Done, Assigned!Done, Reassigning!Release, Assigned!Release,
         Reassigning!Kept, Assigned!Kept, Reassigning!BeginOnboard, Assigned!BeginOnboard,
         Reassigning!Onboard, Assigned!Onboard, Reassigning!NewOrg, Assigned!NewOrg,
         Reassigning!FirstAssignment, Assigned!FirstAssignment, Reassigning!Register,
         Assigned!Register, Reassigning!BeginAssign, Assigned!BeginAssign, Reassigning!LockOrg,
         Assigned!LockOrg, Reassigning!Close, Assigned!Close, Reassigning!CommitAssign,
         Assigned!CommitAssign, Reassigning!Abort, Assigned!Abort, Reassigning!load_scoped_org,
         Assigned!load_scoped_org, Reassigning!Reachable, Assigned!Reachable,
         Reassigning!Restricted, Assigned!Restricted, Reassigning!Unrestricted,
         Assigned!Unrestricted, Reassigning!Passes, Assigned!Passes, Reassigning!enforce,
         Assigned!enforce, Reassigning!Perms, Assigned!Perms, Reassigning!user_permissions,
         Assigned!user_permissions, Reassigning!permissions_for_role,
         Assigned!permissions_for_role, Reassigning!Permissions, Assigned!Permissions,
         Reassigning!Roles, Assigned!Roles, Reassigning!IsSales, Assigned!IsSales,
         Reassigning!BeginWrite, Assigned!BeginWrite, Reassigning!Write, Assigned!Write,
         Reassigning!Listed, Assigned!Listed, Reassigning!After, Assigned!After,
         Reassigning!Least, Assigned!Least, Reassigning!FirstPage, Assigned!FirstPage,
         Reassigning!NextPage, Assigned!NextPage, Reassigning!LeaveList, Assigned!LeaveList,
         Reassigning!UpdateOrg, Assigned!UpdateOrg, Reassigning!DeleteOrg, Assigned!DeleteOrg,
         Reassigning!BeginDelete, Assigned!BeginDelete, Reassigning!CreateOrg, Assigned!CreateOrg,
         Reassigning!MayManage, Assigned!MayManage, Reassigning!Grant, Assigned!Grant, Reassigning!grants, Assigned!grants,
         Reassigning!Max, Assigned!Max, Reassigning!Cardinality, Assigned!Cardinality
<1>4. Assigned!vars = Reassigning!vars
  BY DEF Reassigning!vars, Assigned!vars, Reassigning!grants, Assigned!grants
<1>5. Assigned!HistoryIsOwnership => Reassigning!HistoryIsOwnership
  BY DEF Reassigning!HistoryIsOwnership, Assigned!HistoryIsOwnership, Reassigning!Orgs,
         Assigned!Orgs, Reassigning!RowsOf, Assigned!RowsOf
<1>6. Assigned!AttributionBacked => Reassigning!AttributionBacked
  BY DEF Reassigning!AttributionBacked, Assigned!AttributionBacked, Reassigning!RowsOf,
         Assigned!RowsOf, Reassigning!Perms, Assigned!Perms, Reassigning!user_permissions,
         Assigned!user_permissions, Reassigning!permissions_for_role,
         Assigned!permissions_for_role, Reassigning!Permissions, Assigned!Permissions,
         Reassigning!Roles, Assigned!Roles
<1>7. Assigned!TypeOK => Reassigning!TypeOK
  BY DEF Reassigning!TypeOK, Assigned!TypeOK, Reassigning!Orgs, Assigned!Orgs, Reassigning!OrgId,
         Assigned!OrgId, Reassigning!Jobs, Assigned!Jobs
<1>8. Assigned!WholeCustomers => Reassigning!WholeCustomers
  BY DEF Reassigning!WholeCustomers, Assigned!WholeCustomers, Reassigning!Orgs, Assigned!Orgs
<1>9. QED
  BY <1>1, <1>2, <1>3, <1>4, <1>5, <1>6, <1>7, <1>8

\* CrmProofs is about the very same requests and tables.
LEMMA ShownAsSpecified ==
  /\ Shown!CrmAssumption
  /\ Listing!Init => Shown!Init
  /\ Listing!Next => Shown!Next
  /\ Shown!vars = Listing!vars
  /\ Shown!WholeCustomers => Listing!WholeCustomers
  /\ Shown!PagesComplete => Listing!PagesComplete
  /\ Shown!TypeOK => Listing!TypeOK
<1>1. Shown!CrmAssumption
  BY ListingAssumption DEF Listing!CrmAssumption, Shown!CrmAssumption, Listing!Roles, Shown!Roles, Listing!OrgId,
         Shown!OrgId, Listing!Jobs, Shown!Jobs, Listing!IsFiniteSet, Shown!IsFiniteSet
<1>2. Listing!Init => Shown!Init
  BY DEF Listing!Init, Shown!Init, Listing!OrgId, Shown!OrgId
<1>3. Listing!Next => Shown!Next
  BY DEF Listing!Next, Shown!Next, Listing!vars, Shown!vars, Listing!Orgs, Shown!Orgs,
         Listing!OrgId, Shown!OrgId, Listing!Goto, Shown!Goto, Listing!Done, Shown!Done,
         Listing!Release, Shown!Release, Listing!Kept, Shown!Kept, Listing!BeginOnboard,
         Shown!BeginOnboard, Listing!Onboard, Shown!Onboard, Listing!NewOrg, Shown!NewOrg,
         Listing!FirstAssignment, Shown!FirstAssignment, Listing!Register, Shown!Register,
         Listing!BeginAssign, Shown!BeginAssign, Listing!LockOrg, Shown!LockOrg, Listing!Close,
         Shown!Close, Listing!CommitAssign, Shown!CommitAssign, Listing!Abort, Shown!Abort,
         Listing!load_scoped_org, Shown!load_scoped_org, Listing!Reachable, Shown!Reachable,
         Listing!Restricted, Shown!Restricted, Listing!Unrestricted, Shown!Unrestricted,
         Listing!Passes, Shown!Passes, Listing!enforce, Shown!enforce, Listing!Perms,
         Shown!Perms, Listing!user_permissions, Shown!user_permissions,
         Listing!permissions_for_role, Shown!permissions_for_role, Listing!Permissions,
         Shown!Permissions, Listing!Roles, Shown!Roles, Listing!IsSales, Shown!IsSales,
         Listing!BeginWrite, Shown!BeginWrite, Listing!Write, Shown!Write, Listing!Listed,
         Shown!Listed, Listing!After, Shown!After, Listing!Least, Shown!Least, Listing!FirstPage,
         Shown!FirstPage, Listing!NextPage, Shown!NextPage, Listing!LeaveList, Shown!LeaveList,
         Listing!UpdateOrg, Shown!UpdateOrg, Listing!DeleteOrg, Shown!DeleteOrg,
         Listing!BeginDelete, Shown!BeginDelete, Listing!CreateOrg, Shown!CreateOrg,
         Listing!MayManage, Shown!MayManage, Listing!Grant, Shown!Grant, Listing!grants, Shown!grants, Listing!Max,
         Shown!Max, Listing!Cardinality, Shown!Cardinality
<1>4. Shown!vars = Listing!vars
  BY DEF Listing!vars, Shown!vars, Listing!grants, Shown!grants
<1>5. Shown!WholeCustomers => Listing!WholeCustomers
  BY DEF Listing!WholeCustomers, Shown!WholeCustomers, Listing!Orgs, Shown!Orgs
<1>6. Shown!PagesComplete => Listing!PagesComplete
  BY DEF Listing!PagesComplete, Shown!PagesComplete
<1>7. Shown!TypeOK => Listing!TypeOK
  BY DEF Listing!TypeOK, Shown!TypeOK, Listing!Orgs, Shown!Orgs, Listing!OrgId, Shown!OrgId,
         Listing!Jobs, Shown!Jobs
<1>8. QED
  BY <1>1, <1>2, <1>3, <1>4, <1>5, <1>6, <1>7

LEMMA ReassigningBehaves == IdentitySpec => (part = "reassigning" => Assigned!Spec)
<1>1. IdentityInit /\ part = "reassigning" => Assigned!Init
  BY AssignedAsSpecified DEF IdentityInit
<1>2. part = "reassigning" /\ [IdentityNext]_allVars =>
        (part = "reassigning")' /\ [Assigned!Next]_(Assigned!vars)
  BY AssignedAsSpecified DEF IdentityNext, allVars, crmVars, Assigned!vars, Assigned!grants
<1>3. QED
  BY <1>1, <1>2, PTL DEF IdentitySpec, Assigned!Spec

LEMMA ListingBehaves == IdentitySpec => (part = "listing" => Shown!Spec)
<1>1. IdentityInit /\ part = "listing" => Shown!Init
  BY ShownAsSpecified DEF IdentityInit
<1>2. part = "listing" /\ [IdentityNext]_allVars =>
        (part = "listing")' /\ [Shown!Next]_(Shown!vars)
  BY ShownAsSpecified DEF IdentityNext, allVars, crmVars, Shown!vars, Shown!grants
<1>3. QED
  BY <1>1, <1>2, PTL DEF IdentitySpec, Shown!Spec

\* One part runs from beginning to end.
LEMMA PartsAlone ==
  /\ IdentitySpec => ([](part = "reassigning") \/ [](~(part = "reassigning")))
  /\ IdentitySpec => ([](part = "listing") \/ [](~(part = "listing")))
<1>1. [IdentityNext]_allVars => part' = part
  BY DEF IdentityNext, allVars
<1>2. part = "reassigning" /\ [IdentityNext]_allVars => (part = "reassigning")'
  BY <1>1
<1>3. ~(part = "reassigning") /\ [IdentityNext]_allVars => (~(part = "reassigning"))'
  BY <1>1
<1>4. part = "listing" /\ [IdentityNext]_allVars => (part = "listing")'
  BY <1>1
<1>5. ~(part = "listing") /\ [IdentityNext]_allVars => (~(part = "listing"))'
  BY <1>1
<1>6. QED
  BY <1>2, <1>3, <1>4, <1>5, PTL DEF IdentitySpec

\* HistoryIsOwnership for any staff, customers and number of reassignments at
\* once (assignment.rs): one active row, the newest, that names the owner unless
\* POST or PUT /organizations (organization.rs) wrote the owner since.
THEOREM HistoryAlwaysOwnership == IdentitySpec => []HistoryIsOwnership
<1>1. Assigned!Spec => []Assigned!HistoryIsOwnership
  BY AssignedAsSpecified, Assigned!OwnershipIsHistory
<1>2. Assigned!HistoryIsOwnership => HistoryIsOwnership
  BY AssignedAsSpecified DEF HistoryIsOwnership
<1>3. ~(part = "reassigning") => HistoryIsOwnership
  BY DEF HistoryIsOwnership
<1>4. QED
  BY <1>1, <1>2, <1>3, PartsAlone, ReassigningBehaves, PTL

\* CustomersHold for any staff, customers, notes and lists: an organisation has
\* an account of its own (onboard.rs, session.rs) unless POST /organizations made
\* it, what sales wrote is by an owner of then, by the history or by the word of
\* organization.rs (note.rs, recharge.rs), and a list read to its end is complete.
THEOREM CustomersAlwaysHold == IdentitySpec => []CustomersHold
<1>1. Assigned!Spec => [](Assigned!TypeOK /\ Assigned!AttributionBacked /\ Assigned!WholeCustomers)
  <2>1. Assigned!Spec => []Assigned!TypeOK
    BY AssignedAsSpecified, Assigned!CustomersTyped
  <2>2. Assigned!Spec => []Assigned!AttributionBacked
    BY AssignedAsSpecified, Assigned!AttributionAlwaysBacked
  <2>3. Assigned!Spec => []Assigned!WholeCustomers
    BY AssignedAsSpecified, Assigned!CustomersAlwaysWhole
  <2>4. QED
    BY <2>1, <2>2, <2>3, PTL
<1>2. Shown!Spec => [](Shown!TypeOK /\ Shown!WholeCustomers /\ Shown!PagesComplete)
  <2>1. Shown!Spec => []Shown!TypeOK
    BY ShownAsSpecified, Shown!CustomersTyped
  <2>2. Shown!Spec => []Shown!WholeCustomers
    BY ShownAsSpecified, Shown!CustomersAlwaysWhole
  <2>3. Shown!Spec => []Shown!PagesComplete
    BY ShownAsSpecified, Shown!ListsAlwaysComplete
  <2>4. QED
    BY <2>1, <2>2, <2>3, PTL
<1>3. Assigned!TypeOK /\ Assigned!AttributionBacked /\ Assigned!WholeCustomers =>
        (part = "reassigning" =>
           Reassigning!TypeOK /\ Reassigning!AttributionBacked /\ Reassigning!WholeCustomers)
  BY AssignedAsSpecified
<1>4. Shown!TypeOK /\ Shown!WholeCustomers /\ Shown!PagesComplete =>
        (part = "listing" => Listing!TypeOK /\ Listing!WholeCustomers /\ Listing!PagesComplete)
  BY ShownAsSpecified
<1>5. IdentitySpec => [](part = "reassigning" =>
           Reassigning!TypeOK /\ Reassigning!AttributionBacked /\ Reassigning!WholeCustomers)
  <2>1. ~(part = "reassigning") =>
          (part = "reassigning" =>
           Reassigning!TypeOK /\ Reassigning!AttributionBacked /\ Reassigning!WholeCustomers)
    OBVIOUS
  <2>2. QED
    BY <1>1, <1>3, <2>1, PartsAlone, ReassigningBehaves, PTL
<1>6. IdentitySpec =>
        [](part = "listing" => Listing!TypeOK /\ Listing!WholeCustomers /\ Listing!PagesComplete)
  <2>1. ~(part = "listing") =>
          (part = "listing" => Listing!TypeOK /\ Listing!WholeCustomers /\ Listing!PagesComplete)
    OBVIOUS
  <2>2. QED
    BY <1>2, <1>4, <2>1, PartsAlone, ListingBehaves, PTL
<1>7. QED
  BY <1>5, <1>6, PTL DEF CustomersHold
=============================================================================
