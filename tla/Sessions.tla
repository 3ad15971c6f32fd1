------------------------------ MODULE Sessions ------------------------------
(***************************************************************************)
(* Signing in with a code sent by text message (identity/src/session.rs):  *)
(* send_code, and login, which registers a telephone number on its first   *)
(* use.  Each statement of a handler commits on its own, except the two    *)
(* inserts of a registration.                                              *)
(***************************************************************************)
EXTENDS Integers, Sequences, FiniteSetsExt, TLC

CONSTANTS
  Phone, Handler, None,
  Boot,              \* config.bootstrap_admin_phone, or None
  CodeTtl, Cooldown, \* CODE_TTL_SECS and RESEND_COOLDOWN_SECS, in ticks
  MaxAttempts,       \* MAX_CODE_ATTEMPTS
  MaxCodes, MaxMisses, Late  \* bounds: codes ever sent, mistyped codes, the last instant

ASSUME SessionsAssumption ==
  /\ IsFiniteSet(Phone) /\ IsFiniteSet(Handler) /\ Boot \in Phone \cup {None}
  /\ None \notin Phone \cup Nat
  /\ {CodeTtl, Cooldown, MaxAttempts, MaxCodes, MaxMisses, Late} \subseteq Nat /\ MaxAttempts > 0

VARIABLES
  now,
  codes,     \* phone_codes, by id: [phone, created, expires, consumed, attempts]
  orgs,      \* organisations of one, by id: the phone they were made for
  account,   \* users by phone: their organisation, or None
  disabled,  \* users by phone: since when their account is disabled, or None
  admins,    \* phones whose user was granted admin
  tokens,    \* sessions handed out: [phone, org, iat, code, by]
  misses,    \* for each code, how often login answered that it was mistyped
  pos, job

vars == <<now, codes, orgs, account, disabled, admins, tokens, misses, pos, job>>
tables == <<codes, orgs, account, disabled, admins, tokens, misses>>

CodeIds == DOMAIN codes
Of(p) == {c \in CodeIds : codes[c].phone = p}
\* ORDER BY created_at DESC LIMIT 1: of two of the same instant either.
Newest(cs) == {c \in cs : \A d \in cs : codes[d].created <= codes[c].created}

TypeOK ==
  /\ now \in 0..Late
  /\ Len(codes) <= MaxCodes /\ DOMAIN misses = CodeIds
  /\ \A c \in CodeIds :
       /\ codes[c].phone \in Phone /\ codes[c].created \in 0..now
       /\ codes[c].expires = codes[c].created + CodeTtl
       /\ codes[c].consumed \in (0..now) \cup {None} /\ codes[c].attempts \in Nat
  /\ \A o \in DOMAIN orgs : orgs[o] \in Phone
  /\ account \in [Phone -> DOMAIN orgs \cup {None}]
  /\ disabled \in [Phone -> (0..now) \cup {None}]
  /\ admins \subseteq Phone
  /\ pos \in [Handler -> {"idle", "store", "miss", "lookup", "consume", "register", "enter"}]
  /\ \A h \in Handler : pos[h] # "idle" => job[h].phone \in Phone /\ job[h].at \in 0..now

Init ==
  /\ now = 0 /\ codes = <<>> /\ orgs = <<>> /\ misses = <<>>
  /\ account = [p \in Phone |-> None] /\ disabled = [p \in Phone |-> None]
  /\ admins = {} /\ tokens = {}
  /\ pos = [h \in Handler |-> "idle"] /\ job = [h \in Handler |-> None]

Tick == now < Late /\ now' = now + 1 /\ UNCHANGED <<tables, pos, job>>

Goto(h, p, j) == pos' = [pos EXCEPT ![h] = p] /\ job' = [job EXCEPT ![h] = j]
Done(h) == Goto(h, "idle", None)

-----------------------------------------------------------------------------
\* Slip: no cooldown.
AlwaysRested(p) == TRUE

Rested(p) == \A c \in Newest(Of(p)) : now - codes[c].created >= Cooldown

\* send_code looks at the newest code, then inserts one.
SendCode(h) ==
  /\ pos[h] = "idle"
  /\ \E p \in Phone : Rested(p) /\ Goto(h, "store", [phone |-> p, at |-> now])
  /\ UNCHANGED <<now, tables>>

Row(j) == [phone |-> j.phone, created |-> j.at, expires |-> j.at + CodeTtl,
           consumed |-> None, attempts |-> 0]
StoreCode(h) ==
  /\ pos[h] = "store"
  /\ IF Len(codes) < MaxCodes
     THEN /\ codes' = Append(codes, Row(job[h]))
          /\ misses' = Append(misses, 0)
     ELSE UNCHANGED <<codes, misses>>
  /\ Done(h)
  /\ UNCHANGED <<now, orgs, account, disabled, admins, tokens>>

Usable(p) == {c \in Of(p) : codes[c].consumed = None /\ codes[c].expires > now}

\* login compares what was typed with the newest usable code only.
Login(h) ==
  /\ pos[h] = "idle"
  /\ \E p \in Phone, c \in CodeIds, right \in BOOLEAN :
       /\ c \in Newest(Usable(p))
       /\ ~right => misses[c] < MaxMisses
       /\ Goto(h, IF right THEN "lookup" ELSE "miss",
               [phone |-> p, at |-> now, code |-> c, read |-> codes[c].attempts])
  /\ UNCHANGED <<now, tables>>

\* Slip: the attempts as login read them, and one more.
CountRead(c, at, read) ==
  codes' = [codes EXCEPT ![c] = [@ EXCEPT !.attempts = read + 1,
              !.consumed = IF read + 1 >= MaxAttempts THEN at ELSE @]]

\* One UPDATE: the attempts as they are, and one more.
Missed(row, at) ==
  [row EXCEPT !.attempts = row.attempts + 1,
              !.consumed = IF row.attempts + 1 >= MaxAttempts THEN at ELSE row.consumed]
CountMiss(c, at, read) == codes' = [codes EXCEPT ![c] = Missed(@, at)]

Miss(h) ==
  /\ pos[h] = "miss"
  /\ CountMiss(job[h].code, job[h].at, job[h].read)
  /\ misses' = [misses EXCEPT ![job[h].code] = @ + 1]
  /\ Done(h)
  /\ UNCHANGED <<now, orgs, account, disabled, admins, tokens>>

MayEnter(p) == disabled[p] = None

\* A disabled user is refused and keeps the code.
Lookup(h) ==
  /\ pos[h] = "lookup"
  /\ IF MayEnter(job[h].phone)
     THEN Goto(h, "consume", [phone |-> job[h].phone, at |-> job[h].at, code |-> job[h].code,
                              org |-> account[job[h].phone]])
     ELSE Done(h)
  /\ UNCHANGED <<now, tables>>

\* By primary key, whatever has become of the code since it was read.
Consume(h) ==
  /\ pos[h] = "consume"
  /\ codes' = [codes EXCEPT ![job[h].code].consumed = job[h].at]
  /\ Goto(h, IF job[h].org = None THEN "register" ELSE "enter", job[h])
  /\ UNCHANGED <<now, orgs, account, disabled, admins, tokens, misses>>

\* Slip: the two inserts without a transaction.
RegisterApart(h) ==
  LET p == job[h].phone IN
  /\ pos[h] = "register"
  /\ orgs' = Append(orgs, p)
  /\ IF account[p] = None
     THEN /\ account' = [account EXCEPT ![p] = Len(orgs) + 1]
          /\ Goto(h, "enter", [job[h] EXCEPT !.org = Len(orgs) + 1])
     ELSE UNCHANGED account /\ Done(h)
  /\ UNCHANGED <<now, codes, disabled, admins, tokens, misses>>

\* One transaction: organisation and user, or nothing when the phone is taken.
Register(h) ==
  LET p == job[h].phone IN
  /\ pos[h] = "register"
  /\ IF account[p] = None
     THEN /\ orgs' = Append(orgs, p)
          /\ account' = [account EXCEPT ![p] = Len(orgs) + 1]
          /\ Goto(h, "enter", [job[h] EXCEPT !.org = Len(orgs) + 1])
     ELSE UNCHANGED <<orgs, account>> /\ Done(h)
  /\ UNCHANGED <<now, codes, disabled, admins, tokens, misses>>

\* The bootstrap grant may fail, which is only logged; the token is signed.
Enter(h) ==
  LET j == job[h] IN
  /\ pos[h] = "enter"
  /\ \/ admins' = IF j.phone = Boot THEN admins \cup {Boot} ELSE admins
     \/ UNCHANGED admins
  /\ tokens' = tokens \cup {[phone |-> j.phone, org |-> j.org, iat |-> j.at, code |-> j.code, by |-> h]}
  /\ Done(h)
  /\ UNCHANGED <<now, codes, orgs, account, disabled, misses>>

\* A failed statement or a lost connection ends a handler where it stands.
Abandon(h) == pos[h] # "idle" /\ Done(h) /\ UNCHANGED <<now, tables>>

\* An operator disables an account.
Disable ==
  /\ \E p \in Phone :
       account[p] # None /\ disabled[p] = None /\ disabled' = [disabled EXCEPT ![p] = now]
  /\ UNCHANGED <<now, codes, orgs, account, admins, tokens, misses, pos, job>>

Next ==
  \/ Tick \/ Disable
  \/ \E h \in Handler : \/ SendCode(h) \/ StoreCode(h) \/ Login(h) \/ Miss(h) \/ Lookup(h)
                        \/ Consume(h) \/ Register(h) \/ Enter(h) \/ Abandon(h)

Spec == Init /\ [][Next]_vars

-----------------------------------------------------------------------------
\* A code is void after MaxAttempts mistyped tries, counted without loss however
\* many requests come at once; only those that had read it before can still add
\* to them, one each.
MissesBounded ==
  \A c \in CodeIds :
    /\ misses[c] <= MaxAttempts + Cardinality(Handler) - 1
    /\ misses[c] >= MaxAttempts => codes[c].consumed # None

\* One person, one account: an organisation made by a registration is the
\* organisation of its phone's user, and the sessions handed out agree, whichever
\* first logins coincide and whatever step fails.
NoHalfRegistration ==
  /\ \A o \in DOMAIN orgs : account[orgs[o]] = o
  /\ \A t \in tokens : account[t.phone] = t.org

\* The cooldown is checked before the insert, so requests that coincide pass it
\* together; but no window of that length holds more codes than requests can coincide.
SendsBounded ==
  \A p \in Phone : \A c \in Of(p) :
    Cardinality({d \in Of(p) : codes[d].created \in codes[c].created..(codes[c].created + Cooldown - 1)})
      <= Cardinality(Handler)

\* A session of a disabled user comes from a login that had begun before.
NoSessionOnceDisabled ==
  \A t \in tokens : disabled[t.phone] # None => t.iat <= disabled[t.phone]

\* A code is good for one login.
CodeUsedOnce == \A s, t \in tokens : s.code = t.code => s = t

\* No window of a cooldown holds more codes than requests can coincide, and a
\* session of a disabled user comes from a login begun before (session.rs); with
\* the types of its tables and requests.
LoginsHold == TypeOK /\ SendsBounded /\ NoSessionOnceDisabled
=============================================================================
