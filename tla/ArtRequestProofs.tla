--------------------------- MODULE ArtRequestProofs ---------------------------
(***************************************************************************)
(* Theorems about ArtRequest for any number of runs and hosts: whoever is  *)
(* past mkdir holds the lock of its host, the runs of one host never make  *)
(* two tickets of one project, and a run tells nobody of tickets that are  *)
(* not linked.                                                             *)
(***************************************************************************)
EXTENDS ArtRequest, TLAPS

\* A run may still ask Jira for a ticket of project p.
MayCreate(r, p) ==
  /\ key[r][p] = Nobody
  /\ \/ pc[r] \in {<<"similar", "ART">>, <<"similar", "QE">>, <<"create", p>>}
     \/ p = "ART" /\ pc[r] = <<"label", "QE">>
     \/ p = "QE" /\ pc[r] \in {<<"create", "ART">>, <<"wait", "ART">>}

\* Control states in which the QE ticket, and the ART ticket, is known.
HasQe  == {"link", "wait", "verify"} \X Links \cup {<<"slack", "none">>}
HasArt == HasQe \cup {<<"create", "QE">>, <<"wait", "QE">>}

\* A run that made ticket t would clash with one of host h in project p.
Clash(t, p, h) == t.project = p /\ t.label /\ (t.by = Nobody \/ host[t.by] = h)

KeysKnown ==
  \A r \in Runs :
    /\ pc[r] \in HasArt => key[r]["ART"] # Nobody
    /\ pc[r] \in HasQe => key[r]["QE"] # Nobody

\* Whoever has a request on the wire waits for it or has ended.
OnTheWire == \A q \in wire : pc[q.by] = <<"wait", q.what>> \/ pc[q.by] \in Ended

\* A host has one request on the wire at most, and nobody else of the host
\* holds its lock meanwhile.
OneRequest == \A q1, q2 \in wire : host[q1.by] = host[q2.by] => q1 = q2
Alone == \A q \in wire, r \in Runs : pc[r] \in Held /\ host[r] = host[q.by] => r = q.by

\* What may still be created clashes with no ticket there is.
NoneYet ==
  \A t \in tickets, p \in Projects :
    /\ \A r \in Runs : MayCreate(r, p) => ~Clash(t, p, host[r])
    /\ \A q \in wire : q.what = p => ~Clash(t, p, host[q.by])

Inv ==
  /\ TypeOK /\ KeysKnown
  /\ OnTheWire /\ OneRequest /\ Alone
  /\ NoneYet /\ OneTicketPerHost

LEMMA InitInv == Init => Inv
<1> SUFFICES ASSUME Init PROVE Inv
  OBVIOUS
<1> USE ArtAssumption
<1>1. PICK art \in Before("ART"), qe \in Before("QE") : tickets = art \cup qe
  BY DEF Init
<1>2. tickets \subseteq Tickets
  BY <1>1 DEF Before, Tickets, Projects
<1>3. \A r \in Runs : pc[r] = <<"new", "none">> /\ pc[r] \notin Held \cup HasArt
  BY DEF Init, Held, Phases, HasArt, HasQe, Projects, Links
<1>4. TypeOK
  BY <1>2, <1>3 DEF Init, TypeOK, Options
<1>5. OneTicketPerHost
  BY <1>1 DEF Before, OneTicketPerHost
<1>6. KeysKnown /\ NoneYet
  BY <1>3 DEF KeysKnown, NoneYet, MayCreate, HasArt, Init
<1>7. OnTheWire /\ OneRequest /\ Alone
  BY DEF Init, OnTheWire, OneRequest, Alone
<1> QED
  BY <1>4, <1>5, <1>6, <1>7 DEF Inv

LEMMA HeldNotEnded == Held \cap Ended = {}
  BY DEF Held, Ended, Phases, Projects, Links

\* A step of r that moves its control state, may free its lock when it ends,
\* and leaves its tickets, the wire and the tickets of Jira alone.
Quiet(r, to) ==
  /\ pc' = [pc EXCEPT ![r] = to]
  /\ UNCHANGED <<args, key, wire, tickets>>
  /\ UNCHANGED lock \/ (to \in Ended /\ Unlock(r))

LEMMA QuietInv ==
  ASSUME Inv, NEW r \in Runs, NEW to \in Held \cup Ended, Quiet(r, to),
         pc[r] \in Held,
         pc[r] \notin {"wait"} \X (Projects \cup Links) \/ to \in Ended,
         to \in HasArt => key[r]["ART"] # Nobody,
         to \in HasQe => key[r]["QE"] # Nobody,
         \A p \in Projects : MayCreate(r, p)' => MayCreate(r, p),
         created' \subseteq Runs, notices' \subseteq [by : Runs, art : tickets]
  PROVE  Inv'
<1> USE ArtAssumption DEF Inv, Quiet, args
<1>0. /\ pc \in [Runs -> Held \cup Ended \cup {<<"new", "none">>}]
      /\ host \in [Runs -> Hosts] /\ lock \in [Hosts -> Runs \cup {Nobody}]
      /\ wire \subseteq [by : Runs, what : Projects \cup Links]
      /\ \A s \in Runs : pc[s] \in Held => lock[host[s]] = s
  BY DEF TypeOK
<1>1. pc' \in [Runs -> Held \cup Ended \cup {<<"new", "none">>}] /\ pc'[r] = to
      /\ \A s \in Runs \ {r} : pc'[s] = pc[s]
  BY <1>0
<1>2. Held \cap Ended = {}
  BY HeldNotEnded
<1>3. TypeOK'
  <2>1. lock' \in [Hosts -> Runs \cup {Nobody}]
    BY <1>0 DEF Unlock
  <2>2. \A s \in Runs : pc'[s] \in Held => lock'[host[s]] = s
    <3> SUFFICES ASSUME NEW s \in Runs, pc'[s] \in Held PROVE lock'[host[s]] = s
      BY <1>0
    <3>1. lock[host[s]] = s /\ host[s] \in Hosts /\ host' = host
      BY <1>0, <1>1
    <3>2. CASE UNCHANGED lock
      BY <3>1, <3>2
    <3>3. CASE to \in Ended /\ Unlock(r)
      <4>1. s # r /\ lock[host[r]] = r
        BY <1>0, <1>1, <1>2, <3>3
      <4> QED
        BY <3>1, <3>3, <4>1, <1>0 DEF Unlock
    <3> QED
      BY <3>2, <3>3
  <2> QED
    BY <1>1, <2>1, <2>2 DEF TypeOK
<1>4. KeysKnown'
  BY <1>1 DEF KeysKnown
<1>5. OnTheWire'
  <2> SUFFICES ASSUME NEW q \in wire PROVE pc'[q.by] = <<"wait", q.what>> \/ pc'[q.by] \in Ended
    BY DEF OnTheWire
  <2>1. q.by \in Runs /\ q.what \in Projects \cup Links
    BY <1>0
  <2>2. CASE q.by # r
    BY <1>1, <2>1, <2>2 DEF OnTheWire
  <2>3. CASE q.by = r
    <3>1. pc[r] = <<"wait", q.what>> \/ pc[r] \in Ended
      BY <2>3 DEF OnTheWire
    <3>2. pc[r] \in {"wait"} \X (Projects \cup Links)
      BY <1>2, <2>1, <3>1
    <3> QED
      BY <1>1, <2>3, <3>2
  <2> QED
    BY <2>2, <2>3
<1>6. OneRequest' /\ Alone'
  BY <1>0, <1>1 DEF OneRequest, Alone
<1>7. \A s \in Runs, p \in Projects : MayCreate(s, p)' => MayCreate(s, p)
  BY <1>1 DEF MayCreate
<1>8. NoneYet'
  BY <1>7 DEF NoneYet, Clash
<1>9. OneTicketPerHost'
  BY DEF OneTicketPerHost
<1> QED
  BY <1>3, <1>4, <1>5, <1>6, <1>8, <1>9

\* Sending a request: nothing of the host is on the wire yet.
LEMMA PostInv ==
  ASSUME Inv, NEW r \in Runs, NEW what \in Projects \cup Links, Post(r, what),
         \/ what \in Projects /\ pc[r] = <<"create", what>> /\ key[r][what] = Nobody
         \/ what \in Links /\ pc[r] = <<"link", what>>
  PROVE  Inv'
<1> USE ArtAssumption DEF Inv, Post, Goto, args
<1> DEFINE new == [by |-> r, what |-> what]
<1>0. /\ pc \in [Runs -> Held \cup Ended \cup {<<"new", "none">>}]
      /\ host \in [Runs -> Hosts]
      /\ wire \subseteq [by : Runs, what : Projects \cup Links]
      /\ \A s \in Runs : pc[s] \in Held => lock[host[s]] = s
  BY DEF TypeOK
<1>1. pc[r] \in Held /\ <<"wait", what>> \in Held
  BY DEF Held, Phases, Projects, Links
<1>2. pc' \in [Runs -> Held \cup Ended \cup {<<"new", "none">>}] /\ pc'[r] = <<"wait", what>>
      /\ \A s \in Runs \ {r} : pc'[s] = pc[s]
  BY <1>0, <1>1
<1>3. wire' \subseteq [by : Runs, what : Projects \cup Links] /\ new \in wire'
      /\ \A q \in wire' : q = new \/ q \in wire
  BY <1>0
<1>4. TypeOK'
  BY <1>0, <1>1, <1>2, <1>3 DEF TypeOK
<1>5. KeysKnown'
  BY <1>2 DEF KeysKnown, HasArt, HasQe, Projects, Links
<1>6. \A q \in wire : host[q.by] # host[r]
  <2> SUFFICES ASSUME NEW q \in wire, host[q.by] = host[r] PROVE FALSE
    OBVIOUS
  <2>1. q.by = r /\ q.what \in Projects \cup Links
    BY <1>0, <1>1 DEF Alone
  <2>2. pc[r] = <<"wait", q.what>> \/ pc[r] \in Ended
    BY <2>1 DEF OnTheWire
  <2>3. pc[r] \notin Ended
    BY <1>1, HeldNotEnded
  <2> QED
    BY <2>2, <2>3
<1>7. OnTheWire'
  BY <1>0, <1>2, <1>3, <1>6 DEF OnTheWire
<1>8. OneRequest'
  BY <1>3, <1>6 DEF OneRequest
<1>9. Alone'
  <2> SUFFICES ASSUME NEW q \in wire', NEW s \in Runs, pc'[s] \in Held, host[s] = host[q.by]
               PROVE  s = q.by
    BY DEF Alone
  <2>1. pc[s] \in Held
    BY <1>1, <1>2
  <2>2. CASE q \in wire
    BY <2>1, <2>2 DEF Alone
  <2>3. CASE q = new
    BY <1>0, <1>1, <2>1, <2>3
  <2> QED
    BY <1>3, <2>2, <2>3
<1>10. \A s \in Runs, p \in Projects : MayCreate(s, p)' => MayCreate(s, p)
  BY <1>2 DEF MayCreate, Projects, Links
<1>11. what \in Projects => MayCreate(r, what)
  BY DEF MayCreate, Projects, Links
<1>12. NoneYet'
  <2> SUFFICES ASSUME NEW t \in tickets, NEW p \in Projects
               PROVE  /\ \A s \in Runs : MayCreate(s, p)' => ~Clash(t, p, host[s])
                      /\ \A q \in wire' : q.what = p => ~Clash(t, p, host[q.by])
    BY DEF NoneYet, Clash
  <2>1. ASSUME NEW s \in Runs, MayCreate(s, p)' PROVE ~Clash(t, p, host[s])
    BY <1>10, <2>1 DEF NoneYet
  <2>2. ASSUME NEW q \in wire', q.what = p PROVE ~Clash(t, p, host[q.by])
    BY <1>3, <1>11, <2>2 DEF NoneYet
  <2> QED
    BY <2>1, <2>2
<1>13. OneTicketPerHost'
  BY DEF OneTicketPerHost
<1> QED
  BY <1>4, <1>5, <1>7, <1>8, <1>9, <1>12, <1>13

\* The label search: a ticket is taken, or there is none to clash with.
LEMMA FindByLabelInv ==
  ASSUME Inv, NEW r \in Runs, NEW p \in Projects, FindByLabel(r, p)
  PROVE  Inv'
<1> USE ArtAssumption DEF Inv, args, jira
<1> DEFINE to == IF p = "ART" THEN <<"label", "QE">> ELSE <<"similar", "ART">>
<1>0. /\ pc \in [Runs -> Held \cup Ended \cup {<<"new", "none">>}]
      /\ key \in [Runs -> [Projects -> tickets \cup {Nobody}]]
      /\ wire \subseteq [by : Runs, what : Projects \cup Links]
      /\ \A s \in Runs : pc[s] \in Held => lock[host[s]] = s
  BY DEF TypeOK
<1>1. pc[r] = <<"label", p>> /\ pc[r] \in Held /\ to \in Held
  BY DEF FindByLabel, Held, Phases, Projects
<1>2. CASE Fails(r) /\ UNCHANGED key
  <2>1. Quiet(r, <<"failed", "none">>) /\ UNCHANGED <<created, notices>>
    BY <1>2 DEF FindByLabel, Quiet, Fails, Goto, Ended
  <2>2. <<"failed", "none">> \in Ended /\ <<"failed", "none">> \notin HasArt \cup HasQe
    BY DEF Ended, HasArt, HasQe
  <2>3. \A x \in Projects : ~MayCreate(r, x)'
    <3>1. pc'[r] = <<"failed", "none">>
      BY <1>0, <2>1 DEF Quiet
    <3> QED
      BY <3>1 DEF MayCreate
  <2> QED
    BY <1>1, <2>1, <2>2, <2>3, QuietInv DEF TypeOK
<1>3. CASE /\ pc' = [pc EXCEPT ![r] = to]
           /\ \/ \E t \in Labelled(p) : key' = [key EXCEPT ![r][p] = t]
              \/ Labelled(p) = {} /\ UNCHANGED key
           /\ UNCHANGED <<args, created, jira, lock>>
  <2>1. pc' \in [Runs -> Held \cup Ended \cup {<<"new", "none">>}] /\ pc'[r] = to
        /\ \A s \in Runs \ {r} : pc'[s] = pc[s]
    BY <1>0, <1>1, <1>3
  <2>2. /\ key' \in [Runs -> [Projects -> tickets \cup {Nobody}]]
        /\ \A s \in Runs \ {r} : key'[s] = key[s]
        /\ \A x \in Projects : x # p => key'[r][x] = key[r][x]
    BY <1>0, <1>3 DEF Labelled
  <2>3. key'[r][p] = Nobody => Labelled(p) = {}
    <3> SUFFICES ASSUME NEW t \in Labelled(p), key' = [key EXCEPT ![r][p] = t] PROVE key'[r][p] # Nobody
      BY <1>3
    <3>1. t \in Tickets
      BY DEF Labelled, TypeOK
    <3> QED
      BY <1>0, <3>1
  <2>4. TypeOK'
    BY <1>1, <1>3, <2>1, <2>2 DEF TypeOK
  <2>5. KeysKnown'
    BY <2>1, <2>2 DEF KeysKnown, HasArt, HasQe
  <2>6. OnTheWire'
    <3> SUFFICES ASSUME NEW q \in wire PROVE q.by # r
      BY <1>0, <1>3, <2>1 DEF OnTheWire
    <3>1. pc[q.by] = <<"wait", q.what>> \/ pc[q.by] \in Ended
      BY DEF OnTheWire
    <3> QED
      BY <1>1, <3>1, HeldNotEnded
  <2>7. OneRequest' /\ Alone'
    BY <1>1, <1>3, <2>1 DEF OneRequest, Alone
  <2>8. \A s \in Runs, x \in Projects :
          MayCreate(s, x)' => MayCreate(s, x) \/ (s = r /\ Labelled(x) = {})
    <3>1. \A s \in Runs \ {r}, x \in Projects : MayCreate(s, x)' => MayCreate(s, x)
      BY <2>1, <2>2 DEF MayCreate
    <3>2. ASSUME NEW x \in Projects, MayCreate(r, x)' PROVE MayCreate(r, x) \/ Labelled(x) = {}
      <4>1. CASE x = p
        BY <2>3, <3>2, <4>1 DEF MayCreate
      <4>2. CASE x # p /\ p = "ART"
        <5>1. x = "QE" /\ pc'[r] = <<"label", "QE">>
          BY <2>1, <4>2 DEF Projects
        <5> QED
          BY <3>2, <5>1 DEF MayCreate
      <4>3. CASE x # p /\ p = "QE"
        <5>1. x = "ART" /\ pc[r] = <<"label", "QE">>
          BY <1>1, <4>3 DEF Projects
        <5>2. key'[r][x] = key[r][x]
          BY <2>2, <4>3
        <5> QED
          BY <3>2, <5>1, <5>2 DEF MayCreate
      <4> QED
        BY <4>1, <4>2, <4>3 DEF Projects
    <3> QED
      BY <3>1, <3>2
  <2>9. NoneYet'
    BY <1>3, <2>8 DEF NoneYet, Clash, Labelled
  <2>10. OneTicketPerHost'
    BY <1>3 DEF OneTicketPerHost
  <2> QED
    BY <2>4, <2>5, <2>6, <2>7, <2>9, <2>10
<1> QED
  BY <1>2, <1>3 DEF FindByLabel, AfterLabel, Goto

\* Jira makes the ticket: on the host that asked for it there was none.
LEMMA ServeCreateInv ==
  ASSUME Inv, NEW q \in wire, NEW answered \in BOOLEAN, ServeCreate(q, answered)
  PROVE  Inv'
<1> USE ArtAssumption DEF Inv, args
<1> DEFINE r == q.by
           p == q.what
           t == NewTicket(q)
<1>0. /\ pc \in [Runs -> Held \cup Ended \cup {<<"new", "none">>}]
      /\ host \in [Runs -> Hosts]
      /\ key \in [Runs -> [Projects -> tickets \cup {Nobody}]]
      /\ wire \subseteq [by : Runs, what : Projects \cup Links]
      /\ tickets \subseteq Tickets /\ created \subseteq Runs
      /\ notices \subseteq [by : Runs, art : tickets]
      /\ \A s \in Runs : pc[s] \in Held => lock[host[s]] = s
  BY DEF TypeOK
<1>1. /\ r \in Runs /\ p \in Projects
      /\ t = [project |-> p, by |-> r, label |-> TRUE]
      /\ t.project = p /\ t.by = r /\ t \in Tickets /\ t # Nobody
  <2>1. r \in Runs /\ p \in Projects
    BY <1>0 DEF ServeCreate
  <2>2. t = [project |-> p, by |-> r, label |-> TRUE]
    BY DEF NewTicket
  <2>3. t \in Tickets
    BY <2>1, <2>2 DEF Tickets
  <2>4. t # Nobody
    BY <2>3
  <2>5. t.project = p /\ t.by = r
    BY <2>2
  <2> QED
    BY <2>1, <2>2, <2>3, <2>4, <2>5
<1>2. tickets' = tickets \cup {t} /\ wire' = wire \ {q} /\ UNCHANGED <<args, lock, notices>>
  BY DEF ServeCreate
<1>3. \A u \in tickets : ~Clash(u, p, host[r])
  BY <1>1 DEF NoneYet
<1>4. OneTicketPerHost'
  <2> SUFFICES ASSUME NEW u \in tickets', NEW v \in tickets', u # v, u.project = v.project,
                      u.label, v.label
               PROVE  u.by # Nobody /\ v.by # Nobody /\ host[u.by] # host[v.by]
    BY <1>2 DEF OneTicketPerHost
  <2>1. CASE u \in tickets /\ v \in tickets
    BY <2>1 DEF OneTicketPerHost
  <2>2. CASE u = t /\ v \in tickets
    BY <1>1, <1>3, <2>2 DEF Clash
  <2>3. CASE v = t /\ u \in tickets
    BY <1>1, <1>3, <2>3 DEF Clash
  <2> QED
    BY <1>2, <2>1, <2>2, <2>3
<1>5. OneRequest'
  BY <1>2 DEF OneRequest
<1>6. \A o \in wire' : host[o.by] # host[r]
  BY <1>2 DEF OneRequest
<1>7. CASE UNCHANGED <<pc, key, created>>
  <2>1. TypeOK'
    <3>1. tickets' \subseteq Tickets /\ wire' \subseteq [by : Runs, what : Projects \cup Links]
      BY <1>0, <1>1, <1>2
    <3>2. key' \in [Runs -> [Projects -> tickets' \cup {Nobody}]]
          /\ notices' \subseteq [by : Runs, art : tickets']
      BY <1>0, <1>2, <1>7
    <3> QED
      BY <1>2, <1>7, <3>1, <3>2 DEF TypeOK
  <2>2. KeysKnown' /\ OnTheWire' /\ Alone'
    BY <1>2, <1>7 DEF KeysKnown, OnTheWire, Alone
  <2>3. \A s \in Runs, x \in Projects : MayCreate(s, x)' => MayCreate(s, x) /\ ~Clash(t, x, host[s])
    <3> SUFFICES ASSUME NEW s \in Runs, NEW x \in Projects, MayCreate(s, x), Clash(t, x, host[s])
                 PROVE  FALSE
      BY <1>7 DEF MayCreate
    <3>1. x = p /\ host[s] = host[r]
      BY <1>0, <1>1 DEF Clash
    <3>2. pc[s] \in Held /\ pc[s] # <<"wait", p>>
      BY <3>1 DEF MayCreate, Held, Phases, Projects
    <3>3. s = r
      BY <3>1, <3>2 DEF Alone
    <3> QED
      BY <3>2, <3>3, HeldNotEnded DEF OnTheWire
  <2>4. NoneYet'
    BY <1>1, <1>2, <1>6, <1>7, <2>3 DEF NoneYet, Clash
  <2> QED
    BY <1>4, <1>5, <2>1, <2>2, <2>4
<1>8. CASE /\ pc[r] = <<"wait", p>> /\ key' = [key EXCEPT ![r][p] = t]
           /\ created' = IF p = "ART" THEN created \cup {r} ELSE created
           /\ AfterTicket(r, p)
  <2> DEFINE to == IF p = "ART" THEN <<"create", "QE">> ELSE <<"link", "Related">>
  <2>1. to \in Held /\ pc[r] \in Held
    BY <1>1, <1>8 DEF Held, Phases, Projects, Links
  <2>2. pc' \in [Runs -> Held \cup Ended \cup {<<"new", "none">>}] /\ pc'[r] = to
        /\ \A s \in Runs \ {r} : pc'[s] = pc[s]
    BY <1>0, <1>1, <1>8, <2>1 DEF AfterTicket, Goto
  <2>3. /\ key' \in [Runs -> [Projects -> tickets' \cup {Nobody}]]
        /\ \A s \in Runs \ {r} : key'[s] = key[s]
        /\ \A x \in Projects \ {p} : key'[r][x] = key[r][x]
        /\ key'[r][p] = t
    BY <1>0, <1>1, <1>2, <1>8
  <2>4. TypeOK'
    <3>1. tickets' \subseteq Tickets /\ wire' \subseteq [by : Runs, what : Projects \cup Links]
          /\ created' \subseteq Runs /\ notices' \subseteq [by : Runs, art : tickets']
      BY <1>0, <1>1, <1>2, <1>8
    <3>2. \A s \in Runs : pc'[s] \in Held => lock'[host[s]] = s
      BY <1>0, <1>2, <2>1, <2>2
    <3> QED
      BY <1>2, <2>2, <2>3, <3>1, <3>2 DEF TypeOK
  <2>5. KeysKnown'
    <3>1. p = "QE" => key[r]["ART"] # Nobody
      BY <1>1, <1>8 DEF KeysKnown, HasArt
    <3>2. key'[r]["ART"] # Nobody /\ (p = "QE" => key'[r]["QE"] # Nobody)
      BY <1>1, <2>3, <3>1 DEF Projects
    <3>3. p = "ART" => pc'[r] \notin HasQe
      BY <2>2 DEF HasQe, Links
    <3> QED
      BY <1>1, <2>2, <2>3, <3>2, <3>3 DEF KeysKnown, Projects
  <2>6. OnTheWire'
    BY <1>0, <1>1, <1>2, <1>6, <2>2 DEF OnTheWire
  <2>7. Alone'
    BY <1>2, <2>1, <2>2 DEF Alone
  <2>8. \A s \in Runs, x \in Projects : MayCreate(s, x)' => ~Clash(t, x, host[s])
    <3> SUFFICES ASSUME NEW s \in Runs, NEW x \in Projects, MayCreate(s, x)', Clash(t, x, host[s])
                 PROVE  FALSE
      OBVIOUS
    <3>1. x = p /\ host[s] = host[r]
      BY <1>0, <1>1 DEF Clash
    <3>2. s # r
      BY <1>1, <2>3, <3>1 DEF MayCreate
    <3>3. pc[s] \in Held
      BY <1>1, <2>2, <3>1, <3>2 DEF MayCreate, Held, Phases, Projects
    <3> QED
      BY <3>1, <3>2, <3>3 DEF Alone
  <2>9. \A s \in Runs, x \in Projects : MayCreate(s, x)' => MayCreate(s, x)
    <3>1. \A s \in Runs \ {r}, x \in Projects : MayCreate(s, x)' => MayCreate(s, x)
      BY <2>2, <2>3 DEF MayCreate
    <3>2. ASSUME NEW x \in Projects, MayCreate(r, x)' PROVE MayCreate(r, x)
      <4>1. x # p
        BY <1>1, <2>3, <3>2 DEF MayCreate
      <4>2. key[r][x] = Nobody
        BY <2>3, <3>2, <4>1 DEF MayCreate
      <4>3. x = "QE" /\ p = "ART"
        <5>1. pc'[r] # <<"link", "Related">>
          BY <3>2 DEF MayCreate
        <5> QED
          BY <1>1, <2>2, <4>1, <5>1 DEF Projects
      <4> QED
        BY <1>8, <4>2, <4>3 DEF MayCreate
    <3> QED
      BY <3>1, <3>2
  <2>10. NoneYet'
    BY <1>1, <1>2, <1>6, <2>8, <2>9 DEF NoneYet, Clash
  <2> QED
    BY <1>4, <1>5, <2>4, <2>5, <2>6, <2>7, <2>10
<1> QED
  BY <1>7, <1>8 DEF ServeCreate

\* A request leaves the wire without a ticket; its run may go on to verify.
LEMMA AnsweredInv ==
  ASSUME Inv, NEW q \in wire, wire' = wire \ {q},
         UNCHANGED <<args, key, created, lock, tickets, notices>>,
         \/ UNCHANGED pc
         \/ /\ q.what \in Links /\ pc[q.by] = <<"wait", q.what>>
            /\ pc' = [pc EXCEPT ![q.by] = <<"verify", q.what>>]
  PROVE  Inv'
<1> USE DEF Inv, args
<1> DEFINE r == q.by
           to == <<"verify", q.what>>
<1>0. /\ pc \in [Runs -> Held \cup Ended \cup {<<"new", "none">>}]
      /\ wire \subseteq [by : Runs, what : Projects \cup Links]
  BY DEF TypeOK
<1>1. CASE UNCHANGED pc
  <2>1. TypeOK'
    BY <1>1 DEF TypeOK
  <2>2. KeysKnown' /\ OnTheWire' /\ OneRequest' /\ Alone' /\ OneTicketPerHost'
    BY <1>1 DEF KeysKnown, OnTheWire, OneRequest, Alone, OneTicketPerHost
  <2>3. NoneYet'
    BY <1>1 DEF NoneYet, MayCreate, Clash
  <2> QED
    BY <2>1, <2>2, <2>3
<1>2. CASE q.what \in Links /\ pc[r] = <<"wait", q.what>> /\ pc' = [pc EXCEPT ![r] = to]
  <2>1. /\ to \in Held /\ pc[r] \in Held
        /\ to \in HasQe /\ to \in HasArt /\ pc[r] \in HasQe /\ pc[r] \in HasArt
    BY <1>2 DEF Held, Phases, HasQe, HasArt
  <2>2. /\ r \in Runs /\ pc' \in [Runs -> Held \cup Ended \cup {<<"new", "none">>}] /\ pc'[r] = to
        /\ \A s \in Runs \ {r} : pc'[s] = pc[s]
    BY <1>0, <1>2, <2>1
  <2>3. TypeOK'
    BY <2>1, <2>2 DEF TypeOK
  <2>4. KeysKnown'
    BY <2>1, <2>2 DEF KeysKnown
  <2>5. OneRequest' /\ Alone' /\ OneTicketPerHost'
    BY <2>1, <2>2 DEF OneRequest, Alone, OneTicketPerHost
  <2>6. OnTheWire'
    BY <1>0, <2>2 DEF OnTheWire, OneRequest
  <2>7. \A s \in Runs, p \in Projects : MayCreate(s, p)' => MayCreate(s, p)
    BY <2>2 DEF MayCreate
  <2>8. NoneYet'
    BY <2>7 DEF NoneYet, Clash
  <2> QED
    BY <2>3, <2>4, <2>5, <2>6, <2>8
<1> QED
  BY <1>1, <1>2

\* Start of a run, with or without the lock.
LEMMA StartInv ==
  ASSUME Inv, NEW r \in Runs, Acquire(r) \/ LockIsTaken(r)
  PROVE  Inv'
<1> USE ArtAssumption DEF Inv, Start, jira
<1> DEFINE to == pc'[r]
<1>0. /\ pc \in [Runs -> Held \cup Ended \cup {<<"new", "none">>}]
      /\ host \in [Runs -> Hosts] /\ option \in [Runs -> Options]
      /\ lock \in [Hosts -> Runs \cup {Nobody}]
      /\ wire \subseteq [by : Runs, what : Projects \cup Links]
      /\ \A s \in Runs : pc[s] \in Held => lock[host[s]] = s
  BY DEF TypeOK
<1>1. /\ pc[r] = <<"new", "none">> /\ Reconciled
      /\ option' \in [Runs -> Options]
      /\ UNCHANGED <<host, key, created, tickets, links, wire, notices>>
  BY <1>0 DEF Acquire, LockIsTaken
<1>2. /\ pc' \in [Runs -> Held \cup Ended \cup {<<"new", "none">>}]
      /\ \/ to = <<"locked", "none">> /\ Acquire(r)
         \/ to = <<"failed", "none">> /\ LockIsTaken(r)
      /\ \A s \in Runs \ {r} : pc'[s] = pc[s]
  BY <1>0 DEF Acquire, LockIsTaken, Goto, Held, Ended
<1>3. to \notin HasArt /\ to \notin HasQe /\ (to \in Held => Acquire(r))
  BY <1>2, HeldNotEnded DEF HasArt, HasQe, Projects, Links, Ended
<1>4. TypeOK'
  <2>1. lock' \in [Hosts -> Runs \cup {Nobody}]
    BY <1>0 DEF Acquire, LockIsTaken
  <2>2. \A s \in Runs : pc'[s] \in Held => lock'[host[s]] = s
    <3>1. CASE Acquire(r)
      BY <1>0, <1>2, <3>1 DEF Acquire
    <3>2. CASE LockIsTaken(r)
      BY <1>0, <1>2, <1>3, <3>2 DEF LockIsTaken, Acquire
    <3> QED
      BY <3>1, <3>2
  <2> QED
    BY <1>1, <1>2, <2>1, <2>2 DEF TypeOK
<1>5. KeysKnown'
  BY <1>1, <1>2, <1>3 DEF KeysKnown
<1>6. \A q \in wire : q.by # r /\ pc[q.by] = <<"wait", q.what>> /\ lock[host[q.by]] = q.by
  <2> SUFFICES ASSUME NEW q \in wire
               PROVE  q.by # r /\ pc[q.by] = <<"wait", q.what>> /\ lock[host[q.by]] = q.by
    OBVIOUS
  <2>1. pc[q.by] = <<"wait", q.what>> /\ q.by \in Runs /\ q.what \in Projects \cup Links
    BY <1>0, <1>1 DEF OnTheWire, Reconciled
  <2>2. pc[q.by] \in Held
    BY <2>1 DEF Held, Phases
  <2> QED
    BY <1>0, <1>1, <2>1, <2>2
<1>7. OnTheWire' /\ OneRequest'
  BY <1>0, <1>1, <1>2, <1>6 DEF OnTheWire, OneRequest
<1>8. Alone'
  <2> SUFFICES ASSUME NEW q \in wire, NEW s \in Runs, pc'[s] \in Held, host[s] = host[q.by]
               PROVE  s = q.by
    BY <1>1 DEF Alone
  <2>1. CASE s # r
    BY <1>2, <2>1 DEF Alone
  <2>2. CASE s = r
    <3>1. lock[host[r]] = Nobody
      BY <1>3, <2>2 DEF Acquire
    <3> QED
      BY <1>0, <1>6, <2>2, <3>1
  <2> QED
    BY <2>1, <2>2
<1>9. \A s \in Runs, p \in Projects : MayCreate(s, p)' => MayCreate(s, p)
  BY <1>1, <1>2 DEF MayCreate
<1>10. NoneYet' /\ OneTicketPerHost'
  BY <1>1, <1>9 DEF NoneYet, OneTicketPerHost, Clash
<1> QED
  BY <1>4, <1>5, <1>7, <1>8, <1>10

LEMMA RemoveStaleLockInv ==
  ASSUME Inv, NEW h \in Hosts, RemoveStaleLock(h)
  PROVE  Inv'
<1> USE DEF Inv, RemoveStaleLock, args, jira
<1>1. TypeOK'
  <2>1. \A s \in Runs : pc'[s] \in Held => lock'[host'[s]] = s
    <3> SUFFICES ASSUME NEW s \in Runs, pc[s] \in Held PROVE lock'[host[s]] = s
      OBVIOUS
    <3>1. host[s] # h
      BY HeldNotEnded DEF TypeOK, Ended
    <3> QED
      BY <3>1 DEF TypeOK
  <2> QED
    BY <2>1 DEF TypeOK
<1>2. KeysKnown' /\ OnTheWire' /\ OneRequest' /\ Alone' /\ OneTicketPerHost'
  BY DEF KeysKnown, OnTheWire, OneRequest, Alone, OneTicketPerHost
<1>3. NoneYet'
  BY DEF NoneYet, MayCreate, Clash
<1> QED
  BY <1>1, <1>2, <1>3

\* A run that ends, in any way, is quiet.
LEMMA EndInv ==
  ASSUME Inv, NEW r \in Runs, NEW how \in {"failed", "killed", "done"}, Quiet(r, <<how, "none">>),
         pc[r] \in Held, created' \subseteq Runs, notices' \subseteq [by : Runs, art : tickets]
  PROVE  Inv'
<1> DEFINE to == <<how, "none">>
<1>1. to \in Ended /\ to \notin HasArt /\ to \notin HasQe
  BY DEF Ended, HasArt, HasQe
<1>2. pc'[r] = to
  BY DEF Inv, TypeOK, Quiet
<1>3. \A p \in Projects : ~MayCreate(r, p)'
  BY <1>2 DEF MayCreate
<1> QED
  BY <1>1, <1>3, QuietInv

\* A run that goes on without a request is quiet.
LEMMA GoOnInv ==
  ASSUME Inv, NEW r \in Runs, NEW p \in Projects, NEW l \in Links, NEW to \in Held, Quiet(r, to),
         UNCHANGED <<created, notices>>,
         \/ pc[r] = <<"locked", "none">> /\ to = <<"label", "ART">>
         \/ pc[r] = <<"similar", "ART">> /\ to = <<"similar", "QE">>
         \/ pc[r] = <<"similar", "QE">> /\ to = <<"create", "ART">>
         \/ pc[r] = <<"create", "ART">> /\ to = <<"create", "QE">> /\ key[r]["ART"] # Nobody
         \/ pc[r] = <<"create", "QE">> /\ to = <<"link", "Related">> /\ key[r]["QE"] # Nobody
         \/ pc[r] \in {<<"link", l>>, <<"verify", l>>} /\ to \in {<<"link", "Cloners">>, <<"slack", "none">>}
  PROVE  Inv'
<1>1. pc'[r] = to /\ key' = key /\ created \subseteq Runs /\ notices \subseteq [by : Runs, art : tickets]
  BY DEF Inv, TypeOK, Quiet, args
<1>2. pc[r] \in Held /\ pc[r] \notin {"wait"} \X (Projects \cup Links)
  BY DEF Held, Phases, Projects, Links
<1>3. (to \in HasArt => key[r]["ART"] # Nobody) /\ (to \in HasQe => key[r]["QE"] # Nobody)
  BY DEF Inv, KeysKnown, HasArt, HasQe, Links, Projects
<1>4. \A x \in Projects : MayCreate(r, x)' => MayCreate(r, x)
  BY <1>1 DEF MayCreate, Projects
<1> QED
  BY <1>1, <1>2, <1>3, <1>4, QuietInv

LEMMA NextInv == Inv /\ [Next]_vars => Inv'
<1> SUFFICES ASSUME Inv, [Next]_vars PROVE Inv'
  OBVIOUS
<1> USE DEF args, jira
<1>1. /\ created \subseteq Runs /\ notices \subseteq [by : Runs, art : tickets]
      /\ key \in [Runs -> [Projects -> tickets \cup {Nobody}]]
      /\ wire \subseteq [by : Runs, what : Projects \cup Links]
  BY DEF Inv, TypeOK
<1>2. ASSUME NEW r \in Runs, RunStep(r) PROVE Inv'
  <2>1. CASE Acquire(r) \/ LockIsTaken(r)
    BY <2>1, StartInv
  <2>2. CASE InstallTrap(r)
    <3>1. <<"label", "ART">> \in Held
      BY DEF Held, Phases, Projects
    <3> QED
      BY <2>2, <3>1, GoOnInv DEF InstallTrap, Goto, Quiet, Projects, Links
  <2>3. CASE Dies(r)
    BY <1>1, <2>3, EndInv DEF Dies, Fails, Goto, Quiet, Ended
  <2>4. CASE Killed(r)
    BY <1>1, <2>4, EndInv DEF Killed, Goto, Quiet
  <2>5. ASSUME NEW p \in Projects, FindByLabel(r, p) PROVE Inv'
    BY <2>5, FindByLabelInv
  <2>6. ASSUME NEW p \in Projects, FindSimilar(r, p) PROVE Inv'
    <3>1. pc[r] \in Held /\ <<"similar", "QE">> \in Held /\ <<"create", "ART">> \in Held
      BY <2>6 DEF FindSimilar, Held, Phases, Projects
    <3>2. CASE Fails(r)
      BY <1>1, <2>6, <3>1, <3>2, EndInv DEF FindSimilar, Fails, Goto, Quiet, Ended
    <3>3. CASE AfterSimilar(r, p) /\ UNCHANGED lock
      BY <2>6, <3>1, <3>3, GoOnInv DEF FindSimilar, AfterSimilar, Goto, Quiet, Projects, Links
    <3> QED
      BY <2>6, <3>2, <3>3 DEF FindSimilar
  <2>7. ASSUME NEW p \in Projects, Reuse(r, p) PROVE Inv'
    <3>1. <<"create", "QE">> \in Held /\ <<"link", "Related">> \in Held
      BY DEF Held, Phases, Projects, Links
    <3> QED
      BY <2>7, <3>1, GoOnInv DEF Reuse, AfterTicket, Goto, Quiet, Projects, Links
  <2>8. ASSUME NEW p \in Projects, Create(r, p) PROVE Inv'
    BY <2>8, PostInv DEF Create
  <2>9. ASSUME NEW l \in Links, AlreadyLinked(r, l) \/ Verify(r, l) PROVE Inv'
    <3>1. /\ pc[r] \in {<<"link", l>>, <<"verify", l>>} /\ pc[r] \in Held
          /\ <<"link", "Cloners">> \in Held /\ <<"slack", "none">> \in Held
      BY <2>9 DEF AlreadyLinked, Verify, Held, Phases, Links
    <3>2. CASE Fails(r) /\ UNCHANGED <<args, key, created, jira>>
      BY <1>1, <3>1, <3>2, EndInv DEF Fails, Goto, Quiet, Ended
    <3>3. CASE AfterLink(r, l) /\ UNCHANGED <<args, key, created, lock, jira>>
      BY <3>1, <3>3, GoOnInv DEF AfterLink, Goto, Quiet, Projects
    <3> QED
      BY <2>9, <3>2, <3>3 DEF AlreadyLinked, Verify
  <2>10. ASSUME NEW l \in Links, Link(r, l) PROVE Inv'
    BY <2>10, PostInv DEF Link
  <2>11. ASSUME NEW delivered \in BOOLEAN, NEW ok \in BOOLEAN, Slack(r, delivered, ok) PROVE Inv'
    <3>1. pc[r] = <<"slack", "none">> /\ pc[r] \in Held /\ pc[r] \in HasArt
      BY <2>11 DEF Slack, Held, HasArt, HasQe
    <3>2. key[r]["ART"] \in tickets
      BY <1>1, <3>1 DEF Inv, KeysKnown, Projects
    <3>3. notices' \subseteq [by : Runs, art : tickets]
      BY <1>1, <2>11, <3>2 DEF Slack
    <3> QED
      BY <1>1, <2>11, <3>1, <3>3, EndInv DEF Slack, Goto, Quiet, Ended
  <2>12. CASE NoSlack(r)
    BY <1>1, <2>12, EndInv DEF NoSlack, Goto, Quiet, Ended, Held
  <2> QED
    BY <1>2, <2>1, <2>2, <2>3, <2>4, <2>5, <2>6, <2>7, <2>8, <2>9, <2>10, <2>11, <2>12 DEF RunStep
<1>3. ASSUME NEW q \in wire, JiraStep(q) PROVE Inv'
  <2>1. CASE Lose(q)
    BY <2>1, AnsweredInv DEF Lose
  <2>2. ASSUME NEW answered \in BOOLEAN, ServeCreate(q, answered) PROVE Inv'
    BY <2>2, ServeCreateInv
  <2>3. ASSUME NEW stored \in BOOLEAN, NEW answered \in BOOLEAN, ServeLink(q, stored, answered) PROVE Inv'
    BY <2>3, AnsweredInv DEF ServeLink, Goto
  <2> QED
    BY <1>3, <2>1, <2>2, <2>3 DEF JiraStep
<1>4. CASE UNCHANGED vars
  BY <1>4 DEF vars, Inv, TypeOK, KeysKnown, OnTheWire, OneRequest, Alone, NoneYet, OneTicketPerHost,
    MayCreate, Clash
<1> QED
  BY <1>2, <1>3, <1>4, RemoveStaleLockInv DEF Next

\* Whoever is past mkdir holds the lock of its host, whatever is killed and
\* however stale locks are removed.
THEOREM LockHeld == Spec => []TypeOK
<1>1. Spec => []Inv
  BY InitInv, NextInv, PTL DEF Spec
<1>2. Inv => TypeOK
  BY DEF Inv
<1> QED
  BY <1>1, <1>2, PTL

\* No two runs of one host make two tickets of one project, and none is made
\* beside a labelled ticket that was there before.
THEOREM OneTicketPerHostHolds == Spec => []OneTicketPerHost
<1>1. Spec => []Inv
  BY InitInv, NextInv, PTL DEF Spec
<1>2. Inv => OneTicketPerHost
  BY DEF Inv
<1> QED
  BY <1>1, <1>2, PTL
(***************************************************************************)
(* The link invariant: a run past a link has it.  Links are only added,    *)
(* and a run past its first link keeps its tickets.                        *)
(***************************************************************************)
PastRelated == {<<"link", "Cloners">>, <<"wait", "Cloners">>,
                <<"verify", "Cloners">>, <<"slack", "none">>,
                <<"done", "none">>}
PastClones  == {<<"slack", "none">>, <<"done", "none">>}

LinksMade ==
  \A r \in Runs :
    /\ pc[r] \in PastRelated => LinksToOther(r, "Related")
    /\ pc[r] \in PastClones => LinksToOther(r, "Cloners")

LEMMA LinksMadeInit == Init => LinksMade
  BY DEF Init, LinksMade, PastRelated, PastClones

\* A step of run r: links are added, the other runs keep their tickets, and
\* r gets past a link only with the link there.
LEMMA LinksMadeByRun ==
  ASSUME pc \in [Runs -> Held \cup Ended \cup {<<"new", "none">>}],
         LinksMade, NEW r \in Runs, NEW to, pc' = [pc EXCEPT ![r] = to],
         links \subseteq links',
         \A s \in Runs \ {r} : key'[s] = key[s],
         to \in PastRelated =>
           key'[r] = key[r] /\ (pc[r] \in PastRelated \/ LinksToOther(r, "Related")),
         to \in PastClones =>
           pc[r] \in PastClones \/ LinksToOther(r, "Cloners")
  PROVE  LinksMade'
<1> SUFFICES ASSUME NEW s \in Runs
             PROVE  /\ pc'[s] \in PastRelated => LinksToOther(s, "Related")'
                    /\ pc'[s] \in PastClones => LinksToOther(s, "Cloners")'
  BY DEF LinksMade, PastRelated, PastClones
<1>1. ASSUME key'[s] = key[s], NEW l \in Links, LinksToOther(s, l)
      PROVE  LinksToOther(s, l)'
  BY <1>1 DEF LinksToOther, Other
<1>2. CASE s # r
  BY <1>1, <1>2 DEF LinksMade, Links
<1>3. CASE s = r
  BY <1>1, <1>3 DEF LinksMade, Links, PastRelated, PastClones
<1> QED
  BY <1>2, <1>3

LEMMA LinksMadeStep == TypeOK /\ LinksMade /\ [Next]_vars => LinksMade'
<1> SUFFICES ASSUME TypeOK, LinksMade, [Next]_vars PROVE LinksMade'
  OBVIOUS
<1> USE DEF args, jira, Goto
<1>1. /\ pc \in [Runs -> Held \cup Ended \cup {<<"new", "none">>}]
      /\ key \in [Runs -> [Projects -> tickets \cup {Nobody}]]
      /\ wire \subseteq [by : Runs, what : Projects \cup Links]
  BY DEF TypeOK
<1>2. ASSUME UNCHANGED <<pc, key>>, links \subseteq links' PROVE LinksMade'
  BY <1>2 DEF LinksMade, LinksToOther, Other
<1>3. ASSUME NEW r \in Runs, RunStep(r) PROVE LinksMade'
  <2>1. ASSUME NEW to, pc' = [pc EXCEPT ![r] = to], links' = links,
               \A s \in Runs \ {r} : key'[s] = key[s],
               to \notin PastRelated
        PROVE  LinksMade'
    BY <1>1, <2>1, LinksMadeByRun DEF PastRelated, PastClones
  <2>2. ASSUME NEW p \in Projects, FindByLabel(r, p) PROVE LinksMade'
    <3>1. \A s \in Runs \ {r} : key'[s] = key[s]
      BY <1>1, <2>2 DEF FindByLabel
    <3>2. links' = links
      BY <2>2 DEF FindByLabel
    <3>3. \/ pc' = [pc EXCEPT ![r] = <<"failed", "none">>]
          \/ pc' = [pc EXCEPT ![r] = <<"label", "QE">>]
          \/ pc' = [pc EXCEPT ![r] = <<"similar", "ART">>]
      BY <2>2 DEF FindByLabel, Fails, AfterLabel
    <3> QED
      BY <2>1, <3>1, <3>2, <3>3 DEF PastRelated
  <2>3. CASE \/ Acquire(r) \/ LockIsTaken(r) \/ InstallTrap(r) \/ Dies(r)
             \/ Killed(r) \/ \E p \in Projects : FindSimilar(r, p) \/ Reuse(r, p) \/ Create(r, p)
    <3>1. UNCHANGED <<key, links>>
      BY <2>3 DEF Acquire, LockIsTaken, InstallTrap, Dies, Killed, FindSimilar,
         Reuse, Create, Post
    <3>2. \E to \in {<<"locked", "none">>, <<"failed", "none">>, <<"label", "ART">>,
                     <<"killed", "none">>, <<"similar", "QE">>, <<"create", "ART">>,
                     <<"create", "QE">>, <<"link", "Related">>, <<"wait", "ART">>,
                     <<"wait", "QE">>} :
            pc' = [pc EXCEPT ![r] = to]
      BY <2>3 DEF Acquire, LockIsTaken, InstallTrap, Dies, Killed, FindSimilar,
         Reuse, Create, Post, Fails, AfterSimilar, AfterTicket, Projects
    <3> QED
      BY <2>1, <3>1, <3>2 DEF PastRelated
  <2>4. ASSUME NEW l \in Links, Link(r, l) PROVE LinksMade'
    <3>1. /\ pc[r] = <<"link", l>> /\ UNCHANGED <<key, links>>
          /\ pc' = [pc EXCEPT ![r] = <<"wait", l>>]
      BY <2>4 DEF Link, Post
    <3> QED
      BY <1>1, <3>1, LinksMadeByRun DEF PastRelated, PastClones, Links
  <2>5. ASSUME NEW l \in Links, AlreadyLinked(r, l) \/ Verify(r, l)
        PROVE  LinksMade'
    <3>1. pc[r] \in {<<"link", l>>, <<"verify", l>>} /\ UNCHANGED <<key, links>>
      BY <2>5 DEF AlreadyLinked, Verify
    <3>2. CASE Fails(r)
      BY <2>1, <3>1, <3>2 DEF Fails, PastRelated
    <3>3. CASE LinksToOther(r, l) /\ AfterLink(r, l)
      <4>1. CASE l = "Related"
        <5>1. pc' = [pc EXCEPT ![r] = <<"link", "Cloners">>]
          BY <3>3, <4>1 DEF AfterLink
        <5> QED
          BY <1>1, <3>1, <3>3, <4>1, <5>1, LinksMadeByRun DEF PastRelated, PastClones
      <4>2. CASE l = "Cloners"
        <5>1. pc' = [pc EXCEPT ![r] = <<"slack", "none">>]
          BY <3>3, <4>2 DEF AfterLink
        <5> QED
          BY <1>1, <3>1, <3>3, <4>2, <5>1, LinksMadeByRun DEF PastRelated, PastClones
      <4> QED
        BY <4>1, <4>2 DEF Links
    <3> QED
      BY <2>5, <3>2, <3>3 DEF AlreadyLinked, Verify
  <2>6. CASE (\E delivered, ok \in BOOLEAN : Slack(r, delivered, ok)) \/ NoSlack(r)
    <3>1. pc[r] = <<"slack", "none">> /\ UNCHANGED <<key, links>>
      BY <2>6 DEF Slack, NoSlack
    <3>2. \E to \in {<<"done", "none">>, <<"failed", "none">>} :
            pc' = [pc EXCEPT ![r] = to]
      BY <2>6 DEF Slack, NoSlack
    <3> QED
      BY <1>1, <3>1, <3>2, LinksMadeByRun DEF PastRelated, PastClones
  <2> QED
    BY <1>3, <2>2, <2>3, <2>4, <2>5, <2>6 DEF RunStep
<1>4. ASSUME NEW q \in wire, JiraStep(q) PROVE LinksMade'
  <2>1. q.by \in Runs
    BY <1>1
  <2>2. CASE Lose(q)
    BY <1>2, <2>2 DEF Lose
  <2>3. ASSUME NEW answered \in BOOLEAN, ServeCreate(q, answered) PROVE LinksMade'
    <3>1. CASE UNCHANGED <<pc, key>>
      BY <1>2, <2>3, <3>1 DEF ServeCreate
    <3>2. CASE AfterTicket(q.by, q.what)
              /\ key' = [key EXCEPT ![q.by][q.what] = NewTicket(q)]
      <4>1. \E to \in {<<"create", "QE">>, <<"link", "Related">>} :
              pc' = [pc EXCEPT ![q.by] = to]
        BY <3>2 DEF AfterTicket
      <4>2. links' = links /\ \A s \in Runs \ {q.by} : key'[s] = key[s]
        BY <1>1, <2>1, <2>3, <3>2 DEF ServeCreate
      <4> QED
        BY <1>1, <2>1, <4>1, <4>2, LinksMadeByRun DEF PastRelated, PastClones
    <3> QED
      BY <2>3, <3>1, <3>2 DEF ServeCreate
  <2>4. ASSUME NEW stored \in BOOLEAN, NEW answered \in BOOLEAN,
               ServeLink(q, stored, answered)
        PROVE  LinksMade'
    <3>1. links \subseteq links' /\ key' = key /\ q.what \in Links
      BY <2>4 DEF ServeLink
    <3>2. CASE UNCHANGED pc
      BY <1>2, <3>1, <3>2
    <3>3. CASE pc[q.by] = <<"wait", q.what>>
              /\ pc' = [pc EXCEPT ![q.by] = <<"verify", q.what>>]
      BY <1>1, <2>1, <3>1, <3>3, LinksMadeByRun DEF PastRelated, PastClones, Links
    <3> QED
      BY <2>4, <3>2, <3>3 DEF ServeLink
  <2> QED
    BY <1>4, <2>2, <2>3, <2>4 DEF JiraStep
<1>5. ASSUME NEW h \in Hosts, RemoveStaleLock(h) PROVE LinksMade'
  BY <1>2, <1>5 DEF RemoveStaleLock
<1>6. CASE UNCHANGED vars
  BY <1>2, <1>6 DEF vars
<1> QED
  BY <1>3, <1>4, <1>5, <1>6 DEF Next

\* A run that tells Slack or ends well has its QE ticket linked to its ART
\* ticket and cloning the template, in the right direction.
THEOREM LinkedBeforeToldHolds == Spec => []LinkedBeforeTold
<1>1. Spec => [](TypeOK /\ LinksMade)
  BY LockHeld, LinksMadeInit, LinksMadeStep, PTL DEF Spec
<1>2. LinksMade => LinkedBeforeTold
  BY DEF LinksMade, LinkedBeforeTold, LinksToOther, Other, PastRelated, PastClones
<1> QED
  BY <1>1, <1>2, PTL
=============================================================================
