---------------------------- MODULE FamilyProofs ----------------------------
(***************************************************************************)
(* Family implements LinkConsent, for any number of threads, members and   *)
(* links, and its types are correct.                                       *)
(*                                                                         *)
(* The refinement alone is not inductive: when approve's UPDATE takes      *)
(* effect, LinkConsent wants to see a press of that link at the handler's  *)
(* `now`, which the table does not remember.  Under says what each label   *)
(* of a handler knows of its link; Backed says what an approved row keeps  *)
(* of the press behind it.                                                 *)
(***************************************************************************)
EXTENDS Family, FiniteSetTheorems, TLAPS

Pressed(id, t) == [id |-> id, by |-> links[id].to, at |-> t]

\* What a handler at its label knows.
Under(w) ==
  /\ job[w].pc = "request_insert" =>
       /\ job[w].from \in Members /\ job[w].to \in Members
       /\ job[w].from # job[w].to
  /\ job[w].pc \in {"approve_update", "revoke_update", "look", "tell"} =>
       job[w].id \in DOMAIN links
  /\ job[w].pc = "approve_update" =>
       /\ Pressed(job[w].id, job[w].now) \in presses
       /\ job[w].now <= links[job[w].id].exp
  /\ job[w].pc \in {"look", "tell"} => job[w].kind \in Status

\* What an approved row keeps of its approval.
Backed(i) ==
  links[i].status = "approved" =>
    \E t \in 0..clock : /\ Pressed(i, t) \in presses
                        /\ links[i].usable = t + Cooldown
                        /\ t <= links[i].exp

FamilyInv ==
  /\ TypeOK
  /\ Len(links) <= MaxLinks
  /\ \A w \in Workers : Under(w)
  /\ \A i \in DOMAIN links : Backed(i)

LEMMA InitInv == Init => FamilyInv
<1> SUFFICES ASSUME Init PROVE FamilyInv
  OBVIOUS
<1> USE FamilyAssumption DEF Init
<1>1. links \in Seq(Row) /\ Len(links) = 0 /\ DOMAIN links = {}
  OBVIOUS
<1>2. Idle \in Locals(Len(links), clock)
  BY <1>1 DEF Idle, Locals, Label
<1>3. TypeOK
  BY <1>1, <1>2 DEF TypeOK
<1>4. \A w \in Workers : Under(w)
  BY DEF Under, Idle
<1> QED BY <1>1, <1>3, <1>4 DEF FamilyInv

\* Replacing one handler's locals, the rest unchanged, keeps the invariant
\* when the new locals are right.
LEMMA JobStep ==
  ASSUME FamilyInv, NEW w \in Workers, NEW j \in Locals(Len(links), clock),
         job' = [job EXCEPT ![w] = j], Under(w)',
         UNCHANGED <<clock, links, died>>,
         notes' \subseteq [who : Members, kind : Status, id : DOMAIN links],
         presses' \subseteq [id : DOMAIN links, by : Members, at : 0..clock],
         presses \subseteq presses'
  PROVE  FamilyInv'
<1> USE DEF FamilyInv
<1>1. TypeOK'
  BY DEF TypeOK
<1>2. ASSUME NEW v \in Workers PROVE Under(v)'
  <2>1. CASE v = w
    BY <2>1
  <2>2. CASE v # w
    <3>1. job'[v] = job[v]
      BY <2>2 DEF TypeOK
    <3> QED BY <3>1 DEF Under, Pressed
  <2> QED BY <2>1, <2>2
<1>3. ASSUME NEW i \in DOMAIN links' PROVE Backed(i)'
  BY DEF Backed, Pressed
<1> QED BY <1>1, <1>2, <1>3

-----------------------------------------------------------------------------
(* One lemma per action.                                                   *)

LEMMA IdleFits == FamilyInv => Idle \in Locals(Len(links), clock)
BY DEF FamilyInv, TypeOK, Idle, Locals, Label

LEMMA RowFacts ==
  FamilyInv => \A i \in DOMAIN links :
    /\ links[i] \in Row
    /\ links[i].from \in Members /\ links[i].to \in Members
    /\ links[i].status \in Status
    /\ links[i].created \in Nat /\ links[i].exp \in Nat /\ links[i].usable \in Nat
<1> SUFFICES ASSUME FamilyInv, NEW i \in DOMAIN links
             PROVE  links[i] \in Row
  BY DEF Row
<1>1. links \in Seq(Row)
  BY DEF FamilyInv, TypeOK
<1> QED BY <1>1

\* The constructors of a handler's locals.
LEMMA LocalsFit ==
  ASSUME FamilyInv, NEW pc \in Label, NEW from \in Members \cup {NONE},
         NEW to \in Members \cup {NONE}, NEW id \in 0..Len(links)
  PROVE  Begun(pc, from, to, id) \in Locals(Len(links), clock)
<1>1. clock \in 0..clock /\ 0 \in 0..Len(links)
  BY DEF FamilyInv, TypeOK
<1> QED BY <1>1 DEF Begun, Locals

LEMMA RequestCheckInv ==
  ASSUME FamilyInv, NEW w \in Workers, NEW from \in Members, NEW to \in Members,
         RequestCheck(w, from, to)
  PROVE  FamilyInv'
<1> DEFINE j == Begun("request_insert", from, to, 0)
<1>1. j \in Locals(Len(links), clock)
  <2>1. 0 \in 0..Len(links) /\ "request_insert" \in Label
    BY DEF FamilyInv, TypeOK, Label
  <2> QED BY <2>1, LocalsFit
<1>2. job' = [job EXCEPT ![w] = j] /\ UNCHANGED <<clock, links, notes, presses, died>>
  BY DEF RequestCheck
<1>3. from # to
  BY DEF RequestCheck
<1>4. Under(w)'
  BY <1>2, <1>3 DEF Under, Begun, FamilyInv, TypeOK
<1> QED BY <1>1, <1>2, <1>4, JobStep DEF FamilyInv, TypeOK

LEMMA ReachedFits ==
  ASSUME FamilyInv, NEW id \in DOMAIN links, NEW label \in Label
  PROVE  Reached(label, id) \in Locals(Len(links), clock)
<1>1. id \in 0..Len(links)
  BY DEF FamilyInv, TypeOK
<1> QED BY <1>1, LocalsFit DEF Reached

LEMMA ApproveGetInv ==
  ASSUME FamilyInv, NEW w \in Workers, NEW id \in DOMAIN links,
         NEW actor \in Members, ApproveGet(w, id, actor)
  PROVE  FamilyInv'
<1>1. Reached("approve_update", id) \in Locals(Len(links), clock)
  BY ReachedFits DEF Label
<1>2. /\ job' = [job EXCEPT ![w] = Reached("approve_update", id)]
      /\ presses' = presses \cup {Pressed(id, clock)}
      /\ clock <= links[id].exp
      /\ UNCHANGED <<clock, links, notes, died>>
  BY DEF ApproveGet, Pressed
<1>3. Pressed(id, clock) \in [id : DOMAIN links, by : Members, at : 0..clock]
  <2>1. clock \in 0..clock
    BY DEF FamilyInv, TypeOK
  <2> QED BY <2>1, RowFacts DEF Pressed
<1>4. job'[w] = Reached("approve_update", id)
  BY <1>2 DEF FamilyInv, TypeOK
<1>5. Under(w)'
  <2>1. job'[w].pc = "approve_update" /\ job'[w].id = id /\ job'[w].now = clock
    BY <1>4 DEF Reached, Begun
  <2> QED BY <1>2, <2>1 DEF Under, Pressed
<1> QED BY <1>1, <1>2, <1>3, <1>5, JobStep DEF FamilyInv, TypeOK

LEMMA RevokeGetInv ==
  ASSUME FamilyInv, NEW w \in Workers, NEW id \in DOMAIN links,
         NEW actor \in Members, RevokeGet(w, id, actor)
  PROVE  FamilyInv'
<1>1. Reached("revoke_update", id) \in Locals(Len(links), clock)
  BY ReachedFits DEF Label
<1>2. /\ job' = [job EXCEPT ![w] = Reached("revoke_update", id)]
      /\ UNCHANGED <<clock, links, notes, presses, died>>
  BY DEF RevokeGet
<1>3. job'[w] = Reached("revoke_update", id)
  BY <1>2 DEF FamilyInv, TypeOK
<1>4. Under(w)'
  <2>1. job'[w].pc = "revoke_update" /\ job'[w].id = id
    BY <1>3 DEF Reached, Begun
  <2> QED BY <1>2, <2>1 DEF Under
<1> QED BY <1>1, <1>2, <1>4, JobStep DEF FamilyInv, TypeOK

LEMMA LookInv ==
  ASSUME FamilyInv, NEW w \in Workers, Look(w)
  PROVE  FamilyInv'
<1> DEFINE to == Parties(job[w].id) \cup UNION {Neighborhood(m) : m \in Parties(job[w].id)}
           j  == [job[w] EXCEPT !.pc = "tell", !.tell = to]
<1> USE DEF FamilyInv, TypeOK
<1>1. \A i \in DOMAIN links : Parties(i) \subseteq Members
  BY RowFacts DEF Parties
<1>2. to \subseteq Members
  <2>1. \A m : Neighborhood(m) \subseteq Members
    BY <1>1 DEF Neighborhood, ActiveLinks
  <2>2. job[w].id \in DOMAIN links
    BY DEF Look, Under
  <2> QED BY <1>1, <2>1, <2>2
<1>3. job[w] \in Locals(Len(links), clock)
  OBVIOUS
<1>4. j \in Locals(Len(links), clock)
  BY <1>2, <1>3 DEF Locals, Label
<1>5. job' = [job EXCEPT ![w] = j] /\ UNCHANGED <<clock, links, notes, presses, died>>
  BY <1>3 DEF Look, Locals
<1>6. job'[w] = j
  BY <1>5
<1>7. Under(w)'
  BY <1>3, <1>5, <1>6 DEF Under, Look, Locals
<1> QED BY <1>4, <1>5, <1>7, JobStep

LEMMA TellInv ==
  ASSUME FamilyInv, NEW w \in Workers, Tell(w)
  PROVE  FamilyInv'
<1> USE DEF FamilyInv, TypeOK
<1>1. job' = [job EXCEPT ![w] = Idle] /\ UNCHANGED <<clock, links, presses, died>>
  BY DEF Tell
<1>2. notes' \subseteq [who : Members, kind : Status, id : DOMAIN links]
  <2>1. job[w].tell \subseteq Members /\ job[w].kind \in Status /\ job[w].id \in DOMAIN links
    BY DEF Under, Tell, Locals
  <2> QED BY <2>1 DEF Tell, Notes
<1>3. job'[w] = Idle
  BY <1>1
<1>4. Under(w)'
  BY <1>3 DEF Under, Idle
<1> QED BY <1>1, <1>2, <1>4, IdleFits, JobStep

\* A write to the table that keeps the rows' parties and expiry.
LEMMA TableStep ==
  ASSUME FamilyInv, NEW w \in Workers, NEW j \in Locals(Len(links'), clock),
         job' = [job EXCEPT ![w] = j], Under(w)',
         UNCHANGED <<clock, notes, presses, died>>,
         links' \in Seq(Row), Len(links) <= Len(links'), Len(links') <= MaxLinks,
         \A i \in DOMAIN links : links'[i].to = links[i].to /\ links'[i].exp = links[i].exp,
         \A i \in DOMAIN links' : Backed(i)'
  PROVE  FamilyInv'
<1> USE DEF FamilyInv
<1>1. DOMAIN links \subseteq DOMAIN links' /\ 0..Len(links) \subseteq 0..Len(links')
  BY DEF TypeOK
<1>2. Locals(Len(links), clock) \subseteq Locals(Len(links'), clock)
  BY <1>1 DEF Locals
<1>3. TypeOK'
  <2>1. job' \in [Workers -> Locals(Len(links'), clock)]
    BY <1>2 DEF TypeOK
  <2> QED BY <1>1, <2>1 DEF TypeOK
<1>4. ASSUME NEW v \in Workers PROVE Under(v)'
  <2>1. CASE v = w
    BY <2>1
  <2>2. CASE v # w
    <3>1. job'[v] = job[v]
      BY <2>2 DEF TypeOK
    <3>2. Under(v) /\ presses' = presses
      OBVIOUS
    <3>3. job[v].pc = "approve_update" =>
            /\ job[v].id \in DOMAIN links
            /\ Pressed(job[v].id, job[v].now)' = Pressed(job[v].id, job[v].now)
      BY <3>1, <3>2 DEF Under, Pressed
    <3>4. (job[v].pc = "approve_update" =>
             /\ Pressed(job[v].id, job[v].now) \in presses
             /\ job[v].now <= links[job[v].id].exp)'
      BY <3>1, <3>2, <3>3 DEF Under
    <3>5. job'[v].pc \in {"approve_update", "revoke_update", "look", "tell"} =>
            job'[v].id \in DOMAIN links'
      BY <1>1, <3>1, <3>2 DEF Under
    <3> QED BY <3>1, <3>2, <3>4, <3>5 DEF Under
  <2> QED BY <2>1, <2>2
<1> QED BY <1>3, <1>4

LEMMA RequestInsertInv ==
  ASSUME FamilyInv, NEW w \in Workers, NEW now \in job[w].now..clock, RequestInsert(w, now)
  PROVE  FamilyInv'
<1> USE FamilyAssumption DEF FamilyInv
<1> DEFINE row == LinkRow(job[w].from, job[w].to, clock, now + Ttl)
           j   == Ending("tell", Len(links) + 1, "requested", {job[w].from, job[w].to})
<1>1. /\ links' = Append(links, row) /\ Len(links) < MaxLinks
      /\ job' = [job EXCEPT ![w] = j]
      /\ UNCHANGED <<clock, notes, presses, died>>
  BY DEF RequestInsert
<1>2. job[w].from \in Members /\ job[w].to \in Members /\ now \in 0..clock
  BY DEF TypeOK, Locals, Under, RequestInsert
<1>3. row \in Row
  BY <1>2 DEF LinkRow, Row, Status, TypeOK
<1>4. links' \in Seq(Row) /\ Len(links') = Len(links) + 1
  BY <1>1, <1>3 DEF TypeOK
<1>5. \A i \in DOMAIN links : links'[i] = links[i]
  BY <1>1 DEF TypeOK
<1>6. links'[Len(links')] = row
  BY <1>1, <1>4 DEF TypeOK
<1>7. j \in Locals(Len(links'), clock)
  BY <1>2, <1>4 DEF Ending, Locals, Label, Status, TypeOK
<1>8. Under(w)'
  <2>1. job'[w] = j
    BY <1>1 DEF TypeOK
  <2>2. Len(links) + 1 \in DOMAIN links'
    BY <1>4 DEF TypeOK
  <2> QED BY <2>1, <2>2 DEF Under, Ending, Status
<1>9. ASSUME NEW i \in DOMAIN links' PROVE Backed(i)'
  <2>1. CASE i \in DOMAIN links
    BY <1>1, <1>5, <2>1 DEF Backed, Pressed
  <2>2. CASE i = Len(links')
    BY <1>6, <2>2 DEF Backed, LinkRow
  <2> QED BY <1>4, <2>1, <2>2 DEF TypeOK
<1>10. Len(links) <= Len(links') /\ Len(links') <= MaxLinks
  BY <1>1, <1>4 DEF TypeOK
<1> QED BY <1>1, <1>4, <1>5, <1>7, <1>8, <1>9, <1>10, TableStep

\* Locals of a handler that goes on to tell about a row of the table.
LEMMA EndingFits ==
  ASSUME FamilyInv, NEW id \in DOMAIN links, NEW kind \in Status
  PROVE  Ending("look", id, kind, {}) \in Locals(Len(links), clock)
BY DEF FamilyInv, TypeOK, Ending, Locals, Label

LEMMA ApproveUpdateInv ==
  ASSUME FamilyInv, NEW w \in Workers, ApproveUpdate(w)
  PROVE  FamilyInv'
<1> USE FamilyAssumption DEF FamilyInv
<1> DEFINE id  == job[w].id
           now == job[w].now
           j   == Ending("look", id, "approved", {})
<1>1. /\ id \in DOMAIN links /\ now \in 0..clock
      /\ Pressed(id, now) \in presses /\ now <= links[id].exp
  BY DEF ApproveUpdate, Under, TypeOK, Locals
<1>2. /\ links' = [links EXCEPT ![id] = Approved(links[id], now)]
      /\ job' = [job EXCEPT ![w] = j]
      /\ UNCHANGED <<clock, notes, presses, died>>
  BY DEF ApproveUpdate
<1>3. links[id] \in Row
  BY <1>1, RowFacts
<1>4. /\ Approved(links[id], now) \in Row
      /\ Approved(links[id], now).to = links[id].to
      /\ Approved(links[id], now).exp = links[id].exp
  <2>1. now + Cooldown \in Nat
    BY <1>1 DEF TypeOK
  <2>2. CASE links[id].status = "requested"
    BY <1>3, <2>1, <2>2 DEF Approved, Row, Status
  <2>3. CASE links[id].status # "requested"
    BY <1>3, <2>3 DEF Approved
  <2> QED BY <2>2, <2>3
<1>5. /\ links' \in Seq(Row) /\ Len(links') = Len(links) /\ DOMAIN links' = DOMAIN links
      /\ links'[id] = Approved(links[id], now)
      /\ \A i \in DOMAIN links : i # id => links'[i] = links[i]
  BY <1>1, <1>2, <1>4 DEF TypeOK
<1>6. \A i \in DOMAIN links : links'[i].to = links[i].to /\ links'[i].exp = links[i].exp
  BY <1>4, <1>5
<1>7. ASSUME NEW i \in DOMAIN links' PROVE Backed(i)'
  <2>1. Backed(i)
    BY <1>5
  <2>2. CASE i # id \/ links[id].status # "requested"
    <3>1. links'[i] = links[i]
      BY <1>5, <2>2 DEF Approved
    <3> QED BY <1>2, <2>1, <3>1 DEF Backed, Pressed
  <2>3. CASE i = id /\ links[id].status = "requested"
    <3>1. links'[i].usable = now + Cooldown
      BY <1>3, <1>5, <2>3 DEF Approved, Row
    <3> QED BY <1>1, <1>2, <1>6, <2>3, <3>1 DEF Backed, Pressed
  <2> QED BY <2>2, <2>3
<1>8. j \in Locals(Len(links'), clock)
  BY <1>1, <1>5, EndingFits DEF Status
<1>9. Under(w)'
  <2>1. job'[w] = j
    BY <1>2 DEF TypeOK
  <2> QED BY <1>1, <1>5, <2>1 DEF Under, Ending, Status
<1>10. Len(links) <= Len(links') /\ Len(links') <= MaxLinks
  BY <1>5 DEF TypeOK
<1> QED BY <1>2, <1>5, <1>6, <1>7, <1>8, <1>9, <1>10, TableStep

LEMMA RevokeUpdateInv ==
  ASSUME FamilyInv, NEW w \in Workers, RevokeUpdate(w)
  PROVE  FamilyInv'
<1> USE FamilyAssumption DEF FamilyInv
<1> DEFINE id == job[w].id
           j  == Ending("look", id, "revoked", {})
<1>1. id \in DOMAIN links
  BY DEF RevokeUpdate, Under
<1>2. /\ links' = [links EXCEPT ![id].status = "revoked"]
      /\ job' = [job EXCEPT ![w] = j]
      /\ UNCHANGED <<clock, notes, presses, died>>
  BY DEF RevokeUpdate
<1>3. links[id] \in Row
  BY <1>1, RowFacts
<1>4. /\ links' \in Seq(Row) /\ Len(links') = Len(links) /\ DOMAIN links' = DOMAIN links
      /\ links'[id] = [links[id] EXCEPT !.status = "revoked"]
      /\ \A i \in DOMAIN links : i # id => links'[i] = links[i]
  <2>1. [links[id] EXCEPT !.status = "revoked"] \in Row
    BY <1>3 DEF Row, Status
  <2>2. links' = [links EXCEPT ![id] = [links[id] EXCEPT !.status = "revoked"]]
    BY <1>2
  <2> QED BY <1>1, <2>1, <2>2 DEF TypeOK
<1>5. \A i \in DOMAIN links : links'[i].to = links[i].to /\ links'[i].exp = links[i].exp
  BY <1>3, <1>4 DEF Row
<1>6. ASSUME NEW i \in DOMAIN links' PROVE Backed(i)'
  <2>1. CASE i = id
    BY <1>3, <1>4, <2>1 DEF Backed, Row
  <2>2. CASE i # id
    BY <1>2, <1>4, <2>2 DEF Backed, Pressed
  <2> QED BY <2>1, <2>2
<1>7. j \in Locals(Len(links'), clock)
  BY <1>1, <1>4, EndingFits DEF Status
<1>8. Under(w)'
  <2>1. job'[w] = j
    BY <1>2 DEF TypeOK
  <2> QED BY <1>1, <1>4, <2>1 DEF Under, Ending, Status
<1>9. Len(links) <= Len(links') /\ Len(links') <= MaxLinks
  BY <1>4 DEF TypeOK
<1> QED BY <1>2, <1>4, <1>5, <1>6, <1>7, <1>8, <1>9, TableStep

LEMMA CrashInv ==
  ASSUME FamilyInv, NEW w \in Workers, NEW told, Crash(w, told)
  PROVE  FamilyInv'
<1> USE DEF FamilyInv
<1>1. /\ job' = [job EXCEPT ![w] = Idle] /\ UNCHANGED <<clock, links, presses>>
      /\ died' = died \cup {[id |-> job[w].id, kind |-> job[w].kind]}
      /\ notes' = notes \cup Notes(w, told)
      /\ told \subseteq (IF job[w].pc = "tell" THEN job[w].tell ELSE {})
  BY DEF Crash
<1>2. /\ job[w].id \in 0..Len(links) /\ job[w].tell \subseteq Members
      /\ job[w].kind \in Status \cup {"none"}
  BY DEF TypeOK, Locals
<1>3. Notes(w, told) \subseteq [who : Members, kind : Status, id : DOMAIN links]
  <2>1. CASE job[w].pc = "tell"
    BY <1>1, <1>2, <2>1 DEF Under, Notes
  <2>2. CASE job[w].pc # "tell"
    BY <1>1, <2>2 DEF Notes
  <2> QED BY <2>1, <2>2
<1>4. TypeOK'
  BY <1>1, <1>2, <1>3, IdleFits DEF TypeOK
<1>5. ASSUME NEW v \in Workers PROVE Under(v)'
  <2>1. CASE v = w
    <3>1. job'[v] = Idle
      BY <1>1, <2>1 DEF TypeOK
    <3> QED BY <3>1 DEF Under, Idle
  <2>2. CASE v # w
    <3>1. job'[v] = job[v]
      BY <1>1, <2>2 DEF TypeOK
    <3> QED BY <1>1, <3>1 DEF Under, Pressed
  <2> QED BY <2>1, <2>2
<1>6. ASSUME NEW i \in DOMAIN links' PROVE Backed(i)'
  BY <1>1 DEF Backed, Pressed
<1> QED BY <1>1, <1>4, <1>5, <1>6

LEMMA TickInv == FamilyInv /\ Tick => FamilyInv'
<1> SUFFICES ASSUME FamilyInv, Tick PROVE FamilyInv'
  OBVIOUS
<1> USE DEF FamilyInv, Tick
<1>1. 0..clock \subseteq 0..clock'
  BY DEF TypeOK
<1>2. Locals(Len(links), clock) \subseteq Locals(Len(links'), clock')
  BY <1>1 DEF Locals
<1>3. TypeOK'
  <2>1. job' \in [Workers -> Locals(Len(links'), clock')]
    BY <1>2 DEF TypeOK
  <2>2. presses' \subseteq [id : DOMAIN links', by : Members, at : 0..clock']
    BY <1>1 DEF TypeOK
  <2> QED BY <2>1, <2>2 DEF TypeOK
<1>4. ASSUME NEW v \in Workers PROVE Under(v)'
  BY DEF Under, Pressed
<1>5. ASSUME NEW i \in DOMAIN links' PROVE Backed(i)'
  BY <1>1 DEF Backed, Pressed
<1> QED BY <1>3, <1>4, <1>5

LEMMA StutterInv == FamilyInv /\ UNCHANGED vars => FamilyInv'
<1> SUFFICES ASSUME FamilyInv, UNCHANGED vars PROVE FamilyInv'
  OBVIOUS
<1> USE DEF vars, FamilyInv
<1>1. TypeOK'
  BY DEF TypeOK
<1>2. \A w \in Workers : Under(w)'
  BY DEF Under, Pressed
<1>3. \A i \in DOMAIN links' : Backed(i)'
  BY DEF Backed, Pressed
<1> QED BY <1>1, <1>2, <1>3

LEMMA NextInv == FamilyInv /\ [Next]_vars => FamilyInv'
<1> SUFFICES ASSUME FamilyInv, [Next]_vars PROVE FamilyInv'
  OBVIOUS
<1>1. ASSUME NEW w \in Workers, NEW from \in Members, NEW to \in Members,
             RequestCheck(w, from, to)
      PROVE  FamilyInv'
  BY <1>1, RequestCheckInv
<1>2. ASSUME NEW w \in Workers, NEW id \in DOMAIN links, NEW actor \in Members,
             ApproveGet(w, id, actor) \/ RevokeGet(w, id, actor)
      PROVE  FamilyInv'
  BY <1>2, ApproveGetInv, RevokeGetInv
<1>3. ASSUME NEW w \in Workers, Continue(w) PROVE FamilyInv'
  BY <1>3, RequestInsertInv, ApproveUpdateInv, RevokeUpdateInv, LookInv, TellInv DEF Continue
<1>4. ASSUME NEW w \in Workers, NEW told \in SUBSET job[w].tell, Crash(w, told)
      PROVE  FamilyInv'
  BY <1>4, CrashInv
<1>5. CASE Tick
  BY <1>5, TickInv
<1>6. CASE UNCHANGED vars
  BY <1>6, StutterInv
<1> QED BY <1>1, <1>2, <1>3, <1>4, <1>5, <1>6 DEF Next

\* The table and the handlers keep their shape, and an approved row keeps the
\* press it rests on.
THEOREM FamilyInvariant == Spec => []FamilyInv
BY InitInv, NextInv, PTL DEF Spec

\* Every row, note and local has its type in every reachable state.
THEOREM FamilyTypes == Spec => []TypeOK
<1>1. FamilyInv => TypeOK
  BY DEF FamilyInv
<1> QED BY <1>1, FamilyInvariant, PTL

\* A pair that active_links_for calls linked was approved in time by the
\* target, at least a cooldown before, whatever handlers interleave or die.
THEOREM UsableIsApproved == Spec => []UsableAfterCooldown
<1>1. FamilyInv => UsableAfterCooldown
  <2> SUFFICES ASSUME FamilyInv, NEW m \in Members, NEW i \in ActiveLinks(m)
               PROVE  \E p \in presses : /\ p.id = i /\ p.by = links[i].to
                                         /\ p.at + Cooldown <= clock
                                         /\ p.at <= links[i].exp
    BY DEF UsableAfterCooldown
  <2>1. /\ i \in DOMAIN links /\ links[i].status = "approved"
        /\ links[i].usable <= clock
    BY DEF ActiveLinks
  <2>2. PICK t \in 0..clock : /\ Pressed(i, t) \in presses
                             /\ links[i].usable = t + Cooldown
                             /\ t <= links[i].exp
    BY <2>1 DEF FamilyInv, Backed
  <2> QED BY <2>1, <2>2 DEF Pressed
<1> QED BY <1>1, FamilyInvariant, PTL

-----------------------------------------------------------------------------
(* The refinement.  Asked, Agreed and Gone are what the instance Consent    *)
(* substitutes for LinkConsent's variables.                                 *)

Request(i)  == [id |-> i, from |-> links[i].from, to |-> links[i].to, until |-> links[i].exp]
Contract(i) == [id |-> i, ready |-> links[i].usable]
Asked  == {[id |-> i, from |-> links[i].from, to |-> links[i].to,
            until |-> links[i].exp] : i \in DOMAIN links}
Agreed == {[id |-> i, ready |-> links[i].usable] :
             i \in {j \in DOMAIN links : links[j].status = "approved"}}
Gone   == {i \in DOMAIN links : links[i].status = "revoked"}

LEMMA InitRefines == Init => Consent!CInit
BY DEF Init, Consent!CInit

\* RequestInsert is Ask.
LEMMA InsertAsks ==
  ASSUME FamilyInv, NEW w \in Workers, NEW now \in job[w].now..clock, RequestInsert(w, now)
  PROVE  Consent!CNext
<1> USE FamilyAssumption DEF FamilyInv
<1> DEFINE n   == Len(links) + 1
           row == LinkRow(job[w].from, job[w].to, clock, now + Ttl)
<1>1. /\ links' = Append(links, row) /\ Len(links) < MaxLinks
      /\ UNCHANGED <<clock, presses>>
  BY DEF RequestInsert
<1>2. /\ job[w].from \in Members /\ job[w].to \in Members /\ job[w].from # job[w].to
      /\ now \in 0..clock
  BY DEF TypeOK, Locals, Under, RequestInsert
<1>3. /\ DOMAIN links' = DOMAIN links \cup {n} /\ n \notin DOMAIN links
      /\ links'[n] = row
      /\ \A i \in DOMAIN links : links'[i] = links[i]
  BY <1>1 DEF TypeOK
<1>4. Asked' = Asked \cup {[id |-> n, from |-> job[w].from, to |-> job[w].to,
                           until |-> now + Ttl]}
  BY <1>3 DEF Asked, LinkRow
<1>5. Agreed' = Agreed /\ Gone' = Gone
  BY <1>3 DEF Agreed, Gone, LinkRow
<1>6. \A r \in Asked : r.id # n
  BY <1>3 DEF Asked
<1>7. n \in 1..MaxLinks /\ now + Ttl \in 0..(clock + Ttl)
  BY <1>1, <1>2 DEF TypeOK
<1>8. now + Ttl <= clock + Ttl
  BY <1>7 DEF TypeOK
<1>9. \E i \in 1..MaxLinks, from \in Members, to \in Members, until \in 0..(clock + Ttl) :
        /\ from # to /\ until <= clock + Ttl /\ \A r \in Asked : r.id # i
        /\ Asked' = Asked \cup {[id |-> i, from |-> from, to |-> to, until |-> until]}
        /\ clock' = clock /\ presses' = presses /\ Agreed' = Agreed /\ Gone' = Gone
  BY <1>1, <1>2, <1>4, <1>5, <1>6, <1>7, <1>8
<1> QED BY <1>9 DEF Consent!CNext, Consent!Ask, Asked, Agreed, Gone

\* A row that is still requested is neither agreed nor gone.
LEMMA RequestedIsFresh ==
  ASSUME NEW i \in DOMAIN links, links[i].status = "requested"
  PROVE  Consent!Fresh(i)
BY DEF Consent!Fresh

\* ApproveGet is Press.
LEMMA GetPresses ==
  ASSUME FamilyInv, NEW w \in Workers, NEW id \in DOMAIN links,
         NEW actor \in Members, ApproveGet(w, id, actor)
  PROVE  Consent!CNext
<1>1. /\ links[id].status = "requested" /\ clock <= links[id].exp
      /\ presses' = presses \cup {[id |-> id, by |-> links[id].to, at |-> clock]}
      /\ UNCHANGED <<clock, links>>
  BY DEF ApproveGet
<1>2. Request(id) \in Asked
  BY DEF Request, Asked
<1>3. Consent!Fresh(Request(id).id)
  BY <1>1, RequestedIsFresh DEF Request
<1>4. Consent!Press(Request(id))
  BY <1>1, <1>3 DEF Consent!Press, Request
<1> QED BY <1>2, <1>4 DEF Consent!CNext, Asked

\* approve's UPDATE is Agree, or nothing when the row is no longer requested.
LEMMA UpdateAgrees ==
  ASSUME FamilyInv, NEW w \in Workers, ApproveUpdate(w)
  PROVE  Consent!CNext \/ UNCHANGED <<clock, links, presses>>
<1> USE FamilyAssumption DEF FamilyInv
<1> DEFINE id  == job[w].id
           now == job[w].now
<1>1. id \in DOMAIN links /\ Pressed(id, now) \in presses
  BY DEF ApproveUpdate, Under
<1>2. /\ links' = [links EXCEPT ![id] = Approved(links[id], now)]
      /\ UNCHANGED <<clock, presses>>
  BY DEF ApproveUpdate
<1>3. links[id] \in Row
  BY <1>1, RowFacts
<1>4. CASE links[id].status # "requested"
  <2>1. links' = links
    BY <1>1, <1>2, <1>4 DEF Approved, TypeOK
  <2> QED BY <1>2, <2>1
<1>5. CASE links[id].status = "requested"
  <2>1. /\ DOMAIN links' = DOMAIN links
        /\ links'[id] = Approved(links[id], now)
        /\ \A i \in DOMAIN links : i # id => links'[i] = links[i]
    BY <1>1, <1>2 DEF TypeOK
  <2>2. /\ links'[id].status = "approved" /\ links'[id].usable = now + Cooldown
        /\ links'[id].from = links[id].from /\ links'[id].to = links[id].to
        /\ links'[id].exp = links[id].exp
    BY <1>3, <1>5, <2>1 DEF Approved, Row
  <2>3. Asked' = Asked
    BY <2>1, <2>2 DEF Asked
  <2>4. Gone' = Gone
    BY <1>5, <2>1, <2>2 DEF Gone
  <2>5. Agreed' = Agreed \cup {[id |-> id, ready |-> now + Cooldown]}
    BY <1>1, <1>5, <2>1, <2>2 DEF Agreed
  <2>6. Consent!Fresh(id)
    BY <1>1, <1>5, RequestedIsFresh
  <2>7. Pressed(id, now).id = id /\ Pressed(id, now).at = now
    BY DEF Pressed
  <2>8. /\ Consent!Fresh(Pressed(id, now).id)
        /\ Agreed' = Agreed \cup {[id |-> Pressed(id, now).id,
                                  ready |-> Pressed(id, now).at + Cooldown]}
        /\ clock' = clock /\ Asked' = Asked /\ presses' = presses /\ Gone' = Gone
    BY <1>2, <2>3, <2>4, <2>5, <2>6, <2>7
  <2>9. \E press \in presses :
          /\ Consent!Fresh(press.id)
          /\ Agreed' = Agreed \cup {[id |-> press.id, ready |-> press.at + Cooldown]}
          /\ clock' = clock /\ Asked' = Asked /\ presses' = presses /\ Gone' = Gone
    BY <1>1, <2>8
  <2> QED BY <2>9 DEF Consent!CNext, Consent!Agree, Asked, Agreed, Gone
<1> QED BY <1>4, <1>5

\* revoke's UPDATE is Withdraw.
LEMMA UpdateWithdraws ==
  ASSUME FamilyInv, NEW w \in Workers, RevokeUpdate(w)
  PROVE  Consent!CNext
<1> USE FamilyAssumption DEF FamilyInv
<1> DEFINE id == job[w].id
<1>1. id \in DOMAIN links
  BY DEF RevokeUpdate, Under
<1>2. /\ links' = [links EXCEPT ![id] = [links[id] EXCEPT !.status = "revoked"]]
      /\ UNCHANGED <<clock, presses>>
  BY DEF RevokeUpdate
<1>3. links[id] \in Row
  BY <1>1, RowFacts
<1>4. /\ DOMAIN links' = DOMAIN links
      /\ links'[id] = [links[id] EXCEPT !.status = "revoked"]
      /\ \A i \in DOMAIN links : i # id => links'[i] = links[i]
  BY <1>1, <1>2 DEF TypeOK
<1>5. /\ links'[id].status = "revoked"
      /\ links'[id].from = links[id].from /\ links'[id].to = links[id].to
      /\ links'[id].exp = links[id].exp
  BY <1>3, <1>4 DEF Row
<1>6. \A i \in DOMAIN links :
        /\ links'[i].from = links[i].from /\ links'[i].to = links[i].to
        /\ links'[i].exp = links[i].exp
        /\ i # id => links'[i].status = links[i].status /\ links'[i].usable = links[i].usable
  BY <1>4, <1>5
<1>7. DOMAIN links' = DOMAIN links /\ links'[id].status = "revoked"
  BY <1>4, <1>5
<1>8. Asked' = Asked
  BY <1>6, <1>7 DEF Asked
<1>9. Gone' = Gone \cup {id}
  BY <1>1, <1>6, <1>7 DEF Gone
<1>10. Agreed' = {l \in Agreed : l.id # id}
  BY <1>1, <1>6, <1>7 DEF Agreed
<1>11. Request(id) \in Asked /\ Request(id).id = id
  BY <1>1 DEF Request, Asked
<1>12. \E request \in Asked :
         /\ Gone' = Gone \cup {request.id}
         /\ Agreed' = {l \in Agreed : l.id # request.id}
         /\ clock' = clock /\ Asked' = Asked /\ presses' = presses
  BY <1>2, <1>8, <1>9, <1>10, <1>11
<1> QED BY <1>12 DEF Consent!CNext, Consent!Withdraw, Asked, Agreed, Gone

LEMMA QuietSteps ==
  ASSUME UNCHANGED <<clock, links, presses>>
  PROVE  UNCHANGED Consent!cvars
BY DEF Consent!cvars

\* Every step of Family is a step of LinkConsent or changes nothing it sees.
LEMMA StepRefines == FamilyInv /\ [Next]_vars => [Consent!CNext]_(Consent!cvars)
<1> SUFFICES ASSUME FamilyInv, [Next]_vars
             PROVE  Consent!CNext \/ UNCHANGED Consent!cvars
  OBVIOUS
<1>1. ASSUME NEW w \in Workers, NEW from \in Members, NEW to \in Members,
             RequestCheck(w, from, to)
      PROVE  UNCHANGED Consent!cvars
  BY <1>1, QuietSteps DEF RequestCheck
<1>2. ASSUME NEW w \in Workers, NEW id \in DOMAIN links, NEW actor \in Members,
             ApproveGet(w, id, actor)
      PROVE  Consent!CNext
  BY <1>2, GetPresses
<1>3. ASSUME NEW w \in Workers, NEW id \in DOMAIN links, NEW actor \in Members,
             RevokeGet(w, id, actor)
      PROVE  UNCHANGED Consent!cvars
  BY <1>3, QuietSteps DEF RevokeGet
<1>4. ASSUME NEW w \in Workers, Continue(w)
      PROVE  Consent!CNext \/ UNCHANGED Consent!cvars
  <2>1. ASSUME NEW now \in job[w].now..clock, RequestInsert(w, now) PROVE Consent!CNext
    BY <2>1, InsertAsks
  <2>2. CASE ApproveUpdate(w)
    BY <2>2, UpdateAgrees, QuietSteps
  <2>3. CASE RevokeUpdate(w)
    BY <2>3, UpdateWithdraws
  <2>4. CASE Look(w) \/ Tell(w)
    BY <2>4, QuietSteps DEF Look, Tell
  <2> QED BY <1>4, <2>1, <2>2, <2>3, <2>4 DEF Continue
<1>5. ASSUME NEW w \in Workers, NEW told \in SUBSET job[w].tell, Crash(w, told)
      PROVE  UNCHANGED Consent!cvars
  BY <1>5, QuietSteps DEF Crash
<1>6. CASE Tick
  BY <1>6 DEF Tick, Consent!CNext, Consent!Advance
<1>7. CASE UNCHANGED vars
  BY <1>7, QuietSteps DEF vars
<1> QED BY <1>1, <1>2, <1>3, <1>4, <1>5, <1>6, <1>7 DEF Next

\* The handlers and the table implement LinkConsent: a link is agreed only on
\* its target's press while the request was open, becomes ready a cooldown
\* after that press, and never comes back once revoked.
THEOREM FamilyImplementsConsent == Spec => ImplementsConsent
BY InitRefines, StepRefines, FamilyInvariant, PTL
   DEF Spec, ImplementsConsent, Consent!CSpec
-----------------------------------------------------------------------------
(* Who is told, and how many requests a pair makes.                        *)

\* What no step takes back.
Kept ==
  /\ DOMAIN links \subseteq DOMAIN links' /\ notes \subseteq notes' /\ died \subseteq died'
  /\ \A i \in DOMAIN links :
       /\ links'[i].from = links[i].from /\ links'[i].to = links[i].to
       /\ links'[i].created = links[i].created /\ links'[i].exp = links[i].exp
       /\ links[i].status # "requested" => links'[i].status # "requested"
       /\ links[i].status = "revoked" => links'[i].status = "revoked"

LEMMA RequestInserted ==
  ASSUME FamilyInv, NEW w \in Workers, NEW now \in job[w].now..clock, RequestInsert(w, now)
  PROVE  LET n == Len(links) + 1 IN
         /\ n \in Nat /\ DOMAIN links = 1..Len(links) /\ Len(links) \in Nat
         /\ DOMAIN links' = DOMAIN links \cup {n} /\ n \notin DOMAIN links
         /\ links'[n] = LinkRow(job[w].from, job[w].to, clock, now + Ttl)
         /\ \A i \in DOMAIN links : links'[i] = links[i]
BY DEF FamilyInv, TypeOK, RequestInsert

LEMMA StatusWritten ==
  ASSUME FamilyInv, NEW w \in Workers, ApproveUpdate(w) \/ RevokeUpdate(w)
  PROVE  LET id == job[w].id IN
         /\ id \in DOMAIN links /\ DOMAIN links' = DOMAIN links
         /\ \A i \in DOMAIN links : i # id => links'[i] = links[i]
         /\ links'[id].from = links[id].from /\ links'[id].to = links[id].to
         /\ links'[id].created = links[id].created /\ links'[id].exp = links[id].exp
         /\ ApproveUpdate(w) => links'[id].status = (IF links[id].status = "requested"
                                                    THEN "approved" ELSE links[id].status)
         /\ RevokeUpdate(w) => links'[id].status = "revoked"
<1> DEFINE id == job[w].id
<1>1. id \in DOMAIN links /\ links[id] \in Row
  BY RowFacts DEF ApproveUpdate, RevokeUpdate, FamilyInv, Under
<1>2. CASE ApproveUpdate(w)
  <2>1. links' = [links EXCEPT ![id] = Approved(links[id], job[w].now)]
    BY <1>2 DEF ApproveUpdate
  <2>2. ~RevokeUpdate(w)
    BY <1>2 DEF ApproveUpdate, RevokeUpdate
  <2> QED BY <1>1, <2>1, <2>2 DEF Approved, Row
<1>3. CASE RevokeUpdate(w)
  <2>1. links' = [links EXCEPT ![id] = [links[id] EXCEPT !.status = "revoked"]]
    BY <1>3 DEF RevokeUpdate
  <2>2. ~ApproveUpdate(w)
    BY <1>3 DEF ApproveUpdate, RevokeUpdate
  <2> QED BY <1>1, <2>1, <2>2 DEF Row
<1> QED BY <1>2, <1>3

LEMMA NothingTakenBack == FamilyInv /\ [Next]_vars => Kept
<1> SUFFICES ASSUME FamilyInv, [Next]_vars PROVE Kept
  OBVIOUS
<1>1. ASSUME links' = links, notes \subseteq notes', died \subseteq died' PROVE Kept
  BY <1>1 DEF Kept
<1>2. ASSUME NEW w \in Workers, NEW now \in job[w].now..clock, RequestInsert(w, now)
      PROVE  Kept
  BY <1>2, RequestInserted DEF Kept, RequestInsert
<1>3. ASSUME NEW w \in Workers, ApproveUpdate(w) \/ RevokeUpdate(w) PROVE Kept
  <2>1. notes' = notes /\ died' = died
    BY <1>3 DEF ApproveUpdate, RevokeUpdate
  <2> QED BY <1>3, <2>1, StatusWritten DEF Kept
<1>4. CASE Tick \/ UNCHANGED vars
  BY <1>1, <1>4 DEF Tick, vars
<1>5. ASSUME NEW w \in Workers, NEW from \in Members, NEW to \in Members,
             RequestCheck(w, from, to)
      PROVE  Kept
  BY <1>1, <1>5 DEF RequestCheck
<1>6. ASSUME NEW w \in Workers, NEW id \in DOMAIN links, NEW actor \in Members,
             ApproveGet(w, id, actor) \/ RevokeGet(w, id, actor)
      PROVE  Kept
  BY <1>1, <1>6 DEF ApproveGet, RevokeGet
<1>7. ASSUME NEW w \in Workers, Look(w) \/ Tell(w) PROVE Kept
  BY <1>1, <1>7 DEF Look, Tell
<1>8. ASSUME NEW w \in Workers, NEW told, Crash(w, told) PROVE Kept
  BY <1>1, <1>8 DEF Crash
<1> QED BY <1>2, <1>3, <1>4, <1>5, <1>6, <1>7, <1>8 DEF Next, Continue

\* A thread whose write is done and whose notes are not.
Announcing(w) == job[w].pc \in {"look", "tell"}

\* A thread that died before it had told both parties that the link is revoked.
Lost(i) == [id |-> i, kind |-> "revoked"] \in died

\* A thread on its way knows what it announces, and tells both parties.
Announces(w) ==
  Announcing(w) =>
    /\ job[w].kind = "approved" => links[job[w].id].status # "requested"
    /\ job[w].pc = "tell" => Parties(job[w].id) \subseteq job[w].tell

NotesInv ==
  /\ \A w \in Workers : Announces(w)
  /\ ApprovalAnnouncedTruly
  /\ RevocationNotLost

LEMMA NotesStep ==
  ASSUME FamilyInv, NotesInv, [Next]_vars, NEW w \in Workers,
         \A v \in Workers \ {w} : job'[v] = job[v],
         Announces(w)',
         \A n \in notes' : n \in notes \/ /\ n.id \in DOMAIN links
                                          /\ n.kind = "approved" => links[n.id].status # "requested",
         \A i \in DOMAIN links' : Revoked(i)' =>
           \/ i \in DOMAIN links /\ Revoked(i)
           \/ Announcing(w)' /\ job'[w].id = i /\ job'[w].kind = "revoked",
         Announcing(w) /\ job[w].kind = "revoked" =>
           \/ Announcing(w)' /\ job'[w].id = job[w].id /\ job'[w].kind = "revoked"
           \/ [id |-> job[w].id, kind |-> "revoked"] \in died'
           \/ \A who \in Parties(job[w].id) :
                [who |-> who, kind |-> "revoked", id |-> job[w].id] \in notes'
  PROVE  NotesInv'
<1>1. Kept
  BY NothingTakenBack
<1>2. \A n \in notes : n.id \in DOMAIN links
  BY DEF FamilyInv, TypeOK
<1>3. ASSUME NEW v \in Workers PROVE Announces(v)'
  <2>1. CASE v = w
    BY <2>1
  <2>2. CASE v # w
    <3>1. job'[v] = job[v] /\ Announces(v)
      BY <2>2 DEF NotesInv
    <3>2. Announcing(v) => job[v].id \in DOMAIN links
      BY DEF FamilyInv, Under, Announcing
    <3> QED BY <1>1, <3>1, <3>2 DEF Kept, Announces, Announcing, Parties
  <2> QED BY <2>1, <2>2
<1>4. ApprovalAnnouncedTruly'
  <2> SUFFICES ASSUME NEW n \in notes', n.kind = "approved"
               PROVE  links'[n.id].status # "requested"
    BY DEF ApprovalAnnouncedTruly
  <2>1. n.id \in DOMAIN links /\ links[n.id].status # "requested"
    BY <1>2 DEF NotesInv, ApprovalAnnouncedTruly
  <2> QED BY <1>1, <2>1 DEF Kept
<1>5. RevocationNotLost'
  <2> SUFFICES ASSUME NEW i \in DOMAIN links', Revoked(i)'
               PROVE  \/ \A who \in Parties(i)' : Told(who, "revoked", i)'
                      \/ \E v \in Workers : job'[v].pc \in {"look", "tell"} /\ job'[v].id = i
                                            /\ job'[v].kind = "revoked"
                      \/ Lost(i)'
    BY DEF RevocationNotLost, Lost
  <2>1. CASE Announcing(w)' /\ job'[w].id = i /\ job'[w].kind = "revoked"
    BY <2>1 DEF Announcing
  <2>2. CASE i \in DOMAIN links /\ Revoked(i)
    <3>1. Parties(i)' = Parties(i)
      BY <1>1, <2>2 DEF Kept, Parties
    <3>2. CASE \A who \in Parties(i) : Told(who, "revoked", i)
      BY <1>1, <3>1, <3>2 DEF Kept, Told
    <3>3. CASE Lost(i)
      BY <1>1, <3>3 DEF Kept, Lost
    <3>4. ASSUME NEW v \in Workers, job[v].pc \in {"look", "tell"}, job[v].id = i,
                 job[v].kind = "revoked"
          PROVE  \/ \A who \in Parties(i)' : Told(who, "revoked", i)'
                 \/ \E u \in Workers : job'[u].pc \in {"look", "tell"} /\ job'[u].id = i
                                       /\ job'[u].kind = "revoked"
                 \/ Lost(i)'
      <4>1. CASE v # w
        BY <3>4, <4>1
      <4>2. CASE v = w
        <5>1. job[w].id = i /\ Announcing(w) /\ job[w].kind = "revoked"
          BY <3>4, <4>2 DEF Announcing
        <5>2. CASE Announcing(w)' /\ job'[w].id = job[w].id /\ job'[w].kind = "revoked"
          BY <5>1, <5>2 DEF Announcing
        <5>3. CASE [id |-> job[w].id, kind |-> "revoked"] \in died'
          BY <5>1, <5>3 DEF Lost
        <5>4. CASE \A who \in Parties(job[w].id) :
                     [who |-> who, kind |-> "revoked", id |-> job[w].id] \in notes'
          BY <3>1, <5>1, <5>4 DEF Told
        <5> QED BY <5>1, <5>2, <5>3, <5>4
      <4> QED BY <4>1, <4>2
    <3> QED BY <2>2, <3>2, <3>3, <3>4 DEF NotesInv, RevocationNotLost, Lost
  <2> QED BY <2>1, <2>2
<1> QED BY <1>3, <1>4, <1>5 DEF NotesInv

LEMMA JobWritten ==
  ASSUME FamilyInv, NEW w \in Workers, NEW j, job' = [job EXCEPT ![w] = j]
  PROVE  job'[w] = j /\ \A v \in Workers \ {w} : job'[v] = job[v]
BY DEF FamilyInv, TypeOK

\* A handler that begins, or ends without a word.
LEMMA NotesQuiet ==
  ASSUME FamilyInv, NotesInv, [Next]_vars, NEW w \in Workers,
         \A v \in Workers \ {w} : job'[v] = job[v],
         ~Announcing(w), ~Announcing(w)', UNCHANGED <<links, notes>>
  PROVE  NotesInv'
<1>1. Announces(w)'
  BY DEF Announces
<1>2. \A i \in DOMAIN links' : Revoked(i)' => i \in DOMAIN links /\ Revoked(i)
  BY DEF Revoked
<1> QED BY <1>1, <1>2, NotesStep

LEMMA NotesNext == FamilyInv /\ NotesInv /\ [Next]_vars => NotesInv'
<1> SUFFICES ASSUME FamilyInv, NotesInv, [Next]_vars PROVE NotesInv'
  OBVIOUS
<1>1. CASE Tick \/ UNCHANGED vars
  <2>1. UNCHANGED <<links, notes, job, died>>
    BY <1>1 DEF Tick, vars
  <2> QED BY <2>1 DEF NotesInv, Announces, Announcing, Parties, ApprovalAnnouncedTruly,
                      RevocationNotLost, Revoked, Told
<1>2. ASSUME NEW w \in Workers, NEW from \in Members, NEW to \in Members,
             RequestCheck(w, from, to)
      PROVE  NotesInv'
  <2>1. /\ job' = [job EXCEPT ![w] = Begun("request_insert", from, to, 0)]
        /\ job[w].pc = "idle" /\ UNCHANGED <<links, notes>>
    BY <1>2 DEF RequestCheck
  <2> QED BY <2>1, JobWritten, NotesQuiet DEF Announcing, Begun
<1>3. ASSUME NEW w \in Workers, NEW id \in DOMAIN links, NEW actor \in Members,
             ApproveGet(w, id, actor) \/ RevokeGet(w, id, actor)
      PROVE  NotesInv'
  <2>1. PICK label \in {"approve_update", "revoke_update"} :
          job' = [job EXCEPT ![w] = Reached(label, id)]
    BY <1>3 DEF ApproveGet, RevokeGet
  <2>2. job[w].pc = "idle" /\ UNCHANGED <<links, notes>>
    BY <1>3 DEF ApproveGet, RevokeGet
  <2>3. job'[w].pc = label /\ \A v \in Workers \ {w} : job'[v] = job[v]
    <3>1. job'[w] = Reached(label, id) /\ \A v \in Workers \ {w} : job'[v] = job[v]
      BY <2>1, JobWritten
    <3> QED BY <3>1 DEF Reached, Begun
  <2> QED BY <2>2, <2>3, NotesQuiet DEF Announcing
<1>4. ASSUME NEW w \in Workers, NEW now \in job[w].now..clock, RequestInsert(w, now)
      PROVE  NotesInv'
  <2> DEFINE n == Len(links) + 1
             j == Ending("tell", n, "requested", {job[w].from, job[w].to})
  <2>1. job' = [job EXCEPT ![w] = j] /\ notes' = notes /\ ~Announcing(w)
    BY <1>4 DEF RequestInsert, Announcing
  <2>2. /\ DOMAIN links' = DOMAIN links \cup {n}
        /\ links'[n] = LinkRow(job[w].from, job[w].to, clock, now + Ttl)
        /\ \A i \in DOMAIN links : links'[i] = links[i]
    BY <1>4, RequestInserted
  <2>3. /\ job'[w].kind = "requested" /\ job'[w].id = n
        /\ job'[w].tell = {job[w].from, job[w].to}
        /\ \A v \in Workers \ {w} : job'[v] = job[v]
    <3>1. job'[w] = j /\ \A v \in Workers \ {w} : job'[v] = job[v]
      BY <2>1, JobWritten
    <3> QED BY <3>1 DEF Ending
  <2>4. Announces(w)'
    BY <2>2, <2>3 DEF Announces, Parties, LinkRow
  <2>5. \A i \in DOMAIN links' : Revoked(i)' => i \in DOMAIN links /\ Revoked(i)
    BY <2>2 DEF Revoked, LinkRow
  <2> QED BY <2>1, <2>3, <2>4, <2>5, NotesStep
<1>5. ASSUME NEW w \in Workers, ApproveUpdate(w) \/ RevokeUpdate(w) PROVE NotesInv'
  <2> DEFINE id == job[w].id
  <2>1. PICK kind \in {"approved", "revoked"} :
          /\ job' = [job EXCEPT ![w] = Ending("look", id, kind, {})]
          /\ kind = "approved" <=> ApproveUpdate(w)
          /\ kind = "revoked" <=> RevokeUpdate(w)
    BY <1>5 DEF ApproveUpdate, RevokeUpdate
  <2>2. ~Announcing(w) /\ notes' = notes
    BY <1>5 DEF ApproveUpdate, RevokeUpdate, Announcing
  <2>3. /\ job'[w].kind = kind /\ job'[w].id = id /\ job'[w].pc = "look"
        /\ \A v \in Workers \ {w} : job'[v] = job[v]
    <3>1. /\ job'[w] = Ending("look", id, kind, {})
          /\ \A v \in Workers \ {w} : job'[v] = job[v]
      BY <2>1, JobWritten
    <3> QED BY <3>1 DEF Ending
  <2>4. /\ id \in DOMAIN links /\ DOMAIN links' = DOMAIN links
        /\ \A i \in DOMAIN links : i # id => links'[i] = links[i]
        /\ ApproveUpdate(w) => links'[id].status = (IF links[id].status = "requested"
                                                   THEN "approved" ELSE links[id].status)
        /\ RevokeUpdate(w) => links'[id].status = "revoked"
    BY <1>5, StatusWritten
  <2>5. Announces(w)'
    BY <2>1, <2>3, <2>4 DEF Announces
  <2>6. \A i \in DOMAIN links' : Revoked(i)' =>
          \/ i \in DOMAIN links /\ Revoked(i)
          \/ Announcing(w)' /\ job'[w].id = i /\ job'[w].kind = "revoked"
    BY <1>5, <2>1, <2>3, <2>4 DEF Revoked, Announcing
  <2> QED BY <2>2, <2>3, <2>5, <2>6, NotesStep
<1>6. ASSUME NEW w \in Workers, Look(w) PROVE NotesInv'
  <2> DEFINE to == Parties(job[w].id) \cup UNION {Neighborhood(m) : m \in Parties(job[w].id)}
             j  == [job[w] EXCEPT !.pc = "tell", !.tell = to]
  <2>1. job[w] \in Locals(Len(links), clock) /\ UNCHANGED <<links, notes>>
    BY <1>6 DEF FamilyInv, TypeOK, Look
  <2>2. job' = [job EXCEPT ![w] = j]
    BY <1>6, <2>1 DEF Look, Locals
  <2>3. /\ job'[w].pc = "tell" /\ job'[w].tell = to /\ job'[w].id = job[w].id
        /\ job'[w].kind = job[w].kind
        /\ \A v \in Workers \ {w} : job'[v] = job[v]
    <3>1. job'[w] = j /\ \A v \in Workers \ {w} : job'[v] = job[v]
      BY <2>2, JobWritten
    <3> QED BY <2>1, <3>1 DEF Locals
  <2>4. Announces(w) /\ Announcing(w)
    BY <1>6 DEF NotesInv, Look, Announcing
  <2>5. Announces(w)'
    BY <2>1, <2>3, <2>4 DEF Announces, Parties
  <2>6. \A i \in DOMAIN links' : Revoked(i)' => i \in DOMAIN links /\ Revoked(i)
    BY <2>1 DEF Revoked
  <2>7. Announcing(w)'
    BY <2>3 DEF Announcing
  <2> QED BY <2>1, <2>3, <2>5, <2>6, <2>7, NotesStep
<1>7. ASSUME NEW w \in Workers, NEW told, Crash(w, told) \/ Tell(w) PROVE NotesInv'
  <2>1. /\ job' = [job EXCEPT ![w] = Idle] /\ links' = links
        /\ Tell(w) => notes' = notes \cup Notes(w, job[w].tell)
        /\ Crash(w, told) =>
             /\ notes' = notes \cup Notes(w, told)
             /\ job[w].kind = "revoked" => [id |-> job[w].id, kind |-> "revoked"] \in died'
        /\ Crash(w, told) => told \subseteq (IF job[w].pc = "tell" THEN job[w].tell ELSE {})
        /\ Tell(w) => job[w].pc = "tell"
    BY <1>7 DEF Crash, Tell
  <2>2. job'[w] = Idle /\ \A v \in Workers \ {w} : job'[v] = job[v]
    BY <2>1, JobWritten
  <2>3. Announces(w)' /\ ~Announcing(w)'
    BY <2>2 DEF Announces, Announcing, Idle
  <2>4. /\ Announces(w)
        /\ Announcing(w) => job[w].id \in DOMAIN links
    BY DEF NotesInv, FamilyInv, Under, Announcing
  <2>5. ASSUME NEW n \in notes', n \notin notes
        PROVE  n.id \in DOMAIN links /\ (n.kind = "approved" => links[n.id].status # "requested")
    <3>1. n.kind = job[w].kind /\ n.id = job[w].id /\ Announcing(w)
      BY <1>7, <2>1, <2>5 DEF Notes, Announcing
    <3> QED BY <2>4, <3>1 DEF Announces
  <2>6. \A i \in DOMAIN links' : Revoked(i)' => i \in DOMAIN links /\ Revoked(i)
    BY <2>1 DEF Revoked
  <2>7. Announcing(w) /\ job[w].kind = "revoked" =>
          \/ [id |-> job[w].id, kind |-> "revoked"] \in died'
          \/ \A who \in Parties(job[w].id) :
               [who |-> who, kind |-> "revoked", id |-> job[w].id] \in notes'
    <3>1. CASE Crash(w, told)
      BY <2>1, <3>1
    <3>2. CASE Tell(w)
      <4> SUFFICES ASSUME job[w].kind = "revoked", NEW who \in Parties(job[w].id)
                   PROVE  [who |-> who, kind |-> "revoked", id |-> job[w].id] \in notes'
        BY <3>2
      <4>1. who \in job[w].tell
        BY <2>1, <2>4, <3>2 DEF Announces, Announcing
      <4>2. [who |-> who, kind |-> "revoked", id |-> job[w].id] \in notes'
        BY <2>1, <3>2, <4>1 DEF Notes
      <4> QED BY <4>2
    <3> QED BY <1>7, <3>1, <3>2
  <2> QED BY <2>2, <2>3, <2>5, <2>6, <2>7, NotesStep
<1> QED BY <1>1, <1>2, <1>3, <1>4, <1>5, <1>6, <1>7 DEF Next, Continue

LEMMA NotesInit == Init => NotesInv
<1> SUFFICES ASSUME Init PROVE NotesInv
  OBVIOUS
<1>1. \A w \in Workers : ~Announcing(w)
  BY DEF Init, Announcing, Idle
<1>2. DOMAIN links = {} /\ notes = {}
  BY DEF Init
<1> QED BY <1>1, <1>2 DEF NotesInv, Announces, ApprovalAnnouncedTruly, RevocationNotLost

\* An approval is announced for no link that is still only requested: a
\* handler that announces one has run its UPDATE, and no status is taken back.
THEOREM ApprovalsTrue == Spec => []ApprovalAnnouncedTruly
<1>1. NotesInv => ApprovalAnnouncedTruly
  BY DEF NotesInv
<1> QED BY <1>1, NotesInit, NotesNext, FamilyInvariant, PTL DEF Spec

\* No revocation is kept from a party of the link, but by a handler that died:
\* whoever finds the link revoked finds both told, or a thread about to.
THEOREM RevocationsTold == Spec => []RevocationNotLost
<1>1. NotesInv => RevocationNotLost
  BY DEF NotesInv
<1> QED BY <1>1, NotesInit, NotesNext, FamilyInvariant, PTL DEF Spec
-----------------------------------------------------------------------------
(* The pair's daily cap.                                                   *)

LEMMA TableWrites ==
  ASSUME [Next]_vars
  PROVE  \/ links' = links
         \/ \E w \in Workers : \E now \in job[w].now..clock : RequestInsert(w, now)
         \/ \E w \in Workers : ApproveUpdate(w) \/ RevokeUpdate(w)
<1>1. ASSUME NEW w \in Workers, NEW from \in Members, NEW to \in Members,
             RequestCheck(w, from, to)
      PROVE  links' = links
  BY <1>1 DEF RequestCheck
<1>2. ASSUME NEW w \in Workers, NEW id \in DOMAIN links, NEW actor \in Members,
             ApproveGet(w, id, actor) \/ RevokeGet(w, id, actor)
      PROVE  links' = links
  BY <1>2 DEF ApproveGet, RevokeGet
<1>3. ASSUME NEW w \in Workers, Look(w) \/ Tell(w) PROVE links' = links
  BY <1>3 DEF Look, Tell
<1>4. ASSUME NEW w \in Workers, NEW told, Crash(w, told) PROVE links' = links
  BY <1>4 DEF Crash
<1>5. CASE Tick \/ UNCHANGED vars
  BY <1>5 DEF Tick, vars
<1> QED BY <1>1, <1>2, <1>3, <1>4, <1>5 DEF Next, Continue

\* The requests of a pair that were stored in the day that opens at t.
DayFrom(pair, t) ==
  {j \in 1..Len(links) : Parties(j) = pair /\ links[j].created \in t..(t + Day)}

\* The requests between count and INSERT that may still fall into that day.
Aiming(pair, t) ==
  {w \in Workers : /\ job[w].pc = "request_insert" /\ {job[w].from, job[w].to} = pair
                   /\ clock <= t + Day}

Load(pair, t) == Cardinality(DayFrom(pair, t)) + Cardinality(Aiming(pair, t))

LEMMA LoadFinite ==
  ASSUME FamilyInv, NEW pair, NEW t
  PROVE  /\ IsFiniteSet(DayFrom(pair, t)) /\ Cardinality(DayFrom(pair, t)) \in Nat
         /\ IsFiniteSet(Aiming(pair, t)) /\ Cardinality(Aiming(pair, t)) \in Nat
         /\ Cardinality(Aiming(pair, t)) <= Cardinality(Workers)
<1>1. Len(links) \in Nat
  BY DEF FamilyInv, TypeOK
<1>2. IsFiniteSet(1..Len(links)) /\ IsFiniteSet(Workers)
  BY <1>1, FS_Interval, FamilyAssumption
<1>3. DayFrom(pair, t) \subseteq 1..Len(links) /\ Aiming(pair, t) \subseteq Workers
  BY DEF DayFrom, Aiming
<1> QED BY <1>2, <1>3, FS_Subset, FS_CardinalityType

\* The same one step later.
LEMMA LoadFiniteNext ==
  ASSUME FamilyInv, [Next]_vars, NEW pair, NEW t
  PROVE  /\ Cardinality(DayFrom(pair, t)') \in Nat
         /\ IsFiniteSet(Aiming(pair, t)') /\ Cardinality(Aiming(pair, t)') \in Nat
         /\ Cardinality(Aiming(pair, t)') <= Cardinality(Workers)
<1>1. FamilyInv'
  BY NextInv
<1>2. Len(links') \in Nat
  BY <1>1 DEF FamilyInv, TypeOK
<1>3. IsFiniteSet(1..Len(links')) /\ IsFiniteSet(Workers)
  BY <1>2, FS_Interval, FamilyAssumption
<1>4. DayFrom(pair, t)' \subseteq 1..Len(links') /\ Aiming(pair, t)' \subseteq Workers
  BY DEF DayFrom, Aiming
<1> QED BY <1>3, <1>4, FS_Subset, FS_CardinalityType

\* A step that keeps the table's rows keeps every day.
LEMMA DayKept ==
  ASSUME FamilyInv, [Next]_vars, DOMAIN links' = DOMAIN links, NEW pair, NEW t
  PROVE  DayFrom(pair, t)' = DayFrom(pair, t)
<1>1. DOMAIN links = 1..Len(links) /\ DOMAIN links' = 1..Len(links')
  BY NextInv DEF FamilyInv, TypeOK
<1>2. \A j \in DOMAIN links : Parties(j)' = Parties(j) /\ links'[j].created = links[j].created
  BY NothingTakenBack DEF Kept, Parties
<1> QED BY <1>1, <1>2 DEF DayFrom

\* A step that is neither request statement adds no row and brings no thread
\* to the INSERT.
LEMMA OtherSteps ==
  ASSUME FamilyInv, [Next]_vars
  PROVE  \/ \E w \in Workers, from \in Members, to \in Members : RequestCheck(w, from, to)
         \/ \E w \in Workers : \E now \in job[w].now..clock : RequestInsert(w, now)
         \/ /\ clock' = clock \/ clock' = clock + 1
            /\ DOMAIN links' = DOMAIN links
            /\ \A v \in Workers : job'[v] = job[v] \/ job'[v].pc # "request_insert"
<1> DEFINE Aside == /\ clock' = clock \/ clock' = clock + 1
                    /\ DOMAIN links' = DOMAIN links
                    /\ \A v \in Workers : job'[v] = job[v] \/ job'[v].pc # "request_insert"
<1>1. ASSUME NEW w \in Workers, NEW j, job' = [job EXCEPT ![w] = j], j.pc # "request_insert",
             clock' = clock, DOMAIN links' = DOMAIN links
      PROVE  Aside
  BY <1>1, JobWritten
<1>2. CASE Tick \/ UNCHANGED vars
  BY <1>2 DEF Tick, vars
<1>3. ASSUME NEW w \in Workers, NEW id \in DOMAIN links, NEW actor \in Members,
             ApproveGet(w, id, actor) \/ RevokeGet(w, id, actor)
      PROVE  Aside
  <2>1. PICK label \in {"approve_update", "revoke_update"} :
          job' = [job EXCEPT ![w] = Reached(label, id)]
    BY <1>3 DEF ApproveGet, RevokeGet
  <2>2. Reached(label, id).pc # "request_insert"
    BY DEF Reached, Begun
  <2>3. UNCHANGED <<clock, links>>
    BY <1>3 DEF ApproveGet, RevokeGet
  <2> QED BY <1>1, <2>1, <2>2, <2>3
<1>4. ASSUME NEW w \in Workers, ApproveUpdate(w) \/ RevokeUpdate(w) PROVE Aside
  <2>1. PICK kind : job' = [job EXCEPT ![w] = Ending("look", job[w].id, kind, {})]
    BY <1>4 DEF ApproveUpdate, RevokeUpdate
  <2>2. Ending("look", job[w].id, kind, {}).pc # "request_insert"
    BY DEF Ending
  <2>3. clock' = clock /\ DOMAIN links' = DOMAIN links
    BY <1>4, StatusWritten DEF ApproveUpdate, RevokeUpdate
  <2> QED BY <1>1, <2>1, <2>2, <2>3
<1>5. ASSUME NEW w \in Workers, Look(w) PROVE Aside
  <2> DEFINE to == Parties(job[w].id) \cup UNION {Neighborhood(m) : m \in Parties(job[w].id)}
             j  == [job[w] EXCEPT !.pc = "tell", !.tell = to]
  <2>1. job[w] \in Locals(Len(links), clock)
    BY DEF FamilyInv, TypeOK
  <2>2. job' = [job EXCEPT ![w] = j] /\ j.pc = "tell" /\ UNCHANGED <<clock, links>>
    BY <1>5, <2>1 DEF Look, Locals
  <2> HIDE DEF j
  <2> QED BY <1>1, <2>2
<1>6. ASSUME NEW w \in Workers, NEW told, Tell(w) \/ Crash(w, told) PROVE Aside
  <2>1. job' = [job EXCEPT ![w] = Idle] /\ UNCHANGED <<clock, links>>
    BY <1>6 DEF Tell, Crash
  <2>2. Idle.pc # "request_insert"
    BY DEF Idle
  <2> QED BY <1>1, <2>1, <2>2
<1> QED BY <1>2, <1>3, <1>4, <1>5, <1>6 DEF Next, Continue

\* _pair_request_count sees every day that the INSERT can still fall into.
LEMMA CountSees ==
  ASSUME FamilyInv, [Next]_vars, NEW w \in Workers, NEW from \in Members, NEW to \in Members,
         RequestCheck(w, from, to), NEW t \in Nat, clock <= t + Day
  PROVE  Cardinality(DayFrom({from, to}, t)') < PairCap
<1> DEFINE counted == {i \in DOMAIN links : /\ Parties(i) = {from, to}
                                            /\ links[i].created >= clock - Day}
<1>1. Cardinality(counted) < PairCap /\ PairCap \in Nat /\ Day \in Nat /\ clock \in Nat
  BY FamilyAssumption DEF RequestCheck, PairCount, FamilyInv, TypeOK
<1>2. DOMAIN links = 1..Len(links) /\ Len(links) \in Nat
  BY DEF FamilyInv, TypeOK
<1>3. DayFrom({from, to}, t)' = DayFrom({from, to}, t)
  BY DayKept DEF RequestCheck
<1>4. DayFrom({from, to}, t) \subseteq counted
  BY <1>1, <1>2, RowFacts DEF DayFrom
<1>5. IsFiniteSet(counted)
  <2>1. IsFiniteSet(1..Len(links)) /\ counted \subseteq 1..Len(links)
    BY <1>2, FS_Interval
  <2> QED BY <2>1, FS_Subset
<1> HIDE DEF counted
<1>6. /\ Cardinality(DayFrom({from, to}, t)) <= Cardinality(counted)
      /\ Cardinality(counted) \in Nat /\ Cardinality(DayFrom({from, to}, t)) \in Nat
  BY <1>4, <1>5, FS_Subset, FS_CardinalityType
<1> QED BY <1>1, <1>3, <1>6

\* What an INSERT does to a day: it adds a row there and takes its thread from
\* those aiming, or it touches neither.
LEMMA InsertMoves ==
  ASSUME FamilyInv, [Next]_vars, NEW w \in Workers, NEW now \in job[w].now..clock,
         RequestInsert(w, now), NEW pair, NEW t \in Nat
  PROVE  LET H == DayFrom(pair, t)
             A == Aiming(pair, t)
         IN  /\ A' \subseteq A \ {w}
             /\ \/ H' = H
                \/ w \in A /\ Len(links) + 1 \notin H /\ H' = H \cup {Len(links) + 1}
<1> PICK n : n = Len(links) + 1
  OBVIOUS
<1>1. /\ Len(links) \in Nat /\ clock \in Nat /\ Day \in Nat
      /\ DOMAIN links = 1..Len(links) /\ DOMAIN links' = DOMAIN links \cup {n}
      /\ links'[n] = LinkRow(job[w].from, job[w].to, clock, now + Ttl)
      /\ \A i \in DOMAIN links : links'[i] = links[i]
  BY FamilyAssumption, RequestInserted DEF FamilyInv, TypeOK
<1>2. 1..Len(links') = 1..Len(links) \cup {n}
  <2>1. DOMAIN links' = 1..Len(links')
    BY NextInv DEF FamilyInv, TypeOK
  <2> QED BY <1>1, <2>1
<1>3. /\ \A j \in 1..Len(links) : Parties(j)' = Parties(j) /\ links'[j].created = links[j].created
      /\ Parties(n)' = {job[w].from, job[w].to} /\ links'[n].created = clock
  BY <1>1 DEF Parties, LinkRow
<1>4. Aiming(pair, t)' \subseteq Aiming(pair, t) \ {w}
  <2>1. /\ job' = [job EXCEPT ![w] = Ending("tell", n, "requested", {job[w].from, job[w].to})]
        /\ clock' = clock
    BY DEF RequestInsert
  <2>2. job'[w].pc = "tell" /\ \A v \in Workers \ {w} : job'[v] = job[v]
    <3>1. /\ job'[w] = Ending("tell", n, "requested", {job[w].from, job[w].to})
          /\ \A v \in Workers \ {w} : job'[v] = job[v]
      BY <2>1, JobWritten
    <3> QED BY <3>1 DEF Ending
  <2> QED BY <2>1, <2>2 DEF Aiming
<1>5. CASE {job[w].from, job[w].to} = pair /\ clock \in t..(t + Day)
  <2>1. w \in Aiming(pair, t)
    BY <1>1, <1>5 DEF Aiming, RequestInsert
  <2>2. DayFrom(pair, t)' = DayFrom(pair, t) \cup {n}
    BY <1>2, <1>3, <1>5 DEF DayFrom
  <2>3. n \notin DayFrom(pair, t)
    BY <1>1 DEF DayFrom
  <2> QED BY <1>4, <2>1, <2>2, <2>3
<1>6. CASE ~({job[w].from, job[w].to} = pair /\ clock \in t..(t + Day))
  <2>1. DayFrom(pair, t)' = DayFrom(pair, t)
    BY <1>1, <1>2, <1>3, <1>6 DEF DayFrom
  <2> QED BY <1>4, <2>1
<1> QED BY <1>5, <1>6

\* A step lets one more request aim at a day that had room, or the day's load
\* does not grow.
LEMMA LoadSteps ==
  ASSUME FamilyInv, [Next]_vars, NEW pair, NEW t \in Nat
  PROVE  /\ Load(pair, t) \in Nat /\ Load(pair, t)' \in Nat
         /\ Load(pair, t)' <= Load(pair, t) \/ Cardinality(DayFrom(pair, t)') < PairCap
<1> DEFINE H == DayFrom(pair, t)
           A == Aiming(pair, t)
<1>1. /\ IsFiniteSet(H) /\ Cardinality(H) \in Nat /\ IsFiniteSet(A) /\ Cardinality(A) \in Nat
      /\ Cardinality(H') \in Nat /\ Cardinality(A') \in Nat
      /\ clock \in Nat /\ Day \in Nat
  BY LoadFinite, LoadFiniteNext, FamilyAssumption DEF FamilyInv, TypeOK
<1>2. Load(pair, t) = Cardinality(H) + Cardinality(A)
      /\ Load(pair, t)' = Cardinality(H') + Cardinality(A')
  BY DEF Load
<1>3. ASSUME H' = H, A' \subseteq A PROVE Load(pair, t)' <= Load(pair, t)
  <2>1. Cardinality(A') <= Cardinality(A)
    BY <1>1, <1>3, FS_Subset
  <2> HIDE DEF H, A
  <2> QED BY <1>1, <1>2, <1>3, <2>1
<1>4. ASSUME NEW w \in Workers, NEW from \in Members, NEW to \in Members,
             RequestCheck(w, from, to)
      PROVE  Load(pair, t)' <= Load(pair, t) \/ Cardinality(H') < PairCap
  <2>1. CASE {from, to} = pair /\ clock <= t + Day
    BY <1>4, <2>1, CountSees
  <2>2. CASE ~({from, to} = pair /\ clock <= t + Day)
    <3>1. /\ job' = [job EXCEPT ![w] = Begun("request_insert", from, to, 0)]
          /\ clock' = clock /\ links' = links
      BY <1>4 DEF RequestCheck
    <3>2. /\ job'[w].from = from /\ job'[w].to = to
          /\ \A v \in Workers \ {w} : job'[v] = job[v]
      <4>1. /\ job'[w] = Begun("request_insert", from, to, 0)
            /\ \A v \in Workers \ {w} : job'[v] = job[v]
        BY <3>1, JobWritten
      <4> QED BY <4>1 DEF Begun
    <3>3. A' \subseteq A
      BY <2>2, <3>1, <3>2 DEF Aiming
    <3>4. H' = H
      BY <3>1, DayKept
    <3> QED BY <1>3, <3>3, <3>4
  <2> QED BY <2>1, <2>2
<1>5. ASSUME NEW w \in Workers, NEW now \in job[w].now..clock, RequestInsert(w, now)
      PROVE  Load(pair, t)' <= Load(pair, t)
  <2>1. /\ A' \subseteq A \ {w}
        /\ H' = H \/ (w \in A /\ Len(links) + 1 \notin H /\ H' = H \cup {Len(links) + 1})
    BY <1>5, InsertMoves
  <2> HIDE DEF H, A
  <2>2. CASE H' = H
    BY <1>3, <2>1, <2>2
  <2>3. CASE w \in A /\ Len(links) + 1 \notin H /\ H' = H \cup {Len(links) + 1}
    <3>1. Cardinality(H') = Cardinality(H) + 1
      BY <1>1, <2>3, FS_AddElement
    <3>2. IsFiniteSet(A \ {w}) /\ Cardinality(A \ {w}) = Cardinality(A) - 1
      BY <1>1, <2>3, FS_RemoveElement
    <3>3. Cardinality(A') <= Cardinality(A) - 1
      BY <2>1, <3>2, FS_Subset
    <3> QED BY <1>1, <1>2, <3>1, <3>3
  <2> QED BY <2>1, <2>2, <2>3
<1>6. ASSUME clock' = clock \/ clock' = clock + 1, DOMAIN links' = DOMAIN links,
             \A v \in Workers : job'[v] = job[v] \/ job'[v].pc # "request_insert"
      PROVE  Load(pair, t)' <= Load(pair, t)
  <2>1. A' \subseteq A
    BY <1>1, <1>6 DEF Aiming
  <2>2. H' = H
    BY <1>6, DayKept
  <2> QED BY <1>3, <2>1, <2>2
<1>7. Load(pair, t) \in Nat /\ Load(pair, t)' \in Nat
  BY <1>1, <1>2
<1> QED BY <1>4, <1>5, <1>6, <1>7, OtherSteps

\* Without a thread nothing is ever stored.
CapInv ==
  IF Workers = {} THEN links = <<>>
  ELSE \A pair : \A t \in Nat : Load(pair, t) <= PairCap + Cardinality(Workers) - 1

\* A pair has one request more than its cap for each thread but the first, in
\* any day: each of the requests in that day, stored or about to be, was
\* counted by whoever came after, but for those between count and INSERT.
THEOREM PairOverrun == Spec => []PairOverrunBounded
<1> DEFINE n == Cardinality(Workers)
<1>1. n \in Nat /\ PairCap \in Nat /\ (Workers # {} => n >= 1)
  BY FS_CardinalityType, FS_EmptySet, FamilyAssumption
<1>2. Init => CapInv
  <2> SUFFICES ASSUME Init PROVE CapInv
    OBVIOUS
  <2>1. links = <<>> /\ \A w \in Workers : job[w].pc = "idle"
    BY DEF Init, Idle
  <2>2. ASSUME NEW pair, NEW t PROVE Load(pair, t) = 0
    <3>1. DayFrom(pair, t) = {} /\ Aiming(pair, t) = {}
      BY <2>1 DEF DayFrom, Aiming
    <3> QED BY <3>1, FS_EmptySet DEF Load
  <2> HIDE DEF n
  <2> QED BY <1>1, <2>1, <2>2 DEF CapInv, n
<1>3. FamilyInv /\ CapInv /\ [Next]_vars => CapInv'
  <2> SUFFICES ASSUME FamilyInv, CapInv, [Next]_vars PROVE CapInv'
    OBVIOUS
  <2>1. CASE Workers = {}
    BY <2>1, TableWrites DEF CapInv
  <2>2. ASSUME Workers # {}, NEW pair, NEW t \in Nat
        PROVE  Load(pair, t)' <= PairCap + n - 1
    <3>1. Load(pair, t) <= PairCap + n - 1
      BY <2>2 DEF CapInv
    <3>2. Load(pair, t)' = Cardinality(DayFrom(pair, t)') + Cardinality(Aiming(pair, t)')
      BY DEF Load
    <3>3. Cardinality(Aiming(pair, t)') <= n
      BY LoadFiniteNext
    <3> HIDE DEF n
    <3> QED BY <1>1, <3>1, <3>2, <3>3, LoadSteps, LoadFiniteNext
  <2> QED BY <2>1, <2>2 DEF CapInv
<1>4. FamilyInv /\ CapInv => PairOverrunBounded
  <2> SUFFICES ASSUME FamilyInv, CapInv, NEW i \in DOMAIN links
               PROVE  Cardinality(DayFrom(Parties(i), links[i].created)) <= PairCap + n - 1
    <3>1. FamilyInv => DOMAIN links = 1..Len(links)
      BY DEF FamilyInv, TypeOK
    <3> QED BY <3>1 DEF PairOverrunBounded, DayFrom
  <2> DEFINE H == DayFrom(Parties(i), links[i].created)
             A == Aiming(Parties(i), links[i].created)
  <2>1. Workers # {} /\ links[i].created \in Nat
    BY RowFacts DEF CapInv
  <2>2. Cardinality(H) + Cardinality(A) <= PairCap + n - 1
    BY <2>1 DEF CapInv, Load
  <2>3. Cardinality(H) \in Nat /\ Cardinality(A) \in Nat
    BY LoadFinite
  <2> HIDE DEF H, A, n
  <2>4. Cardinality(H) <= PairCap + n - 1
    BY <1>1, <2>2, <2>3
  <2> QED BY <2>4 DEF H
<1> QED BY <1>2, <1>3, <1>4, FamilyInvariant, PTL DEF Spec
=============================================================================
