---------------------------- MODULE AdminProofs ----------------------------
(***************************************************************************)
(* Proofs about the tabs of the administrator: users, and the restaurants  *)
(* and vendors on file.                                                    *)
(***************************************************************************)
EXTENDS DeskProps, FiniteSetTheorems, TLAPS

-----------------------------------------------------------------------------
(* The administrator's users.  What is in flight, what may yet be told of a   *)
(* user, and which decisions wait.                                            *)
Role == {"customer", "vendor", "admin"}
MailRecord ==
  [at : {"sent", "answered", "failed"},
   what : {"list", "card", "block", "preset", "activate", "batch"}, ids : SUBSET Person,
   to : Role \union {"on", "off"}, view : View, sure : BOOLEAN,
   got : [Person -> Account \union {Unlisted}]]

MailWell(q) ==
  /\ q \in MailRecord
  /\ q.what \in {"card", "block", "preset", "activate"} => \E p \in Person : q.ids = {p}
  /\ q.what = "preset" => q.to \in Role
  /\ q.what = "card" /\ q.at = "answered" => q.got \in [Person -> Account]

MailsWell ==
  /\ DOMAIN mails = 1 .. Mails
  /\ \A m \in 1 .. Mails : mails[m] = NoMail \/ MailWell(mails[m])

(* A flag is up while exactly one decision of its kind is under way. *)
OnRequest == {"block", "preset"}
OneUnder(S, flag) ==
  /\ \A m, n \in Under(S) : m = n
  /\ flag <=> \E m \in Under(S) : TRUE
MailsWait ==
  /\ OneUnder(Decision, permBusy) /\ OneUnder({"batch"}, batchBusy) /\ OneUnder(OnRequest, ask.sent)
  /\ \A m \in Under(OnRequest) : mails[m].what = ask.act
  /\ ask.act = "preset" /\ ~ask.sent => ~permBusy

RoleOpen(p) ==
  \E m \in 1 .. Mails : /\ mails[m].at = "answered" /\ mails[m].what = "preset"
                         /\ p \in mails[m].ids
ActiveOpen(p) ==
  \E m \in 1 .. Mails : /\ mails[m].at = "answered" /\ mails[m].what \in {"block", "activate"}
                         /\ p \in mails[m].ids
Relisting ==
  \E m \in 1 .. Mails : \/ mails[m].at \in {"sent", "answered"} /\ mails[m].what = "list"
                        \/ mails[m].at = "answered" /\ mails[m].what = "batch"

(* While the rows are not doubted each says its user's role, and all the rest  *)
(* too unless the list is on its way; the card likewise.                       *)
RowsTell ==
  rowsDoubt = {} =>
    /\ \A p \in Person : rows[p] # Unlisted => rows[p].role = people[p].role \/ RoleOpen(p)
    /\ Relisting \/ \A p \in Person : /\ rows[p] # Unlisted <=> p \in Shows(view)
                                      /\ rows[p] # Unlisted =>
                                           rows[p].active = people[p].active \/ ActiveOpen(p)
CardTells ==
  peopleCard # NoCard /\ cardDoubt = {} =>
    /\ peopleCard.rec.role = people[peopleCard.id].role \/ RoleOpen(peopleCard.id)
    /\ peopleCard.rec.active = people[peopleCard.id].active \/ ActiveOpen(peopleCard.id)

(* Who is asked about, or blocked, in full sight is no administrator. *)
BlocksSure ==
  /\ ask.act = "block" /\ ask.sure => people[ask.id].role # "admin"
  /\ \A m \in 1 .. Mails : mails[m].at = "sent" /\ mails[m].what = "block" /\ mails[m].sure =>
       \A p \in mails[m].ids : people[p].role # "admin"

UsersWell == AdminTypeOK /\ MailsWell
UsersInv == UsersWell /\ MailsWait /\ RowsTell /\ CardTells /\ BlocksSure

-----------------------------------------------------------------------------
LEMMA DialsOfUsers ==
  /\ Mails \in Nat \ {0} /\ MaxDeeds \in Nat /\ MaxLosses \in Nat
  /\ 0 \notin Person /\ PageOne \subseteq Person /\ Found \subseteq Person
BY AdminUsersAssumption

LEMMA MailIs ==
  ASSUME MailsWell, NEW m \in 1 .. Mails
  PROVE  /\ mails[m].at \in {"sent", "answered", "failed"} <=> mails[m] # NoMail
         /\ mails[m] # NoMail => MailWell(mails[m])
BY DEF MailsWell, MailWell, MailRecord, NoMail

LEMMA MailFields ==
  ASSUME NEW q, MailWell(q)
  PROVE  /\ q # NoMail /\ q.at \in {"sent", "answered", "failed"}
         /\ q.what \in {"list", "card", "block", "preset", "activate", "batch"}
         /\ q.ids \subseteq Person /\ q.view \in View /\ q.sure \in BOOLEAN
         /\ q.got \in [Person -> Account \union {Unlisted}]
BY DEF MailWell, MailRecord, NoMail

LEMMA CardIs ==
  ASSUME AdminTypeOK, peopleCard # NoCard
  PROVE  /\ peopleCard.id \in Person /\ peopleCard.rec \in Account
         /\ peopleCard = [id |-> peopleCard.id, rec |-> peopleCard.rec]
BY DEF AdminTypeOK

LEMMA AskIs ==
  ASSUME AdminTypeOK
  PROVE  /\ ask.act \in {"block", "preset", "none"} /\ ask.sent \in BOOLEAN /\ ask.sure \in BOOLEAN
         /\ ask # NoAsk => ask.id \in Person /\ ask.act \in OnRequest /\ ask.to \in Role
         /\ ask = NoAsk => ask.act = "none" /\ ~ask.sent
<1>1. CASE ask = NoAsk
  BY <1>1 DEF NoAsk
<1>2. CASE ask # NoAsk
  <2>1. ask \in [act : {"block", "preset"}, id : Person, to : {"customer", "vendor", "admin"},
                 sent : BOOLEAN, sure : BOOLEAN]
    BY <1>2 DEF AdminTypeOK
  <2> QED BY <1>2, <2>1 DEF OnRequest, Role
<1> QED BY <1>1, <1>2

(* What a new request changes. *)
LEMMA MailAdded ==
  ASSUME MailsWell, NEW q, MailWell(q), FreeMail # {}, mails' = [mails EXCEPT ![NextMail] = q]
  PROVE  /\ MailsWell'
         /\ \E n \in 1 .. Mails :
              /\ mails[n] = NoMail
              /\ \A m \in 1 .. Mails : mails'[m] = IF m = n THEN q ELSE mails[m]
<1>1. NextMail \in FreeMail
  BY DEF NextMail
<1>2. NextMail \in 1 .. Mails /\ mails[NextMail] = NoMail
  BY <1>1 DEF FreeMail
<1>3. \A m \in 1 .. Mails : mails'[m] = IF m = NextMail THEN q ELSE mails[m]
  BY <1>2 DEF MailsWell
<1>4. MailsWell'
  BY <1>3 DEF MailsWell
<1> QED BY <1>2, <1>3, <1>4

LEMMA UnderGrows ==
  ASSUME NEW q, q # NoMail, NEW n \in 1 .. Mails, mails[n] = NoMail,
         \A m \in 1 .. Mails : mails'[m] = IF m = n THEN q ELSE mails[m], NEW S
  PROVE  /\ n \notin Under(S)
         /\ Under(S)' = IF q.what \in S THEN Under(S) \union {n} ELSE Under(S)
BY DEF Under

LEMMA UnderSheds ==
  ASSUME NEW n \in 1 .. Mails, NEW S,
         \A m \in 1 .. Mails : mails'[m] = IF m = n THEN NoMail ELSE mails[m]
  PROVE  Under(S)' = Under(S) \ {n}
BY DEF Under

LEMMA UnderStays ==
  ASSUME NEW n \in 1 .. Mails, NEW S, mails[n] # NoMail, mails'[n] # NoMail,
         mails'[n].what = mails[n].what,
         \A m \in 1 .. Mails : m # n => mails'[m] = mails[m]
  PROVE  Under(S)' = Under(S)
BY DEF Under

LEMMA RowsTellOn ==
  ASSUME RowsTell, UNCHANGED <<people, rows>>, rowsDoubt' = {} => rowsDoubt = {},
         \A p \in Person : RoleOpen(p) => RoleOpen(p)',
         rowsDoubt' = {} => \/ Relisting'
                            \/ /\ ~Relisting /\ view' = view
                               /\ \A p \in Person : ActiveOpen(p) => ActiveOpen(p)'
  PROVE  RowsTell'
BY DEF RowsTell, Shows

LEMMA CardTellsOn ==
  ASSUME CardTells, AdminTypeOK, UNCHANGED <<people, peopleCard, cardDoubt>>,
         \A p \in Person : RoleOpen(p) => RoleOpen(p)',
         \A p \in Person : ActiveOpen(p) => ActiveOpen(p)'
  PROVE  CardTells'
BY CardIs DEF CardTells

LEMMA Adds ==
  ASSUME UsersInv, NEW q, MailWell(q), q.at = "sent", FreeMail # {},
         mails' = [mails EXCEPT ![NextMail] = q],
         UNCHANGED <<people, rows, peopleCard, rowsDoubt, cardDoubt>>,
         view' = view \/ q.what = "list"
  PROVE  /\ MailsWell' /\ RowsTell' /\ CardTells'
         /\ \E n \in 1 .. Mails :
              /\ mails[n] = NoMail
              /\ \A m \in 1 .. Mails : mails'[m] = IF m = n THEN q ELSE mails[m]
<1>1. MailsWell'
  BY MailAdded DEF UsersInv, UsersWell
<1>2. PICK n \in 1 .. Mails :
        /\ mails[n] = NoMail
        /\ \A m \in 1 .. Mails : mails'[m] = IF m = n THEN q ELSE mails[m]
  BY MailAdded DEF UsersInv, UsersWell
<1>3. mails[n].at = "none"
  BY <1>2 DEF NoMail
<1>4. \A p \in Person : RoleOpen(p) => RoleOpen(p)'
  BY <1>2, <1>3 DEF RoleOpen
<1>5. \A p \in Person : ActiveOpen(p) => ActiveOpen(p)'
  BY <1>2, <1>3 DEF ActiveOpen
<1>6. Relisting => Relisting'
  BY <1>2, <1>3 DEF Relisting
<1>7. q.what = "list" => Relisting'
  BY <1>2 DEF Relisting
<1>8. RowsTell'
  BY <1>4, <1>5, <1>6, <1>7, RowsTellOn DEF UsersInv
<1>9. CardTells'
  BY <1>4, <1>5, CardTellsOn DEF UsersInv, UsersWell
<1> QED BY <1>1, <1>2, <1>8, <1>9

LEMMA MailMade ==
  ASSUME AdminTypeOK, NEW what, NEW ids, NEW to,
         what \in {"list", "card", "block", "preset", "activate", "batch"}, ids \subseteq Person,
         to \in Role \union {"on", "off"},
         what \in {"card", "block", "preset", "activate"} => \E p \in Person : ids = {p},
         what = "preset" => to \in Role
  PROVE  /\ MailWell(Mail(what, ids, to))
         /\ Mail(what, ids, to).at = "sent" /\ Mail(what, ids, to).what = what
         /\ Mail(what, ids, to).ids = ids /\ Mail(what, ids, to).sure = ask.sure
<1>1. ask.sure \in BOOLEAN /\ view \in View /\ rows \in [Person -> Account \union {Unlisted}]
  BY AskIs DEF AdminTypeOK
<1> QED BY <1>1 DEF Mail, MailWell, MailRecord

LEMMA ListMade ==
  ASSUME AdminTypeOK, NEW v \in View
  PROVE  MailWell(ListMail(v)) /\ ListMail(v).at = "sent" /\ ListMail(v).what = "list"
<1>1. ask.sure \in BOOLEAN /\ view \in View /\ rows \in [Person -> Account \union {Unlisted}]
  BY AskIs DEF AdminTypeOK
<1> QED BY <1>1 DEF ListMail, Mail, MailWell, MailRecord, Role, View

(* A request that is no decision. *)
LEMMA LooksInv ==
  ASSUME UsersInv, NEW v \in View, Looks(v) PROVE UsersInv'
<1> DEFINE q == ListMail(v)
<1>1. MailWell(q) /\ q.at = "sent" /\ q.what = "list"
  BY ListMade DEF UsersInv, UsersWell
<1>2. FreeMail # {} /\ mails' = [mails EXCEPT ![NextMail] = q]
  BY DEF Looks, SendMail
<1> HIDE DEF q
<1>3. UNCHANGED <<people, rows, peopleCard, ask, permBusy, batchBusy, rowsDoubt, cardDoubt>>
  BY DEF Looks, doubts
<1>4. /\ MailsWell' /\ RowsTell' /\ CardTells'
      /\ \E n \in 1 .. Mails :
           /\ mails[n] = NoMail
           /\ \A m \in 1 .. Mails : mails'[m] = IF m = n THEN q ELSE mails[m]
  BY <1>1, <1>2, <1>3, Adds
<1>5. PICK n \in 1 .. Mails :
        /\ mails[n] = NoMail
        /\ \A m \in 1 .. Mails : mails'[m] = IF m = n THEN q ELSE mails[m]
  BY <1>4
<1>6. \A S : q.what \notin S => Under(S)' = Under(S)
  BY <1>1, <1>5, UnderGrows, MailFields
<1>7. MailsWait'
  <2>1. /\ Under(Decision)' = Under(Decision) /\ Under({"batch"})' = Under({"batch"})
        /\ Under(OnRequest)' = Under(OnRequest)
    BY <1>1, <1>6 DEF Decision, OnRequest
  <2>2. \A m \in Under(OnRequest) : mails'[m] = mails[m]
    BY <1>5 DEF Under
  <2> QED BY <1>3, <2>1, <2>2 DEF MailsWait, OneUnder, UsersInv
<1>8. BlocksSure'
  BY <1>1, <1>3, <1>5 DEF BlocksSure, UsersInv
<1>9. AdminTypeOK'
  BY DialsOfUsers DEF Looks, Deed, AdminTypeOK, UsersInv, UsersWell, MailsWell, SendMail, doubts
<1> QED BY <1>4, <1>7, <1>8, <1>9 DEF UsersInv, UsersWell


LEMMA SameMails ==
  ASSUME UNCHANGED mails
  PROVE  /\ \A S : Under(S)' = Under(S)
         /\ Relisting' = Relisting
         /\ \A p : RoleOpen(p)' = RoleOpen(p) /\ ActiveOpen(p)' = ActiveOpen(p)
<1>1. \A S : Under(S)' = Under(S)
  BY DEF Under
<1>2. Relisting' = Relisting
  BY DEF Relisting
<1>3. \A p : RoleOpen(p)' = RoleOpen(p) /\ ActiveOpen(p)' = ActiveOpen(p)
  BY DEF RoleOpen, ActiveOpen
<1> QED BY <1>1, <1>2, <1>3

(* What touches neither the server nor the requests. *)
LEMMA MailsRest ==
  ASSUME UsersInv, UNCHANGED <<mails, people, view, rows, rowsDoubt, permBusy, batchBusy>>
  PROVE  MailsWell' /\ RowsTell'
<1>1. MailsWell'
  BY DEF MailsWell, UsersInv, UsersWell
<1>2. RowsTell'
  BY SameMails DEF RowsTell, Shows, UsersInv
<1> QED BY <1>1, <1>2

LEMMA CardRests ==
  ASSUME UsersInv, UNCHANGED <<mails, people>>,
         \/ peopleCard' = NoCard
         \/ UNCHANGED <<peopleCard, cardDoubt>>
  PROVE  CardTells'
BY SameMails, CardIs DEF CardTells, UsersInv, UsersWell

LEMMA WaitsRest ==
  ASSUME UsersInv, UNCHANGED <<mails, permBusy, batchBusy>>, ask'.sent = ask.sent,
         ask.sent => ask'.act = ask.act, ask'.act = "preset" /\ ~ask.sent => ~permBusy
  PROVE  MailsWait'
<1>1. /\ Under(Decision)' = Under(Decision) /\ Under({"batch"})' = Under({"batch"})
      /\ Under(OnRequest)' = Under(OnRequest)
  BY SameMails DEF Decision, OnRequest
<1> QED BY <1>1 DEF MailsWait, OneUnder, UsersInv

LEMMA BlocksRest ==
  ASSUME UsersInv, UNCHANGED <<mails, people, ask>>
  PROVE  BlocksSure'
BY DEF BlocksSure, UsersInv

LEMMA NobodyAsked ==
  ASSUME UsersInv, ask = NoAsk
  PROVE  /\ \A m \in 1 .. Mails : mails[m] # NoMail => mails[m].what \notin OnRequest
         /\ \A p : ~RoleOpen(p)
<1>1. Under(OnRequest) = {}
  BY AskIs DEF UsersInv, UsersWell, MailsWait, OneUnder
<1>2. \A m \in 1 .. Mails : mails[m] # NoMail => mails[m].what \notin OnRequest
  BY <1>1 DEF Under
<1>3. \A p : ~RoleOpen(p)
  BY <1>2, MailIs DEF RoleOpen, OnRequest, UsersInv, UsersWell
<1> QED BY <1>2, <1>3

LEMMA AsksInv ==
  ASSUME UsersInv, ask = NoAsk, NEW act \in OnRequest, NEW p \in Person, NEW to \in Role, NEW why,
         act = "preset" => ~permBusy,
         act = "block" /\ why = {} => people[p].role # "admin",
         deeds < MaxDeeds, deeds' = deeds + 1,
         ask' = [act |-> act, id |-> p, to |-> to, sent |-> FALSE, sure |-> why = {}],
         UNCHANGED <<people, view, rows, listLoading, peopleCard, permBusy, batchBusy, ticked,
                     mails, losses, doubts>>
  PROVE  UsersInv'
<1>1. UNCHANGED <<rowsDoubt, cardDoubt>>
  BY DEF doubts
<1>2. MailsWell' /\ RowsTell' /\ CardTells'
  BY <1>1, MailsRest, CardRests
<1>3. ~ask.sent /\ ask'.act = act /\ ~ask'.sent /\ ask'.id = p /\ (ask'.sure <=> why = {})
  BY DEF NoAsk
<1>4. MailsWait'
  BY <1>3, AskIs, WaitsRest DEF UsersInv, UsersWell
<1>5. BlocksSure'
  BY <1>3 DEF BlocksSure, UsersInv
<1>6. AdminTypeOK'
  <2>1. ask' \in [act : {"block", "preset"}, id : Person, to : {"customer", "vendor", "admin"},
                  sent : BOOLEAN, sure : BOOLEAN]
    BY DEF OnRequest, Role
  <2>2. deeds' \in 0 .. MaxDeeds
    BY DialsOfUsers DEF UsersInv, UsersWell, AdminTypeOK
  <2> QED BY <2>1, <2>2 DEF AdminTypeOK, UsersInv, UsersWell, doubts
<1> QED BY <1>2, <1>4, <1>5, <1>6 DEF UsersInv, UsersWell

LEMMA BlockFromRowInv ==
  ASSUME UsersInv, NEW p \in Person, BlockFromRow(p) PROVE UsersInv'
<1>1. ask = NoAsk /\ rows[p] # Unlisted /\ rows[p].role # "admin"
  BY DEF BlockFromRow, Reach, Covered, Ordinary
<1>2. rowsDoubt = {} => people[p].role # "admin"
  BY <1>1, NobodyAsked DEF RowsTell, UsersInv
<1> QED BY <1>1, <1>2, AsksInv DEF BlockFromRow, Asks, Deed, OnRequest, Role

LEMMA BlockFromCardInv ==
  ASSUME UsersInv, BlockFromCard PROVE UsersInv'
<1>1. ask = NoAsk /\ peopleCard # NoCard /\ peopleCard.rec.role # "admin"
  BY DEF BlockFromCard, MayDecide, Ordinary
<1>2. peopleCard.id \in Person
  BY <1>1, CardIs DEF UsersInv, UsersWell
<1>3. cardDoubt = {} => people[peopleCard.id].role # "admin"
  BY <1>1, NobodyAsked DEF CardTells, UsersInv
<1> DEFINE p == peopleCard.id
           why == cardDoubt
<1>4. Asks("block", p, "customer", why) /\ p \in Person /\ (why = {} => people[p].role # "admin")
  BY <1>2, <1>3 DEF BlockFromCard
<1> HIDE DEF p, why
<1> QED BY <1>1, <1>4, AsksInv DEF Asks, Deed, OnRequest, Role

LEMMA AskRoleInv ==
  ASSUME UsersInv, AskRole PROVE UsersInv'
<1>1. ask = NoAsk /\ peopleCard # NoCard /\ ~permBusy
  BY DEF AskRole, MayDecide
<1>2. peopleCard.id \in Person
  BY <1>1, CardIs DEF UsersInv, UsersWell
<1> DEFINE p == peopleCard.id
           why == cardDoubt
<1>3. PICK to \in Role : Asks("preset", p, to, why)
  BY DEF AskRole, Role
<1>4. p \in Person
  BY <1>2
<1> HIDE DEF p, why
<1> QED BY <1>1, <1>3, <1>4, AsksInv DEF Asks, Deed, OnRequest

LEMMA TicksInv ==
  ASSUME UsersInv, NEW to \in SUBSET Person, Ticks(to) PROVE UsersInv'
<1>1. UNCHANGED <<mails, people, view, rows, peopleCard, ask, permBusy, batchBusy, rowsDoubt, cardDoubt>>
  BY DEF Ticks, doubts
<1>2. MailsWell' /\ RowsTell' /\ CardTells' /\ BlocksSure'
  BY <1>1, MailsRest, CardRests, BlocksRest
<1>3. MailsWait'
  BY <1>1, WaitsRest DEF UsersInv, MailsWait
<1>4. AdminTypeOK'
  BY <1>1, DialsOfUsers DEF Ticks, Deed, AdminTypeOK, UsersInv, UsersWell
<1> QED BY <1>2, <1>3, <1>4 DEF UsersInv, UsersWell

LEMMA UsersRestInv ==
  ASSUME UsersInv, ClosePerson \/ Refrain \/ UNCHANGED adminVars PROVE UsersInv'
<1>1. /\ UNCHANGED <<mails, people, view, rows, permBusy, batchBusy, rowsDoubt, ticked, deeds,
                     losses, listLoading>>
      /\ peopleCard' = NoCard \/ UNCHANGED <<peopleCard, cardDoubt>>
      /\ UNCHANGED ask \/ (~ask.sent /\ ask' = NoAsk)
  BY DEF ClosePerson, Refrain, adminVars, usersPage, doubts
<1>2. MailsWell' /\ RowsTell' /\ CardTells'
  BY <1>1, MailsRest, CardRests
<1>3. ask' = NoAsk => ask'.act = "none" /\ ask'.sent = FALSE
  BY DEF NoAsk
<1>4. MailsWait'
  <2>1. ask'.sent = ask.sent /\ (ask.sent => ask'.act = ask.act)
    <3>1. CASE UNCHANGED ask
      BY <3>1
    <3>2. CASE ~ask.sent /\ ask' = NoAsk
      BY <3>2, <1>3, AskIs DEF UsersInv, UsersWell
    <3> QED BY <1>1, <3>1, <3>2
  <2>2. ask'.act = "preset" /\ ~ask.sent => ~permBusy
    BY <1>1, <1>3 DEF UsersInv, MailsWait
  <2> QED BY <1>1, <2>1, <2>2, WaitsRest
<1>5. BlocksSure'
  BY <1>1, <1>3 DEF BlocksSure, UsersInv
<1>6. AdminTypeOK'
  BY <1>1 DEF AdminTypeOK, UsersInv, UsersWell
<1> QED BY <1>2, <1>4, <1>5, <1>6 DEF UsersInv, UsersWell

LEMMA OpenPersonInv ==
  ASSUME UsersInv, NEW p \in Person, OpenPerson(p) PROVE UsersInv'
<1> DEFINE q == Mail("card", {p}, "customer")
<1>1. MailWell(q) /\ q.at = "sent" /\ q.what = "card"
  BY MailMade DEF UsersInv, UsersWell, Role
<1>2. FreeMail # {} /\ mails' = [mails EXCEPT ![NextMail] = q]
  BY DEF OpenPerson, SendMail
<1> HIDE DEF q
<1>3. UNCHANGED <<people, rows, peopleCard, view, ask, permBusy, batchBusy, rowsDoubt, cardDoubt>>
  BY DEF OpenPerson, doubts, usersPage
<1>4. /\ MailsWell' /\ RowsTell' /\ CardTells'
      /\ \E n \in 1 .. Mails :
           /\ mails[n] = NoMail
           /\ \A m \in 1 .. Mails : mails'[m] = IF m = n THEN q ELSE mails[m]
  BY <1>1, <1>2, <1>3, Adds
<1>5. PICK n \in 1 .. Mails :
        /\ mails[n] = NoMail
        /\ \A m \in 1 .. Mails : mails'[m] = IF m = n THEN q ELSE mails[m]
  BY <1>4
<1>6. \A S : q.what \notin S => Under(S)' = Under(S)
  BY <1>1, <1>5, UnderGrows, MailFields
<1>7. MailsWait'
  <2>1. /\ Under(Decision)' = Under(Decision) /\ Under({"batch"})' = Under({"batch"})
        /\ Under(OnRequest)' = Under(OnRequest)
    BY <1>1, <1>6 DEF Decision, OnRequest
  <2>2. \A m \in Under(OnRequest) : mails'[m] = mails[m]
    BY <1>5 DEF Under
  <2> QED BY <1>3, <2>1, <2>2 DEF MailsWait, OneUnder, UsersInv
<1>8. BlocksSure'
  BY <1>1, <1>3, <1>5 DEF BlocksSure, UsersInv
<1>9. AdminTypeOK'
  BY DialsOfUsers, <1>4 DEF OpenPerson, Deed, AdminTypeOK, UsersInv, UsersWell, MailsWell, doubts, usersPage
<1> QED BY <1>4, <1>7, <1>8, <1>9 DEF UsersInv, UsersWell


(* A decision is sent: none of its kind was under way. *)
LEMMA ConfirmAskInv ==
  ASSUME UsersInv, ask # NoAsk, ~ask.sent,
         SendMail(Mail(ask.act, {ask.id}, ask.to)),
         ask' = [ask EXCEPT !.sent = TRUE],
         permBusy' = (permBusy \/ ask.act = "preset"),
         UNCHANGED <<people, view, rows, listLoading, peopleCard, batchBusy, ticked, deeds,
                     losses, doubts>>
  PROVE  UsersInv'
<1> DEFINE q == Mail(ask.act, {ask.id}, ask.to)
<1>1. /\ MailWell(q) /\ q.at = "sent" /\ q.what = ask.act /\ q.ids = {ask.id} /\ q.sure = ask.sure
      /\ ask.act \in OnRequest
  <2>1. ask.id \in Person /\ ask.act \in OnRequest /\ ask.to \in Role
    BY AskIs DEF UsersInv, UsersWell
  <2> DEFINE act == ask.act
             ids == {ask.id}
             to == ask.to
  <2>2. act \in OnRequest /\ ids \subseteq Person /\ to \in Role /\ \E p \in Person : ids = {p}
    BY <2>1
  <2> HIDE DEF act, ids, to
  <2>3. /\ MailWell(Mail(act, ids, to))
        /\ Mail(act, ids, to).at = "sent" /\ Mail(act, ids, to).what = act
        /\ Mail(act, ids, to).ids = ids /\ Mail(act, ids, to).sure = ask.sure
    BY <2>2, MailMade DEF UsersInv, UsersWell, OnRequest
  <2> QED BY <2>1, <2>3 DEF act, ids, to
<1>2. FreeMail # {} /\ mails' = [mails EXCEPT ![NextMail] = q]
  BY DEF SendMail
<1> HIDE DEF q
<1>3. UNCHANGED <<people, rows, peopleCard, view, batchBusy, rowsDoubt, cardDoubt>>
  BY DEF doubts
<1>4. /\ MailsWell' /\ RowsTell' /\ CardTells'
      /\ \E n \in 1 .. Mails :
           /\ mails[n] = NoMail
           /\ \A m \in 1 .. Mails : mails'[m] = IF m = n THEN q ELSE mails[m]
  BY <1>1, <1>2, <1>3, Adds
<1>5. PICK n \in 1 .. Mails :
        /\ mails[n] = NoMail
        /\ \A m \in 1 .. Mails : mails'[m] = IF m = n THEN q ELSE mails[m]
  BY <1>4
<1>6. \A S : n \notin Under(S) /\ Under(S)' = IF q.what \in S THEN Under(S) \union {n} ELSE Under(S)
  BY <1>1, <1>5, UnderGrows, MailFields
<1>7. MailsWait'
  <2>1. Under({"batch"})' = Under({"batch"})
    BY <1>1, <1>6 DEF OnRequest
  <2>2. Under(OnRequest) = {} /\ Under(OnRequest)' = {n}
    <3>1. Under(OnRequest) = {}
      BY DEF MailsWait, OneUnder, UsersInv
    <3>2. Under(OnRequest)' = Under(OnRequest) \union {n}
      BY <1>1, <1>6
    <3> QED BY <3>1, <3>2
  <2>3. ask'.sent /\ ask'.act = ask.act
    BY AskIs DEF UsersInv, UsersWell, AdminTypeOK, NoAsk
  <2>4. mails'[n].what = ask'.act
    BY <1>1, <1>5, <2>3
  <2>5. OneUnder(Decision, permBusy)'
    <3>1. CASE ask.act = "preset"
      <4>1. Under(Decision) = {}
        BY <3>1 DEF MailsWait, OneUnder, UsersInv
      <4>2. Under(Decision)' = Under(Decision) \union {n}
        BY <3>1, <1>1, <1>6 DEF Decision
      <4> QED BY <3>1, <4>1, <4>2 DEF OneUnder
    <3>2. CASE ask.act = "block"
      <4>1. Under(Decision)' = Under(Decision)
        BY <3>2, <1>1, <1>6 DEF Decision
      <4>2. permBusy' = permBusy
        BY <3>2 DEF UsersInv, UsersWell, AdminTypeOK
      <4> QED BY <4>1, <4>2 DEF OneUnder, MailsWait, UsersInv
    <3> QED BY <1>1, <3>1, <3>2 DEF OnRequest
  <2>6. OneUnder({"batch"}, batchBusy)'
    BY <1>3, <2>1 DEF OneUnder, MailsWait, UsersInv
  <2>7. OneUnder(OnRequest, ask.sent)'
    BY <2>2, <2>3 DEF OneUnder
  <2> QED BY <2>2, <2>3, <2>4, <2>5, <2>6, <2>7 DEF MailsWait
<1>8. BlocksSure'
  <2>1. ask'.act = ask.act /\ ask'.id = ask.id /\ ask'.sure = ask.sure
    BY AskIs DEF UsersInv, UsersWell, AdminTypeOK, NoAsk
  <2> QED BY <1>1, <1>3, <1>5, <2>1 DEF BlocksSure, UsersInv
<1>9. AdminTypeOK'
  <2>1. ask' \in [act : {"block", "preset"}, id : Person, to : {"customer", "vendor", "admin"},
                  sent : BOOLEAN, sure : BOOLEAN]
    BY DEF AdminTypeOK, UsersInv, UsersWell
  <2>2. permBusy' \in BOOLEAN
    BY DEF AdminTypeOK, UsersInv, UsersWell
  <2> QED BY <1>4, <2>1, <2>2 DEF AdminTypeOK, UsersInv, UsersWell, MailsWell, doubts
<1> QED BY <1>4, <1>7, <1>8, <1>9 DEF UsersInv, UsersWell

LEMMA ActivateInv ==
  ASSUME UsersInv, Activate PROVE UsersInv'
<1> DEFINE q == Mail("activate", {peopleCard.id}, "customer")
<1>0. peopleCard # NoCard /\ ~permBusy /\ peopleCard.id \in Person /\ ask = NoAsk
  BY CardIs DEF Activate, MayDecide, UsersInv, UsersWell
<1>1. MailWell(q) /\ q.at = "sent" /\ q.what = "activate"
  <2> DEFINE ids == {peopleCard.id}
  <2>1. ids \subseteq Person /\ \E p \in Person : ids = {p}
    BY <1>0
  <2> HIDE DEF ids
  <2>2. LET k == Mail("activate", ids, "customer")
        IN  MailWell(k) /\ k.at = "sent" /\ k.what = "activate"
    BY <2>1, MailMade DEF UsersInv, UsersWell, Role
  <2> QED BY <2>2 DEF ids
<1>2. FreeMail # {} /\ mails' = [mails EXCEPT ![NextMail] = q]
  BY DEF Activate, SendMail
<1> HIDE DEF q
<1>3. UNCHANGED <<people, rows, peopleCard, view, ask, batchBusy, rowsDoubt, cardDoubt>>
  BY DEF Activate, doubts
<1>4. /\ MailsWell' /\ RowsTell' /\ CardTells'
      /\ \E n \in 1 .. Mails :
           /\ mails[n] = NoMail
           /\ \A m \in 1 .. Mails : mails'[m] = IF m = n THEN q ELSE mails[m]
  BY <1>1, <1>2, <1>3, Adds
<1>5. PICK n \in 1 .. Mails :
        /\ mails[n] = NoMail
        /\ \A m \in 1 .. Mails : mails'[m] = IF m = n THEN q ELSE mails[m]
  BY <1>4
<1>6. \A S : n \notin Under(S) /\ Under(S)' = IF q.what \in S THEN Under(S) \union {n} ELSE Under(S)
  BY <1>1, <1>5, UnderGrows, MailFields
<1>7. MailsWait'
  <2>1. Under({"batch"})' = Under({"batch"}) /\ Under(OnRequest)' = Under(OnRequest)
    BY <1>1, <1>6 DEF OnRequest
  <2>2. Under(Decision) = {} /\ Under(Decision)' = Under(Decision) \union {n}
    BY <1>0, <1>1, <1>6 DEF Decision, MailsWait, OneUnder, UsersInv
  <2>3. permBusy' = TRUE /\ ask'.act = "none"
    BY <1>0, <1>3 DEF Activate, NoAsk
  <2>4. \A m \in Under(OnRequest) : mails'[m] = mails[m]
    BY <1>5 DEF Under
  <2> QED BY <1>3, <2>1, <2>2, <2>3, <2>4 DEF MailsWait, OneUnder, UsersInv
<1>8. BlocksSure'
  BY <1>1, <1>3, <1>5 DEF BlocksSure, UsersInv
<1>9. AdminTypeOK'
  BY DialsOfUsers, <1>4 DEF Activate, Deed, AdminTypeOK, UsersInv, UsersWell, MailsWell, doubts
<1> QED BY <1>4, <1>7, <1>8, <1>9 DEF UsersInv, UsersWell

LEMMA BatchInv ==
  ASSUME UsersInv, Batch PROVE UsersInv'
<1>1. PICK to \in {"on", "off"} : SendMail(Mail("batch", ticked, to))
  BY DEF Batch
<1> DEFINE q == Mail("batch", ticked, to)
<1>2. MailWell(q) /\ q.at = "sent" /\ q.what = "batch"
  <2> DEFINE ids == ticked
  <2>1. ids \subseteq Person
    BY DEF UsersInv, UsersWell, AdminTypeOK
  <2> HIDE DEF ids
  <2>2. LET k == Mail("batch", ids, to)
        IN  MailWell(k) /\ k.at = "sent" /\ k.what = "batch"
    BY <2>1, MailMade DEF UsersInv, UsersWell, Role
  <2> QED BY <2>2 DEF ids
<1>3. /\ FreeMail # {} /\ mails' = [mails EXCEPT ![NextMail] = q]
      /\ UNCHANGED <<people, rows, peopleCard, view, ask, permBusy, rowsDoubt, cardDoubt>>
      /\ ~batchBusy /\ batchBusy' = TRUE
  BY <1>1 DEF Batch, SendMail, doubts
<1> HIDE DEF q
<1>4. /\ MailsWell' /\ RowsTell' /\ CardTells'
      /\ \E n \in 1 .. Mails :
           /\ mails[n] = NoMail
           /\ \A m \in 1 .. Mails : mails'[m] = IF m = n THEN q ELSE mails[m]
  BY <1>2, <1>3, Adds
<1>5. PICK n \in 1 .. Mails :
        /\ mails[n] = NoMail
        /\ \A m \in 1 .. Mails : mails'[m] = IF m = n THEN q ELSE mails[m]
  BY <1>4
<1>6. \A S : n \notin Under(S) /\ Under(S)' = IF q.what \in S THEN Under(S) \union {n} ELSE Under(S)
  BY <1>2, <1>5, UnderGrows, MailFields
<1>7. MailsWait'
  <2>1. Under(Decision)' = Under(Decision) /\ Under(OnRequest)' = Under(OnRequest)
    BY <1>2, <1>6 DEF OnRequest, Decision
  <2>2. Under({"batch"}) = {} /\ Under({"batch"})' = Under({"batch"}) \union {n}
    BY <1>2, <1>3, <1>6 DEF MailsWait, OneUnder, UsersInv
  <2>4. \A m \in Under(OnRequest) : mails'[m] = mails[m]
    BY <1>5 DEF Under
  <2> QED BY <1>3, <2>1, <2>2, <2>4 DEF MailsWait, OneUnder, UsersInv
<1>8. BlocksSure'
  BY <1>2, <1>3, <1>5 DEF BlocksSure, UsersInv
<1>9. AdminTypeOK'
  BY DialsOfUsers, <1>4 DEF Batch, Deed, AdminTypeOK, UsersInv, UsersWell, MailsWell, doubts
<1> QED BY <1>4, <1>7, <1>8, <1>9 DEF UsersInv, UsersWell


(* The server. *)
LEMMA PersonIs ==
  ASSUME AdminTypeOK, NEW p \in Person
  PROVE  /\ people[p] \in Account /\ people[p].active \in BOOLEAN /\ people[p].role \in Role
         /\ people[p] = [active |-> people[p].active, role |-> people[p].role]
BY DEF AdminTypeOK, Account, Role

LEMMA DecidedIs ==
  ASSUME AdminTypeOK, NEW q, MailWell(q), q.what \notin {"list", "card"}, people' = Decided(q)
  PROVE  /\ people' \in [Person -> Account]
         /\ \A p \in Person :
              /\ q.what # "preset" \/ p \notin q.ids => people'[p].role = people[p].role
              /\ q.what = "preset" \/ p \notin q.ids => people'[p].active = people[p].active
              /\ q.what = "activate" /\ p \in q.ids => people'[p].active
<1>1. people' = [p \in Person |-> people'[p]]
  BY DEF Decided
<1>2. ASSUME NEW p \in Person
      PROVE  /\ people'[p] \in Account
             /\ q.what # "preset" \/ p \notin q.ids => people'[p].role = people[p].role
             /\ q.what = "preset" \/ p \notin q.ids => people'[p].active = people[p].active
             /\ q.what = "activate" /\ p \in q.ids => people'[p].active
  <2>1. people[p] \in Account
    BY PersonIs
  <2>2. people'[p] = IF p \notin q.ids THEN people[p]
                     ELSE CASE q.what = "block" -> [people[p] EXCEPT !.active = FALSE]
                            [] q.what = "activate" -> [people[p] EXCEPT !.active = TRUE]
                            [] q.what = "preset" -> [people[p] EXCEPT !.role = q.to]
                            [] OTHER -> [people[p] EXCEPT !.active = (q.to = "on")]
    BY DEF Decided
  <2>3. CASE p \notin q.ids
    BY <2>1, <2>2, <2>3
  <2>4. CASE p \in q.ids /\ q.what = "block"
    BY <2>1, <2>2, <2>4 DEF Account
  <2>5. CASE p \in q.ids /\ q.what = "activate"
    BY <2>1, <2>2, <2>5 DEF Account
  <2>6. CASE p \in q.ids /\ q.what = "preset"
    <3>1. q.to \in Role
      BY <2>6 DEF MailWell
    <3> QED BY <2>1, <2>2, <2>6, <3>1 DEF Account, Role
  <2>7. CASE p \in q.ids /\ q.what \notin {"block", "activate", "preset"}
    BY <2>1, <2>2, <2>7 DEF Account
  <2> QED BY <2>3, <2>4, <2>5, <2>6, <2>7
<1> QED BY <1>1, <1>2

LEMMA ListingIs ==
  ASSUME AdminTypeOK, NEW v
  PROVE  /\ Listing(v) \in [Person -> Account \union {Unlisted}]
         /\ \A p \in Person : /\ Listing(v)[p] # Unlisted <=> p \in Shows(v)
                              /\ p \in Shows(v) => Listing(v)[p] = people[p]
<1>1. \A p \in Person : people[p] \in Account /\ people[p] # Unlisted
  <2>1. Unlisted.role \notin Role
    BY DEF Unlisted, Role
  <2> QED BY <2>1, PersonIs
<1> QED BY <1>1 DEF Listing

LEMMA MailServed ==
  ASSUME MailsWell, NEW m \in 1 .. Mails, mails[m].at = "sent",
         \/ mails' = [mails EXCEPT ![m].at = "failed"]
         \/ mails' = [mails EXCEPT ![m].at = "answered"] /\ mails[m].what # "card"
         \/ \E g \in [Person -> Account \union {Unlisted}] :
              /\ mails[m].what = "card" => g \in [Person -> Account]
              /\ mails' = [mails EXCEPT ![m].at = "answered", ![m].got = g]
  PROVE  /\ MailsWell' /\ mails[m] # NoMail /\ mails'[m] # NoMail
         /\ mails'[m].at \in {"answered", "failed"} /\ mails'[m].what = mails[m].what
         /\ mails'[m].ids = mails[m].ids
         /\ \A n \in 1 .. Mails : n # m => mails'[n] = mails[n]
<1>1. MailWell(mails[m])
  BY MailIs
<1> DEFINE q == mails[m]
<1>2. MailWell(q)
  BY <1>1
<1>3. \A n \in 1 .. Mails : n # m => mails'[n] = mails[n]
  BY DEF MailsWell
<1>4. DOMAIN mails' = 1 .. Mails
  BY DEF MailsWell
<1>5. \/ mails'[m] = [q EXCEPT !.at = "failed"]
      \/ mails'[m] = [q EXCEPT !.at = "answered"] /\ q.what # "card"
      \/ \E g \in [Person -> Account \union {Unlisted}] :
           /\ q.what = "card" => g \in [Person -> Account]
           /\ mails'[m] = [q EXCEPT !.at = "answered", !.got = g]
  BY DEF MailsWell
<1> HIDE DEF q
<1>6. /\ MailWell(mails'[m]) /\ mails'[m].what = q.what /\ mails'[m].ids = q.ids
      /\ mails'[m].at \in {"answered", "failed"}
  <2>1. CASE mails'[m] = [q EXCEPT !.at = "failed"]
    BY <1>2, <2>1 DEF MailWell, MailRecord
  <2>2. CASE mails'[m] = [q EXCEPT !.at = "answered"] /\ q.what # "card"
    BY <1>2, <2>2 DEF MailWell, MailRecord
  <2>3. CASE \E g \in [Person -> Account \union {Unlisted}] :
              /\ q.what = "card" => g \in [Person -> Account]
              /\ mails'[m] = [q EXCEPT !.at = "answered", !.got = g]
    <3>1. PICK g \in [Person -> Account \union {Unlisted}] :
              /\ q.what = "card" => g \in [Person -> Account]
              /\ mails'[m] = [q EXCEPT !.at = "answered", !.got = g]
      BY <2>3
    <3> QED BY <1>2, <3>1 DEF MailWell, MailRecord
  <2> QED BY <1>5, <2>1, <2>2, <2>3
<1>7. q # NoMail /\ mails'[m] # NoMail
  BY <1>2, <1>6, MailFields
<1>8. MailsWell'
  BY <1>3, <1>4, <1>6 DEF MailsWell
<1> QED BY <1>3, <1>6, <1>7, <1>8 DEF q

LEMMA WaitsServed ==
  ASSUME UsersInv, NEW m \in 1 .. Mails, mails[m] # NoMail, mails'[m] # NoMail,
         mails'[m].what = mails[m].what, \A n \in 1 .. Mails : n # m => mails'[n] = mails[n],
         UNCHANGED <<ask, permBusy, batchBusy>>
  PROVE  MailsWait'
<1>1. /\ Under(Decision)' = Under(Decision) /\ Under({"batch"})' = Under({"batch"})
      /\ Under(OnRequest)' = Under(OnRequest)
  BY UnderStays DEF Decision, OnRequest
<1>2. \A n \in Under(OnRequest) : mails'[n].what = mails[n].what
  BY DEF Under
<1> QED BY <1>1, <1>2 DEF MailsWait, OneUnder, UsersInv

(* A decision served: the rows and the card follow with its answer. *)
LEMMA DecisionServed ==
  ASSUME UsersInv, NEW m \in 1 .. Mails, NEW q, q = mails[m], MailWell(q), q.at = "sent",
         q.what \notin {"list", "card"}, people' = Decided(q), mails' = [mails EXCEPT ![m].at = "answered"],
         cardDoubt' = IF q.what = "batch" /\ peopleCard # NoCard
                      THEN cardDoubt \union {"batch"} ELSE cardDoubt,
         UNCHANGED <<usersPage, deeds, losses, rowsDoubt>>
  PROVE  UsersInv'
<1>1. /\ UNCHANGED <<view, rows, listLoading, peopleCard, ask, permBusy, batchBusy, ticked>>
      /\ AdminTypeOK /\ MailsWell /\ mails[m].at = "sent" /\ mails[m].what # "card"
  BY DEF usersPage, UsersInv, UsersWell
<1>2. /\ MailsWell' /\ mails[m] # NoMail /\ mails'[m] # NoMail
      /\ mails'[m].what = q.what /\ mails'[m].ids = q.ids
      /\ \A n \in 1 .. Mails : n # m => mails'[n] = mails[n]
  BY <1>1, MailServed
<1>3. mails'[m].at = "answered"
  BY <1>1 DEF MailsWell, MailWell, MailRecord
<1>4. /\ people' \in [Person -> Account]
      /\ \A p \in Person :
           /\ q.what # "preset" \/ p \notin q.ids => people'[p].role = people[p].role
           /\ q.what = "preset" \/ p \notin q.ids => people'[p].active = people[p].active
  BY <1>1, DecidedIs
<1>5. MailsWait'
  BY <1>1, <1>2, WaitsServed
<1>6. \A p \in Person : RoleOpen(p) \/ (q.what = "preset" /\ p \in q.ids) => RoleOpen(p)'
  BY <1>1, <1>2, <1>3 DEF RoleOpen
<1>7. q.what \in {"list", "card", "block", "preset", "activate", "batch"}
  BY MailFields
<1>8. \A p \in Person :
        ActiveOpen(p) \/ (q.what \in {"block", "activate"} /\ p \in q.ids) => ActiveOpen(p)'
  BY <1>1, <1>2, <1>3 DEF ActiveOpen
<1>9. Relisting \/ q.what = "batch" => Relisting'
  BY <1>1, <1>2, <1>3 DEF Relisting
<1>10. \A p \in Person : people'[p].role = people[p].role \/ RoleOpen(p)'
  BY <1>4, <1>6
<1>11. \A p \in Person : q.what # "batch" => people'[p].active = people[p].active \/ ActiveOpen(p)'
  BY <1>4, <1>7, <1>8
<1>12. RowsTell'
  BY <1>1, <1>6, <1>8, <1>9, <1>10, <1>11 DEF RowsTell, UsersInv, Shows
<1>13. CardTells'
  <2> SUFFICES ASSUME peopleCard # NoCard, cardDoubt' = {}
               PROVE  /\ peopleCard.rec.role = people'[peopleCard.id].role \/ RoleOpen(peopleCard.id)'
                      /\ peopleCard.rec.active = people'[peopleCard.id].active \/ ActiveOpen(peopleCard.id)'
    BY <1>1 DEF CardTells, RoleOpen, ActiveOpen
  <2>1. cardDoubt = {} /\ q.what # "batch"
    OBVIOUS
  <2> DEFINE p == peopleCard.id
  <2>2. p \in Person
    BY <1>1, CardIs
  <2>3. /\ peopleCard.rec.role = people[p].role \/ RoleOpen(p)
        /\ peopleCard.rec.active = people[p].active \/ ActiveOpen(p)
    BY <2>1 DEF CardTells, UsersInv
  <2>4. /\ people'[p].role = people[p].role \/ RoleOpen(p)'
        /\ people'[p].active = people[p].active \/ ActiveOpen(p)'
        /\ RoleOpen(p) => RoleOpen(p)'
        /\ ActiveOpen(p) => ActiveOpen(p)'
    <3> HIDE DEF p
    <3> PICK o \in Person : o = p
      BY <2>2
    <3>1. /\ people'[o].role = people[o].role \/ RoleOpen(o)'
          /\ people'[o].active = people[o].active \/ ActiveOpen(o)'
          /\ RoleOpen(o) => RoleOpen(o)'
          /\ ActiveOpen(o) => ActiveOpen(o)'
      BY <1>6, <1>8, <1>10, <1>11, <2>1
    <3> QED BY <1>1, <3>1 DEF p, RoleOpen, ActiveOpen
  <2> QED BY <2>3, <2>4, <1>1
<1>14. BlocksSure'
  <2>1. q.what = "preset" => m \in Under(OnRequest)
    BY <1>1, <1>2 DEF Under, OnRequest
  <2>2. ask.act = "block" /\ ask.sure => people'[ask.id].role # "admin"
    <3> SUFFICES ASSUME ask.act = "block", ask.sure PROVE people'[ask.id].role # "admin"
      OBVIOUS
    <3>1. q.what # "preset"
      BY <2>1 DEF MailsWait, UsersInv
    <3>2. ask.id \in Person
      BY <1>1, AskIs
    <3> QED BY <1>4, <3>1, <3>2 DEF BlocksSure, UsersInv
  <2>3. ASSUME NEW n \in 1 .. Mails, mails'[n].at = "sent", mails'[n].what = "block",
               mails'[n].sure, NEW p \in mails'[n].ids
        PROVE  people'[p].role # "admin"
    <3>1. n # m /\ mails'[n] = mails[n]
      BY <1>2, <1>3, <2>3
    <3>2. mails[n] # NoMail /\ MailWell(mails[n])
      BY <1>1, <2>3, <3>1, MailIs
    <3>3. n \in Under(OnRequest)
      BY <2>3, <3>1, <3>2 DEF Under, OnRequest
    <3>4. q.what # "preset"
      BY <2>1, <3>1, <3>3 DEF MailsWait, OneUnder, UsersInv
    <3>5. p \in Person
      BY <2>3, <3>1, <3>2 DEF MailWell, MailRecord
    <3>6. people[p].role # "admin"
      BY <2>3, <3>1 DEF BlocksSure, UsersInv
    <3> QED BY <1>4, <3>4, <3>5, <3>6
  <2> QED BY <1>1, <2>2, <2>3 DEF BlocksSure
<1>15. AdminTypeOK'
  BY <1>1, <1>2, <1>4 DEF AdminTypeOK, MailsWell
<1> QED BY <1>2, <1>5, <1>12, <1>13, <1>14, <1>15 DEF UsersInv, UsersWell


LEMMA ServeMailInv ==
  ASSUME UsersInv, NEW m \in 1 .. Mails, ServeMail(m) PROVE UsersInv'
<1>1. /\ UNCHANGED <<view, rows, listLoading, peopleCard, ask, permBusy, batchBusy, ticked,
                     deeds, losses, rowsDoubt>>
      /\ AdminTypeOK /\ MailsWell /\ mails[m].at = "sent"
  BY DEF ServeMail, usersPage, UsersInv, UsersWell
<1>2. MailWell(mails[m])
  BY <1>1, MailIs
<1>3. CASE mails[m].what \notin {"list", "card"}
  <2> DEFINE q == mails[m]
  <2>1. /\ MailWell(q) /\ q.at = "sent" /\ q.what \notin {"list", "card"}
        /\ people' = Decided(q) /\ mails' = [mails EXCEPT ![m].at = "answered"]
        /\ cardDoubt' = IF q.what = "batch" /\ peopleCard # NoCard
                        THEN cardDoubt \union {"batch"} ELSE cardDoubt
        /\ UNCHANGED <<usersPage, deeds, losses, rowsDoubt>>
    BY <1>1, <1>2, <1>3 DEF ServeMail
  <2>2. q = mails[m]
    OBVIOUS
  <2> HIDE DEF q
  <2> QED BY <2>1, <2>2, DecisionServed
<1>4. CASE mails[m].what \in {"list", "card"}
  <2> DEFINE g == IF mails[m].what = "list" THEN Listing(mails[m].view) ELSE people
             v == mails[m].view
  <2>1. mails' = [mails EXCEPT ![m].at = "answered", ![m].got = g] /\ UNCHANGED <<people, cardDoubt>>
    BY <1>4 DEF ServeMail
  <2>2. Listing(v) \in [Person -> Account \union {Unlisted}] /\ people \in [Person -> Account]
    <3> HIDE DEF v
    <3> QED BY <1>1, ListingIs DEF AdminTypeOK
  <2>3. g \in [Person -> Account \union {Unlisted}] /\ (mails[m].what = "card" => g \in [Person -> Account])
    BY <2>2
  <2> HIDE DEF g, v
  <2>4. /\ MailsWell' /\ mails[m] # NoMail /\ mails'[m] # NoMail
        /\ mails'[m].what = mails[m].what /\ mails'[m].ids = mails[m].ids
        /\ \A n \in 1 .. Mails : n # m => mails'[n] = mails[n]
    BY <1>1, <2>1, <2>3, MailServed
  <2>5. mails'[m].at = "answered"
    BY <1>1, <1>2, <2>1 DEF MailsWell, MailWell, MailRecord
  <2>6. MailsWait'
    BY <1>1, <2>4, WaitsServed
  <2>7. \A p \in Person : RoleOpen(p) => RoleOpen(p)'
    BY <1>1, <2>4 DEF RoleOpen
  <2>8. \A p \in Person : ActiveOpen(p) => ActiveOpen(p)'
    BY <1>1, <2>4 DEF ActiveOpen
  <2>9. Relisting => Relisting'
    BY <1>1, <1>4, <2>4, <2>5 DEF Relisting
  <2>10. RowsTell'
    BY <1>1, <2>1, <2>7, <2>8, <2>9, RowsTellOn DEF UsersInv
  <2>11. CardTells'
    BY <1>1, <2>1, <2>7, <2>8, CardTellsOn DEF UsersInv
  <2>12. BlocksSure'
    BY <1>1, <2>1, <2>4, <2>5 DEF BlocksSure, UsersInv
  <2>13. AdminTypeOK'
    BY <1>1, <2>1, <2>4 DEF AdminTypeOK, MailsWell
  <2> QED BY <2>4, <2>6, <2>10, <2>11, <2>12, <2>13 DEF UsersInv, UsersWell
<1> QED BY <1>3, <1>4

LEMMA LoseMailInv ==
  ASSUME UsersInv, NEW m \in 1 .. Mails, LoseMail(m) PROVE UsersInv'
<1>1. /\ UNCHANGED <<people, view, rows, listLoading, peopleCard, ask, permBusy, batchBusy, ticked,
                     deeds>>
      /\ AdminTypeOK /\ MailsWell /\ mails[m].at \in {"sent", "answered"}
      /\ losses < MaxLosses /\ losses' = losses + 1
      /\ mails' = [mails EXCEPT ![m].at = "failed"]
      /\ rowsDoubt' # {} /\ (peopleCard # NoCard => cardDoubt' # {})
  BY DEF LoseMail, usersPage, UsersInv, UsersWell
<1>2. MailWell(mails[m]) /\ mails[m] # NoMail
  BY <1>1, MailIs
<1> DEFINE q == mails[m]
           r == mails'[m]
<1>3. r = [q EXCEPT !.at = "failed"] /\ \A n \in 1 .. Mails : n # m => mails'[n] = mails[n]
  BY <1>1 DEF MailsWell
<1>4. MailWell(q)
  BY <1>2
<1> HIDE DEF q, r
<1>5. MailWell(r) /\ r.at = "failed" /\ r.what = q.what
  BY <1>3, <1>4 DEF MailWell, MailRecord
<1>6. r # NoMail
  BY <1>5, MailFields
<1>7. MailsWell'
  BY <1>1, <1>3, <1>5 DEF MailsWell, r
<1>8. MailsWait'
  BY <1>1, <1>2, <1>3, <1>5, <1>6, WaitsServed DEF q, r
<1>9. RowsTell' /\ CardTells'
  BY <1>1 DEF RowsTell, CardTells
<1>10. BlocksSure'
  BY <1>1, <1>3, <1>5 DEF BlocksSure, UsersInv, r
<1>11. AdminTypeOK'
  BY <1>1, <1>7, DialsOfUsers DEF AdminTypeOK, MailsWell
<1> QED BY <1>7, <1>8, <1>9, <1>10, <1>11 DEF UsersInv, UsersWell

-----------------------------------------------------------------------------
(* The answers. *)
LEMMA MailTaken ==
  ASSUME UsersInv, NEW m \in 1 .. Mails, mails[m].at \in {"answered", "failed"},
         mails' = [mails EXCEPT ![m] = NoMail]
  PROVE  /\ MailsWell' /\ MailWell(mails[m]) /\ mails[m] # NoMail
         /\ \A n \in 1 .. Mails : mails'[n] = IF n = m THEN NoMail ELSE mails[n]
         /\ \A S : Under(S)' = Under(S) \ {m}
<1>1. MailsWell
  BY DEF UsersInv, UsersWell
<1>2. \A n \in 1 .. Mails : mails'[n] = IF n = m THEN NoMail ELSE mails[n]
  BY <1>1 DEF MailsWell
<1>3. MailsWell'
  BY <1>1, <1>2 DEF MailsWell
<1>4. MailWell(mails[m]) /\ mails[m] # NoMail
  BY <1>1, MailIs
<1>5. \A S : Under(S)' = Under(S) \ {m}
  BY <1>2, UnderSheds
<1> QED BY <1>2, <1>3, <1>4, <1>5

LEMMA OpenTaken ==
  ASSUME UsersInv, NEW m \in 1 .. Mails,
         \A n \in 1 .. Mails : mails'[n] = IF n = m THEN NoMail ELSE mails[n], NEW p
  PROVE  /\ RoleOpen(p) /\ ~(mails[m].at = "answered" /\ mails[m].what = "preset" /\ p \in mails[m].ids)
              => RoleOpen(p)'
         /\ ActiveOpen(p) /\ ~(mails[m].at = "answered" /\ mails[m].what \in {"block", "activate"}
                                /\ p \in mails[m].ids) => ActiveOpen(p)'
         /\ Relisting /\ (mails[m].at = "failed" \/ mails[m].what \notin {"list", "batch"}) => Relisting'
<1>1. RoleOpen(p) /\ ~(mails[m].at = "answered" /\ mails[m].what = "preset" /\ p \in mails[m].ids)
              => RoleOpen(p)'
  BY DEF RoleOpen
<1>2. ActiveOpen(p) /\ ~(mails[m].at = "answered" /\ mails[m].what \in {"block", "activate"}
                                /\ p \in mails[m].ids) => ActiveOpen(p)'
  BY DEF ActiveOpen
<1>3. Relisting /\ (mails[m].at = "failed" \/ mails[m].what \notin {"list", "batch"}) => Relisting'
  BY DEF Relisting
<1> QED BY <1>1, <1>2, <1>3

LEMMA WaitsTaken ==
  ASSUME UsersInv, NEW m \in 1 .. Mails, \A S : Under(S)' = Under(S) \ {m},
         \A n \in 1 .. Mails : n # m => mails'[n] = mails[n],
         mails[m].what \notin Decision \union OnRequest \union {"batch"},
         UNCHANGED <<ask, permBusy, batchBusy>>
  PROVE  MailsWait'
<1>1. /\ Under(Decision)' = Under(Decision) /\ Under({"batch"})' = Under({"batch"})
      /\ Under(OnRequest)' = Under(OnRequest)
  BY DEF Under
<1>2. \A n \in Under(OnRequest) : mails'[n].what = mails[n].what
  BY DEF Under
<1> QED BY <1>1, <1>2 DEF MailsWait, OneUnder, UsersInv

LEMMA BlocksTaken ==
  ASSUME UsersInv, NEW m \in 1 .. Mails,
         \A n \in 1 .. Mails : n = m \/ mails'[n] = mails[n],
         mails'[m] = NoMail \/ mails'[m].what = "list",
         UNCHANGED people, UNCHANGED ask \/ ask' = NoAsk
  PROVE  BlocksSure'
BY DEF BlocksSure, UsersInv, NoAsk, NoMail

LEMMA ReceiveUsersInv ==
  ASSUME UsersInv, NEW m \in 1 .. Mails, mails[m].at \in {"answered", "failed"}, ReceiveUsers(m)
  PROVE  UsersInv'
<1>1. /\ UNCHANGED <<people, view, peopleCard, ask, permBusy, batchBusy, ticked, deeds, losses,
                     cardDoubt>>
      /\ AdminTypeOK /\ mails[m].what = "list" /\ listLoading' = FALSE
      /\ mails' = [mails EXCEPT ![m] = NoMail]
      /\ rows' = IF mails[m].at = "answered" THEN mails[m].got ELSE rows
      /\ rowsDoubt' = IF mails[m].at = "failed" THEN rowsDoubt
                      ELSE IF mails[m].got = Listing(view) THEN {} ELSE {"overtaken"}
  BY DEF ReceiveUsers, UsersInv, UsersWell
<1>2. /\ MailsWell' /\ MailWell(mails[m]) /\ mails[m] # NoMail
      /\ \A n \in 1 .. Mails : mails'[n] = IF n = m THEN NoMail ELSE mails[n]
      /\ \A S : Under(S)' = Under(S) \ {m}
  BY <1>1, MailTaken
<1>3. MailsWait'
  BY <1>1, <1>2, WaitsTaken DEF Decision, OnRequest
<1>4. BlocksSure'
  BY <1>1, <1>2, BlocksTaken
<1>5. \A p \in Person : (RoleOpen(p) => RoleOpen(p)') /\ (ActiveOpen(p) => ActiveOpen(p)')
  BY <1>1, <1>2, OpenTaken
<1>6. CardTells'
  BY <1>1, <1>5, CardTellsOn DEF UsersInv
<1>7. RowsTell'
  <2>1. CASE mails[m].at = "failed"
    <3>1. Relisting => Relisting'
      BY <1>1, <1>2, <2>1, OpenTaken
    <3> QED BY <1>1, <1>5, <2>1, <3>1, RowsTellOn DEF UsersInv
  <2>2. CASE mails[m].at = "answered"
    <3> SUFFICES ASSUME rowsDoubt' = {} PROVE RowsTell'
      BY DEF RowsTell
    <3>1. rows' = Listing(view) /\ view' = view /\ people' = people
      BY <1>1, <2>2
    <3>2. \A p \in Person : /\ rows'[p] # Unlisted <=> p \in Shows(view)
                            /\ p \in Shows(view) => rows'[p] = people[p]
      BY <1>1, <3>1, ListingIs
    <3> QED BY <3>1, <3>2 DEF RowsTell, Shows
  <2> QED BY <2>1, <2>2
<1>8. AdminTypeOK'
  <2>1. rows' \in [Person -> Account \union {Unlisted}]
    BY <1>1, <1>2, MailFields DEF AdminTypeOK
  <2> QED BY <1>1, <1>2, <2>1 DEF AdminTypeOK, MailsWell
<1> QED BY <1>2, <1>3, <1>4, <1>6, <1>7, <1>8 DEF UsersInv, UsersWell

LEMMA ReceivePersonInv ==
  ASSUME UsersInv, NEW m \in 1 .. Mails, mails[m].at \in {"answered", "failed"}, ReceivePerson(m)
  PROVE  UsersInv'
<1>1. mails[m].what = "card" /\ mails' = [mails EXCEPT ![m] = NoMail]
  BY DEF ReceivePerson
<1>2. /\ MailsWell' /\ MailWell(mails[m]) /\ mails[m] # NoMail
      /\ \A n \in 1 .. Mails : mails'[n] = IF n = m THEN NoMail ELSE mails[n]
      /\ \A S : Under(S)' = Under(S) \ {m}
  BY <1>1, MailTaken
<1>3. PICK p \in Person : mails[m].ids = {p}
  BY <1>1, <1>2 DEF MailWell
<1>4. (CHOOSE x \in mails[m].ids : TRUE) = p
  BY <1>3
<1>5. /\ UNCHANGED <<people, view, rows, listLoading, ask, permBusy, batchBusy, ticked, deeds,
                     losses, rowsDoubt>>
      /\ AdminTypeOK
      /\ peopleCard' = IF mails[m].at = "answered" THEN [id |-> p, rec |-> mails[m].got[p]]
                       ELSE peopleCard
      /\ cardDoubt' = IF mails[m].at = "failed" THEN cardDoubt
                      ELSE IF mails[m].got[p] = people[p] THEN {} ELSE {"overtaken"}
  BY <1>4 DEF ReceivePerson, UsersInv, UsersWell
<1>6. MailsWait'
  BY <1>1, <1>2, <1>5, WaitsTaken DEF Decision, OnRequest
<1>7. BlocksSure'
  BY <1>2, <1>5, BlocksTaken
<1>8. \A o \in Person : (RoleOpen(o) => RoleOpen(o)') /\ (ActiveOpen(o) => ActiveOpen(o)')
  BY <1>1, <1>2, OpenTaken
<1>9. Relisting => Relisting'
  BY <1>1, <1>2, OpenTaken
<1>10. RowsTell'
  BY <1>5, <1>8, <1>9, RowsTellOn DEF UsersInv
<1>11. CardTells'
  <2>1. CASE mails[m].at = "failed"
    BY <1>5, <1>8, <2>1, CardTellsOn DEF UsersInv
  <2>2. CASE mails[m].at = "answered"
    <3>1. cardDoubt' = {} => peopleCard'.id = p /\ peopleCard'.rec = people'[p]
      BY <1>5, <2>2
    <3> QED BY <3>1 DEF CardTells
  <2> QED BY <2>1, <2>2
<1>12. AdminTypeOK'
  <2>1. peopleCard' \in [id : Person, rec : Account] \union {NoCard}
    BY <1>1, <1>2, <1>5 DEF AdminTypeOK, MailWell
  <2> QED BY <1>2, <1>5, <2>1 DEF AdminTypeOK, MailsWell
<1> QED BY <1>2, <1>6, <1>7, <1>10, <1>11, <1>12 DEF UsersInv, UsersWell


(* What the answer of a decision writes. *)
LEMMA PatchIs ==
  ASSUME NEW rec \in Account, NEW q, MailWell(q), q.what \in {"block", "preset", "activate"}
  PROVE  /\ Patch(rec, q) \in Account
         /\ q.what # "preset" => Patch(rec, q).role = rec.role /\ Patch(rec, q).active = (q.what = "activate")
         /\ q.what = "preset" => Patch(rec, q).role = q.to /\ Patch(rec, q).active = rec.active
<1>1. CASE q.what = "block"
  BY <1>1 DEF Patch, Account
<1>2. CASE q.what = "activate"
  BY <1>2 DEF Patch, Account
<1>3. CASE q.what = "preset"
  BY <1>3 DEF Patch, Account, MailWell, Role
<1> QED BY <1>1, <1>2, <1>3

LEMMA PatchesAgree ==
  ASSUME AdminTypeOK, NEW q, MailWell(q), q.what \in {"block", "preset", "activate"}, ~Crossed(q),
         NEW p \in Person, p \in q.ids, NEW rec \in Account
  PROVE  /\ q.what # "preset" => Patch(rec, q).active = people[p].active
         /\ q.what = "preset" => Patch(rec, q).role = people[p].role
<1>1. people[p] \in Account /\ Patch(people[p], q) = people[p]
  BY PersonIs DEF Crossed
<1> DEFINE k == people[p]
<1>2. k \in Account /\ Patch(k, q) = k
  BY <1>1
<1> HIDE DEF k
<1>3. /\ q.what # "preset" => k.active = (q.what = "activate")
      /\ q.what = "preset" => k.role = q.to
  BY <1>2, PatchIs
<1> QED BY <1>3, PatchIs DEF k

LEMMA WaitsAnswered ==
  ASSUME UsersInv, NEW m \in 1 .. Mails, mails[m] # NoMail, \A S : Under(S)' = Under(S) \ {m},
         \A n \in 1 .. Mails : n # m => mails'[n] = mails[n],
         mails[m].what \in {"block", "preset", "activate"},
         ask' = IF mails[m].what = "activate" THEN ask ELSE NoAsk,
         permBusy' = (permBusy /\ mails[m].what = "block"), UNCHANGED batchBusy
  PROVE  MailsWait'
<1>1. Under({"batch"})' = Under({"batch"})
  BY DEF Under
<1>2. NoAsk.act = "none" /\ NoAsk.sent = FALSE
  BY DEF NoAsk
<1>3. CASE mails[m].what = "block"
  <2>1. Under(Decision)' = Under(Decision)
    BY <1>3 DEF Under, Decision
  <2>2. Under(OnRequest)' = {}
    <3>1. m \in Under(OnRequest)
      BY <1>3 DEF Under, OnRequest
    <3> QED BY <3>1 DEF MailsWait, OneUnder, UsersInv
  <2>3. permBusy' = permBusy
    BY <1>3 DEF UsersInv, UsersWell, AdminTypeOK
  <2> QED BY <1>1, <1>2, <1>3, <2>1, <2>2, <2>3 DEF MailsWait, OneUnder, UsersInv
<1>4. CASE mails[m].what # "block"
  <2>1. Under(Decision)' = {} /\ ~permBusy'
    <3>1. m \in Under(Decision)
      BY <1>4 DEF Under, Decision
    <3> QED BY <1>4, <3>1 DEF MailsWait, OneUnder, UsersInv
  <2>2. CASE mails[m].what = "activate"
    <3>1. Under(OnRequest)' = Under(OnRequest)
      BY <2>2 DEF Under, OnRequest
    <3>2. \A n \in Under(OnRequest) : mails'[n].what = mails[n].what
      BY <2>2 DEF Under, OnRequest
    <3> QED BY <1>1, <2>1, <2>2, <3>1, <3>2 DEF MailsWait, OneUnder, UsersInv
  <2>3. CASE mails[m].what = "preset"
    <3>1. Under(OnRequest)' = {}
      <4>1. m \in Under(OnRequest)
        BY <2>3 DEF Under, OnRequest
      <4> QED BY <4>1 DEF MailsWait, OneUnder, UsersInv
    <3> QED BY <1>1, <1>2, <2>1, <2>3, <3>1 DEF MailsWait, OneUnder, UsersInv
  <2> QED BY <1>4, <2>2, <2>3
<1> QED BY <1>3, <1>4

LEMMA DecisionTaken ==
  ASSUME UsersInv, NEW m \in 1 .. Mails, mails[m].at \in {"answered", "failed"},
         ReceiveDecision(m)
  PROVE  /\ mails[m].what \in {"block", "preset", "activate"}
         /\ MailsWell' /\ MailsWait' /\ BlocksSure' /\ MailWell(mails[m])
         /\ \A p \in Person :
              /\ RoleOpen(p) /\ (mails[m].what # "preset" \/ p \notin mails[m].ids) => RoleOpen(p)'
              /\ ActiveOpen(p) /\ (mails[m].what = "preset" \/ p \notin mails[m].ids) => ActiveOpen(p)'
         /\ Relisting => Relisting'
<1>1. mails[m].what \in {"block", "preset", "activate"} /\ mails' = [mails EXCEPT ![m] = NoMail]
  BY DEF ReceiveDecision
<1>2. /\ MailsWell' /\ MailWell(mails[m]) /\ mails[m] # NoMail
      /\ \A n \in 1 .. Mails : mails'[n] = IF n = m THEN NoMail ELSE mails[n]
      /\ \A S : Under(S)' = Under(S) \ {m}
  BY <1>1, MailTaken
<1>3. MailsWait'
  BY <1>1, <1>2, WaitsAnswered DEF ReceiveDecision
<1>4. BlocksSure'
  BY <1>2, BlocksTaken DEF ReceiveDecision
<1>5. \A p \in Person :
        /\ RoleOpen(p) /\ (mails[m].what # "preset" \/ p \notin mails[m].ids) => RoleOpen(p)'
        /\ ActiveOpen(p) /\ (mails[m].what = "preset" \/ p \notin mails[m].ids) => ActiveOpen(p)'
  BY <1>1, <1>2, OpenTaken
<1>6. Relisting => Relisting'
  BY <1>1, <1>2, OpenTaken
<1> QED BY <1>1, <1>2, <1>3, <1>4, <1>5, <1>6

LEMMA ReceiveDecisionInv ==
  ASSUME UsersInv, NEW m \in 1 .. Mails, mails[m].at \in {"answered", "failed"},
         ReceiveDecision(m), UNCHANGED <<people, deeds, losses>>
  PROVE  UsersInv'
<1> DEFINE q == mails[m]
<1>1. /\ q.what \in {"block", "preset", "activate"}
      /\ MailsWell' /\ MailsWait' /\ BlocksSure' /\ MailWell(q)
      /\ \A p \in Person :
           /\ RoleOpen(p) /\ (q.what # "preset" \/ p \notin q.ids) => RoleOpen(p)'
           /\ ActiveOpen(p) /\ (q.what = "preset" \/ p \notin q.ids) => ActiveOpen(p)'
      /\ Relisting => Relisting'
  BY DecisionTaken
<1>2. /\ UNCHANGED <<people, view, listLoading, batchBusy, ticked, deeds, losses>>
      /\ AdminTypeOK
      /\ IF q.at = "answered"
         THEN /\ rows' = [p \in Person |-> IF p \in q.ids /\ rows[p] # Unlisted
                                           THEN Patch(rows[p], q) ELSE rows[p]]
              /\ peopleCard' = IF Concerns(q) THEN [peopleCard EXCEPT !.rec = Patch(@, q)]
                               ELSE peopleCard
              /\ rowsDoubt' = IF Crossed(q) THEN rowsDoubt \union {"crossed"} ELSE rowsDoubt
              /\ cardDoubt' =
                   IF peopleCard = NoCard THEN {}
                   ELSE IF q.what # "block" /\ peopleCard.id \notin q.ids
                   THEN cardDoubt \union {"switched"}
                   ELSE IF Crossed(q) THEN cardDoubt \union {"crossed"} ELSE cardDoubt
         ELSE UNCHANGED <<rows, peopleCard, rowsDoubt, cardDoubt>>
      /\ ask' = (IF q.what = "activate" THEN ask ELSE NoAsk)
      /\ permBusy' = (permBusy /\ q.what = "block")
      /\ q.at \in {"answered", "failed"}
      /\ RowsTell /\ CardTells
      /\ (q.at = "failed" => mails[m].at = "failed")
  BY DEF ReceiveDecision, doubts, UsersInv, UsersWell
<1>3. \A p \in Person : q.at = "failed" => (RoleOpen(p) => RoleOpen(p)') /\ (ActiveOpen(p) => ActiveOpen(p)')
  <2>1. mails' = [mails EXCEPT ![m] = NoMail]
    BY DEF ReceiveDecision
  <2>2. \A n \in 1 .. Mails : mails'[n] = IF n = m THEN NoMail ELSE mails[n]
    BY <2>1, MailTaken
  <2> QED BY <2>2 DEF RoleOpen, ActiveOpen
<1> HIDE DEF q
<1>4. \A p \in Person : rows[p] \in Account \union {Unlisted}
  BY <1>2 DEF AdminTypeOK
<1>5. RowsTell'
  <2>1. CASE q.at = "failed"
    BY <1>1, <1>2, <1>3, <2>1 DEF RowsTell, Shows
  <2>2. CASE q.at = "answered"
    <3> SUFFICES ASSUME rowsDoubt' = {} PROVE RowsTell'
      BY DEF RowsTell
    <3>1. rowsDoubt = {} /\ ~Crossed(q) /\ view' = view /\ people' = people
      BY <1>2, <2>2
    <3>2. ASSUME NEW p \in Person
          PROVE  /\ rows'[p] # Unlisted <=> rows[p] # Unlisted
                 /\ rows[p] # Unlisted /\ (rows[p].role = people[p].role \/ RoleOpen(p)) =>
                      rows'[p].role = people[p].role \/ RoleOpen(p)'
                 /\ rows[p] # Unlisted /\ (rows[p].active = people[p].active \/ ActiveOpen(p)) =>
                      rows'[p].active = people[p].active \/ ActiveOpen(p)'
      <4>1. CASE p \notin q.ids \/ rows[p] = Unlisted
        <5>1. rows'[p] = rows[p]
          BY <1>2, <2>2, <4>1
        <5> QED BY <1>1, <4>1, <5>1
      <4>2. CASE p \in q.ids /\ rows[p] # Unlisted
        <5> DEFINE k == rows[p]
        <5>1. k \in Account /\ rows'[p] = Patch(k, q)
          BY <1>2, <1>4, <2>2, <4>2
        <5> HIDE DEF k
        <5>2. /\ q.what # "preset" => Patch(k, q).active = people[p].active
              /\ q.what = "preset" => Patch(k, q).role = people[p].role
          BY <1>1, <1>2, <3>1, <4>2, <5>1, PatchesAgree
        <5>3. /\ Patch(k, q) \in Account
              /\ q.what # "preset" => Patch(k, q).role = k.role
              /\ q.what = "preset" => Patch(k, q).active = k.active
          BY <1>1, <5>1, PatchIs
        <5>4. Patch(k, q) # Unlisted
          BY <5>3 DEF Account, Unlisted
        <5> QED BY <1>1, <4>2, <5>1, <5>2, <5>3, <5>4 DEF k
      <4> QED BY <4>1, <4>2
    <3>3. \A p \in Person : rows'[p] # Unlisted => rows'[p].role = people'[p].role \/ RoleOpen(p)'
      BY <1>2, <3>1, <3>2 DEF RowsTell
    <3>4. Relisting' \/ \A p \in Person : /\ rows'[p] # Unlisted <=> p \in Shows(view)
                                          /\ rows'[p] # Unlisted =>
                                               rows'[p].active = people'[p].active \/ ActiveOpen(p)'
      BY <1>1, <1>2, <3>1, <3>2 DEF RowsTell
    <3> QED BY <3>1, <3>3, <3>4 DEF RowsTell, Shows
  <2> QED BY <1>2, <2>1, <2>2
<1>6. CardTells' /\ peopleCard' \in [id : Person, rec : Account] \union {NoCard}
  <2>1. CASE q.at = "failed" \/ peopleCard = NoCard
    <3>1. peopleCard' = peopleCard /\ (peopleCard # NoCard => cardDoubt' = cardDoubt)
      BY <1>2, <2>1 DEF Concerns
    <3>2. q.at = "failed" \/ peopleCard' = NoCard
      BY <2>1, <3>1
    <3> QED BY <1>2, <1>3, <3>1, <3>2, CardIs DEF CardTells, AdminTypeOK
  <2>2. CASE q.at = "answered" /\ peopleCard # NoCard
    <3> DEFINE p == peopleCard.id
               k == peopleCard.rec
    <3>1. p \in Person /\ k \in Account /\ peopleCard = [id |-> p, rec |-> k]
      BY <1>2, <2>2, CardIs
    <3>2. peopleCard' = IF q.what = "block" /\ p \notin q.ids THEN peopleCard
                        ELSE [peopleCard EXCEPT !.rec = Patch(k, q)]
      BY <1>2, <2>2 DEF Concerns
    <3>3. cardDoubt' = {} => cardDoubt = {} /\ (q.what = "block" \/ p \in q.ids) /\ ~Crossed(q)
      BY <1>2, <2>2
    <3>4. cardDoubt = {} => /\ k.role = people[p].role \/ RoleOpen(p)
                            /\ k.active = people[p].active \/ ActiveOpen(p)
      BY <1>2, <2>2 DEF CardTells
    <3>5. peopleCard'.id = p /\ peopleCard'.rec = IF q.what = "block" /\ p \notin q.ids THEN k ELSE Patch(k, q)
      BY <3>1, <3>2
    <3>6. peopleCard' \in [id : Person, rec : Account]
      <4>1. Patch(k, q) \in Account
        <5> HIDE DEF k
        <5> QED BY <1>1, <3>1, PatchIs
      <4> HIDE DEF k, p
      <4> QED BY <3>1, <3>2, <4>1
    <3> HIDE DEF p, k
    <3>7. /\ Patch(k, q) \in Account
          /\ q.what # "preset" => Patch(k, q).role = k.role
          /\ q.what = "preset" => Patch(k, q).active = k.active
      BY <1>1, <3>1, PatchIs
    <3>8. ~Crossed(q) /\ p \in q.ids =>
            /\ q.what # "preset" => Patch(k, q).active = people[p].active
            /\ q.what = "preset" => Patch(k, q).role = people[p].role
      BY <1>1, <1>2, <3>1, PatchesAgree
    <3>9. /\ RoleOpen(p) /\ (q.what # "preset" \/ p \notin q.ids) => RoleOpen(p)'
          /\ ActiveOpen(p) /\ (q.what = "preset" \/ p \notin q.ids) => ActiveOpen(p)'
      <4> PICK o \in Person : o = p
        BY <3>1
      <4>1. /\ RoleOpen(o) /\ (q.what # "preset" \/ o \notin q.ids) => RoleOpen(o)'
            /\ ActiveOpen(o) /\ (q.what = "preset" \/ o \notin q.ids) => ActiveOpen(o)'
        BY <1>1
      <4>2. p' = p
        BY <3>5 DEF p
      <4> QED BY <4>1, <4>2 DEF RoleOpen, ActiveOpen
    <3>10. cardDoubt' = {} => /\ peopleCard'.rec.role = people'[p].role \/ RoleOpen(p)'
                              /\ peopleCard'.rec.active = people'[p].active \/ ActiveOpen(p)'
      BY <1>1, <1>2, <3>3, <3>4, <3>5, <3>7, <3>8, <3>9
    <3>11. peopleCard'.id = peopleCard.id
      BY <3>5 DEF p
    <3> QED BY <3>6, <3>10, <3>11 DEF CardTells, p
  <2> QED BY <1>2, <2>1, <2>2
<1>7. AdminTypeOK'
  <2>1. rows' \in [Person -> Account \union {Unlisted}]
    <3>1. CASE q.at = "answered"
      <4>1. ASSUME NEW p \in Person, rows[p] # Unlisted PROVE Patch(rows[p], q) \in Account
        BY <1>1, <1>4, <4>1, PatchIs
      <4> QED BY <1>2, <1>4, <3>1, <4>1
    <3>2. CASE q.at = "failed"
      BY <1>2, <3>2 DEF AdminTypeOK
    <3> QED BY <1>2, <3>1, <3>2
  <2>2. permBusy' \in BOOLEAN
    BY <1>2
  <2>3. ask' = ask \/ ask' = NoAsk
    BY <1>2
  <2> QED BY <1>1, <1>2, <1>6, <2>1, <2>2, <2>3 DEF AdminTypeOK, MailsWell
<1> QED BY <1>1, <1>5, <1>6, <1>7 DEF UsersInv, UsersWell


LEMMA ReceiveBatchInv ==
  ASSUME UsersInv, NEW m \in 1 .. Mails, mails[m].at \in {"answered", "failed"},
         ReceiveBatch(m), UNCHANGED <<people, deeds, losses>>
  PROVE  UsersInv'
<1>1. /\ UNCHANGED <<people, rows, peopleCard, ask, permBusy, deeds, losses, rowsDoubt, cardDoubt>>
      /\ mails[m].what = "batch" /\ batchBusy' = FALSE /\ AdminTypeOK /\ MailsWell
  BY DEF ReceiveBatch, doubts, UsersInv, UsersWell
<1>2. MailWell(mails[m]) /\ mails[m] # NoMail
  BY <1>1, MailIs
<1>3. /\ ticked' \subseteq Person /\ view' \in View /\ listLoading' \in BOOLEAN
      /\ \A n \in 1 .. Mails : n # m => mails'[n] = mails[n]
      /\ MailsWell' /\ (mails'[m] = NoMail \/ mails'[m].what = "list")
      /\ mails[m].at = "answered" => mails'[m].at = "sent" /\ mails'[m].what = "list"
      /\ mails[m].at = "failed" => mails'[m] = NoMail /\ UNCHANGED view
  <2>1. CASE mails[m].at = "answered"
    <3> DEFINE v == FirstPage
    <3>1. v \in View
      BY <1>1 DEF FirstPage, AdminTypeOK, View
    <3> DEFINE q == ListMail(v)
    <3>2. MailWell(q) /\ q.at = "sent" /\ q.what = "list"
      <4> HIDE DEF v
      <4> QED BY <1>1, <3>1, ListMade
    <3>3. mails' = [mails EXCEPT ![m] = q] /\ ticked' = {} /\ view' = v /\ listLoading' = TRUE
      BY <2>1 DEF ReceiveBatch, AfterBatch
    <3> HIDE DEF q, v
    <3>4. \A n \in 1 .. Mails : mails'[n] = IF n = m THEN q ELSE mails[n]
      BY <1>1, <3>3 DEF MailsWell
    <3>5. MailsWell'
      BY <1>1, <3>2, <3>3, <3>4 DEF MailsWell
    <3> QED BY <2>1, <3>1, <3>2, <3>3, <3>4, <3>5
  <2>2. CASE mails[m].at = "failed"
    <3>1. mails' = [mails EXCEPT ![m] = NoMail] /\ UNCHANGED <<ticked, view, listLoading>>
      BY <2>2 DEF ReceiveBatch
    <3>2. MailsWell' /\ \A n \in 1 .. Mails : mails'[n] = IF n = m THEN NoMail ELSE mails[n]
      BY <3>1, MailTaken
    <3> QED BY <1>1, <2>2, <3>1, <3>2 DEF AdminTypeOK
  <2> QED BY <2>1, <2>2
<1>4. MailsWait'
  <2>1. Under(Decision)' = Under(Decision) /\ Under(OnRequest)' = Under(OnRequest)
    BY <1>1, <1>3 DEF Under, Decision, OnRequest
  <2>2. Under({"batch"})' = {}
    <3>1. m \in Under({"batch"})
      BY <1>1, <1>2 DEF Under
    <3>2. Under({"batch"}) = {m}
      BY <3>1 DEF MailsWait, OneUnder, UsersInv
    <3>3. Under({"batch"})' \subseteq Under({"batch"}) \ {m}
      BY <1>3 DEF Under
    <3> QED BY <3>2, <3>3
  <2>3. \A n \in Under(OnRequest) : mails'[n].what = mails[n].what
    BY <1>1, <1>3 DEF Under, OnRequest
  <2> QED BY <1>1, <2>1, <2>2, <2>3 DEF MailsWait, OneUnder, UsersInv
<1>5. BlocksSure'
  BY <1>1, <1>3, BlocksTaken
<1>6. \A p \in Person : (RoleOpen(p) => RoleOpen(p)') /\ (ActiveOpen(p) => ActiveOpen(p)')
  BY <1>1, <1>3 DEF RoleOpen, ActiveOpen
<1>7. CardTells'
  BY <1>1, <1>6, CardTellsOn DEF UsersInv
<1>8. RowsTell'
  <2>1. CASE mails[m].at = "answered"
    <3>1. Relisting'
      BY <1>3, <2>1 DEF Relisting
    <3> QED BY <1>1, <1>6, <3>1, RowsTellOn DEF UsersInv
  <2>2. CASE mails[m].at = "failed"
    <3>1. Relisting => Relisting'
      BY <1>1, <1>3, <2>2 DEF Relisting
    <3> QED BY <1>1, <1>3, <1>6, <2>2, <3>1, RowsTellOn DEF UsersInv
  <2> QED BY <2>1, <2>2
<1>9. AdminTypeOK'
  BY <1>1, <1>3 DEF AdminTypeOK, MailsWell
<1> QED BY <1>3, <1>4, <1>5, <1>7, <1>8, <1>9 DEF UsersInv, UsersWell

-----------------------------------------------------------------------------
LEMMA UsersStart ==
  ASSUME AdminInit PROVE UsersInv
<1> DEFINE q == [at |-> "sent", what |-> "list", ids |-> {}, to |-> "customer",
                 view |-> "first", sure |-> TRUE, got |-> rows]
<1>1. AdminTypeOK
  <2>1. people \in [Person -> Account] /\ rows \in [Person -> Account \union {Unlisted}]
    BY DEF AdminInit, Account
  <2>2. 0 \in 0 .. MaxDeeds /\ 0 \in 0 .. MaxLosses
    BY DialsOfUsers
  <2>3. DOMAIN mails = 1 .. Mails
    BY DEF AdminInit
  <2> QED BY <2>1, <2>2, <2>3 DEF AdminInit, AdminTypeOK, View
<1>2. MailWell(q) /\ q.at = "sent" /\ q.what = "list"
  BY DEF AdminInit, MailWell, MailRecord, View, Role
<1>3. mails = [m \in 1 .. Mails |-> IF m = 1 THEN q ELSE NoMail]
  BY DEF AdminInit
<1> HIDE DEF q
<1>4. MailsWell
  BY <1>2, <1>3 DEF MailsWell
<1>5. \A m \in 1 .. Mails : mails[m] # NoMail => mails[m] = q
  BY <1>3
<1>6. \A S : "list" \notin S => Under(S) = {}
  BY <1>2, <1>5 DEF Under
<1>7. Under(Decision) = {} /\ Under({"batch"}) = {} /\ Under(OnRequest) = {}
  BY <1>6 DEF Decision, OnRequest
<1>8. ask = NoAsk /\ NoAsk.act = "none" /\ NoAsk.sent = FALSE /\ permBusy = FALSE /\ batchBusy = FALSE
  BY DEF AdminInit, NoAsk
<1>9. MailsWait
  BY <1>7, <1>8 DEF MailsWait, OneUnder
<1>10. Relisting
  <2>1. 1 \in 1 .. Mails /\ mails[1] = q
    BY <1>3, DialsOfUsers
  <2> QED BY <1>2, <2>1 DEF Relisting
<1>11. RowsTell
  BY <1>10 DEF AdminInit, RowsTell
<1>12. CardTells /\ BlocksSure
  <2>1. \A m \in 1 .. Mails : mails[m].what # "block" \/ mails[m].at # "sent"
    BY <1>2, <1>3 DEF NoMail
  <2> QED BY <1>8, <2>1 DEF AdminInit, CardTells, BlocksSure
<1> QED BY <1>1, <1>4, <1>9, <1>11, <1>12 DEF UsersInv, UsersWell

LEMMA ReceiveMailInv ==
  ASSUME UsersInv, NEW m \in 1 .. Mails, ReceiveMail(m) PROVE UsersInv'
<1>1. mails[m].at \in {"answered", "failed"}
  BY DEF ReceiveMail
<1>2. CASE ReceiveUsers(m)
  BY <1>1, <1>2, ReceiveUsersInv
<1>3. CASE ReceivePerson(m)
  BY <1>1, <1>3, ReceivePersonInv
<1>4. CASE ReceiveDecision(m)
  BY <1>1, <1>4, ReceiveDecisionInv DEF ReceiveDecision
<1>5. CASE ReceiveBatch(m)
  BY <1>1, <1>5, ReceiveBatchInv DEF ReceiveBatch
<1> QED BY <1>2, <1>3, <1>4, <1>5 DEF ReceiveMail

LEMMA ClicksOfUsersInv ==
  ASSUME UsersInv,
         \/ TurnPage \/ Search \/ Revisit \/ TickAll \/ ClearTicks
         \/ \E p \in Person : Tick(p)
  PROVE  UsersInv'
<1>1. view \in View /\ ticked \subseteq Person
  BY DEF UsersInv, UsersWell, AdminTypeOK
<1>2. CASE TurnPage \/ Search \/ Revisit
  <2>1. PICK v \in View : Looks(v)
    BY <1>1, <1>2 DEF TurnPage, Search, Revisit, View
  <2> QED BY <2>1, LooksInv
<1>3. CASE TickAll \/ ClearTicks \/ \E p \in Person : Tick(p)
  <2>1. PICK to \in SUBSET Person : Ticks(to)
    <3>1. CASE TickAll \/ ClearTicks
      BY <3>1 DEF TickAll, ClearTicks
    <3>2. CASE \E p \in Person : Tick(p)
      <4>1. PICK p \in Person : Tick(p)
        BY <3>2
      <4> QED BY <1>1, <4>1 DEF Tick
    <3> QED BY <1>3, <3>1, <3>2
  <2> QED BY <2>1, TicksInv
<1> QED BY <1>2, <1>3

LEMMA UsersStep ==
  ASSUME UsersInv, [AdminNext]_adminVars PROVE UsersInv'
<1>1. CASE \/ TurnPage \/ Search \/ Revisit \/ TickAll \/ ClearTicks
           \/ \E p \in Person : Tick(p)
  BY <1>1, ClicksOfUsersInv
<1>2. ASSUME NEW p \in Person, OpenPerson(p) \/ BlockFromRow(p) PROVE UsersInv'
  BY <1>2, OpenPersonInv, BlockFromRowInv
<1>3. CASE ClosePerson \/ Refrain \/ UNCHANGED adminVars
  BY <1>3, UsersRestInv
<1>4. CASE BlockFromCard \/ AskRole \/ Confirm \/ Activate \/ Batch
  BY <1>4, BlockFromCardInv, AskRoleInv, ConfirmAskInv, ActivateInv, BatchInv DEF Confirm
<1>5. ASSUME NEW m \in 1 .. Mails, ServeMail(m) \/ LoseMail(m) \/ ReceiveMail(m) PROVE UsersInv'
  BY <1>5, ServeMailInv, LoseMailInv, ReceiveMailInv
<1> QED BY <1>1, <1>2, <1>3, <1>4, <1>5 DEF AdminNext

LEMMA UsersHonest ==
  ASSUME UsersInv PROVE UsersTabSound
<1>1. AdminQuiet => ~Relisting /\ \A p : ~RoleOpen(p) /\ ~ActiveOpen(p)
  BY DEF AdminQuiet, Relisting, RoleOpen, ActiveOpen, NoMail
<1>2. ASSUME NEW a \in Account, NEW b \in Account, a.role = b.role, a.active = b.active
      PROVE  a = b
  BY <1>2 DEF Account
<1>3. RowsHonest
  <2> SUFFICES ASSUME AdminQuiet, rowsDoubt = {} PROVE rows = Listing(view)
    BY DEF RowsHonest
  <2>1. ASSUME NEW p \in Person
        PROVE  /\ rows[p] # Unlisted <=> p \in Shows(view)
               /\ rows[p] # Unlisted => rows[p] = people[p]
    <3>1. rows[p] \in Account \union {Unlisted} /\ people[p] \in Account
      BY DEF UsersInv, UsersWell, AdminTypeOK
    <3>2. /\ rows[p] # Unlisted <=> p \in Shows(view)
          /\ rows[p] # Unlisted => rows[p].role = people[p].role /\ rows[p].active = people[p].active
      BY <1>1 DEF UsersInv, RowsTell
    <3> QED BY <1>2, <3>1, <3>2
  <2>2. rows = [p \in Person |-> rows[p]]
    BY DEF UsersInv, UsersWell, AdminTypeOK
  <2> QED BY <2>1, <2>2 DEF Listing
<1>4. CardHonest
  <2> SUFFICES ASSUME AdminQuiet, peopleCard # NoCard, cardDoubt = {}
               PROVE  peopleCard.rec = people[peopleCard.id]
    BY DEF CardHonest
  <2>1. peopleCard.rec \in Account /\ people[peopleCard.id] \in Account
    BY CardIs DEF UsersInv, UsersWell, AdminTypeOK
  <2>2. /\ peopleCard.rec.role = people[peopleCard.id].role
        /\ peopleCard.rec.active = people[peopleCard.id].active
    BY <1>1 DEF UsersInv, CardTells
  <2> QED BY <1>2, <2>1, <2>2
<1>5. DecisionsOneByOne
  <2>1. ASSUME NEW S, NEW flag, \A m, n \in S : m = n, flag <=> \E m \in S : TRUE
        PROVE  Cardinality(S) = IF flag THEN 1 ELSE 0
    <3>1. CASE S = {}
      BY <2>1, <3>1, FS_EmptySet
    <3>2. CASE S # {}
      <4>1. PICK m : m \in S
        BY <3>2
      <4>2. S = {m}
        BY <2>1, <4>1
      <4> QED BY <2>1, <4>1, <4>2, FS_Singleton
    <3> QED BY <3>1, <3>2
  <2> QED BY <2>1 DEF UsersInv, MailsWait, OneUnder, DecisionsOneByOne, OnRequest
<1> QED BY <1>3, <1>4, <1>5 DEF UsersTabSound, UsersInv, UsersWell

(* However lists, decisions and batches cross on the tab of the users: once    *)
(* nothing is on the way the list is the server's for the view shown and the     *)
(* card is its user's, and every flag that is up has its one decision, but for   *)
(* the cases named.                                                               *)
THEOREM UsersTabStaysSound == AdminSpec => []UsersTabSound
<1>1. AdminInit => UsersInv
  BY UsersStart
<1>2. UsersInv /\ [AdminNext]_adminVars => UsersInv'
  BY UsersStep
<1>3. UsersInv => UsersTabSound
  BY UsersHonest
<1> QED BY <1>1, <1>2, <1>3, PTL DEF AdminSpec

(* What shuts an administrator out is a batch, or a block whose row or card     *)
(* was doubted when it was asked for.                                           *)
LEMMA ShutOut ==
  ASSUME UsersInv, NEW p \in Person, people[p].role = "admin", people[p].active,
         ~people'[p].active, NEW m \in 1 .. Mails, ServeMail(m)
  PROVE  mails[m].what = "batch" \/ ~mails[m].sure
<1> DEFINE q == mails[m]
<1>1. AdminTypeOK /\ MailWell(q) /\ q.at = "sent"
  BY MailIs DEF ServeMail, UsersInv, UsersWell
<1>2. q.what \notin {"list", "card"} /\ people' = Decided(q)
  BY DEF ServeMail
<1>3. q.what = "block" /\ q.sure => p \notin q.ids
  BY <1>1 DEF UsersInv, BlocksSure
<1> HIDE DEF q
<1>4. /\ q.what = "preset" \/ p \notin q.ids => people'[p].active = people[p].active
      /\ q.what = "activate" /\ p \in q.ids => people'[p].active
  BY <1>1, <1>2, DecidedIs
<1>5. q.what \in {"list", "card", "block", "preset", "activate", "batch"}
  BY <1>1, MailFields
<1>6. q.what = "batch" \/ ~q.sure
  BY <1>2, <1>3, <1>4, <1>5
<1> QED BY <1>6 DEF q

(* An administrator loses his account only to a batch, which asks about        *)
(* nobody, or to a decision taken before a row or a card that was wrong.          *)
THEOREM AdminsAreBlockedBlindly == AdminSpec => AdminsBlockedBlindly
<1>1. AdminInit => UsersInv
  BY UsersStart
<1>2. UsersInv /\ [AdminNext]_adminVars => UsersInv'
  BY UsersStep
<1>3. UsersInv /\ [AdminNext]_adminVars =>
        [\A p \in Person : people[p].role = "admin" /\ people[p].active /\ ~people'[p].active =>
           \A m \in 1 .. Mails : ServeMail(m) => mails[m].what = "batch" \/ ~mails[m].sure]_adminVars
  BY ShutOut
<1> QED BY <1>1, <1>2, <1>3, PTL DEF AdminSpec, AdminsBlockedBlindly

-----------------------------------------------------------------------------
(* The administrator's restaurants and vendors.                               *)
Listed1 == Verdict \union {"unlisted"}
LetterRecord ==
  [at : {"sent", "answered", "failed"}, what : {"list", "card", "judge", "remove", "mass"},
   tab : Tab, ids : SUBSET File, to : Verdict, filter : {"all", "PENDING"}, got : [File -> Listed1]]

LetterWell(q) ==
  /\ q \in LetterRecord
  /\ q.what \in {"card", "judge", "remove"} => \E f \in File : q.ids = {f} /\ q.tab = Kind(f)
  /\ q.what = "mass" => \A f \in q.ids : q.tab = Kind(f)
  /\ q.what = "list" => \A f \in File : q.got[f] # "unlisted" => q.tab = Kind(f)
  /\ q.what \in {"card", "judge"} /\ q.at = "answered" => q.got \in [File -> Verdict]

LettersWell ==
  /\ DOMAIN letters = 1 .. Letters
  /\ \A m \in 1 .. Letters : letters[m] = NoLetter \/ LetterWell(letters[m])

(* The dialogs and the cards. *)
DialogsWell ==
  /\ fileCard \in [Tab -> [id : File, is : Verdict] \union {NoFile}]
  /\ marked \in [Tab -> SUBSET File]
  /\ question # Unasked =>
       /\ question \in [act : {"approve", "remove"}, ids : SUBSET File, sent : BOOLEAN]
       /\ \E f \in File : question.ids = {f} /\ (question.act = "approve" => f = Seller)
  /\ reason # Unasked =>
       /\ reason \in [act : {"reject", "mass"}, ids : SUBSET File, sent : BOOLEAN]
       /\ reason.ids # {}
       /\ \E t \in Tab : \A f \in reason.ids : Kind(f) = t
       /\ reason.act = "reject" => \E f \in File : reason.ids = {f}

(* A dialog that waits has its one request; mass decisions under way. *)
Questioners == {m \in 1 .. Letters : letters[m] # NoLetter /\ OfQuestion(letters[m])}
Rejecters == {m \in 1 .. Letters : letters[m] # NoLetter /\ OfReason(letters[m])}
OneOf(S, flag) ==
  /\ \A m, n \in S : m = n
  /\ flag <=> \E m \in S : TRUE
LettersWait ==
  /\ OneOf(Questioners, question.sent) /\ OneOf(Rejecters, reason.sent)
  /\ massBusy => \E m \in 1 .. Letters : letters[m] # NoLetter /\ letters[m].what = "mass"

(* What of a row or a card an answer on its way may yet change. *)
RemovalOpen(f) ==
  \E m \in 1 .. Letters : /\ letters[m].at = "answered" /\ letters[m].what = "remove"
                          /\ f \in letters[m].ids
VerdictOpen(f) ==
  \E m \in 1 .. Letters : /\ letters[m].at = "answered" /\ letters[m].what = "judge"
                          /\ f \in letters[m].ids
TabReloads(t) ==
  \E m \in 1 .. Letters :
    /\ \/ letters[m].at \in {"sent", "answered"} /\ letters[m].what = "list"
       \/ letters[m].at = "answered" /\ letters[m].what = "mass"
    /\ letters[m].tab = t

Tells(f, is) == (There(f) \/ RemovalOpen(f)) /\ (is = verdict[f] \/ VerdictOpen(f))
TabTells ==
  \A t \in Tab :
    t = deskTab /\ t \notin listDoubt =>
      \/ TabReloads(t)
      \/ \A f \in File : list[t][f] # "unlisted" => Tells(f, list[t][f])
FileTells ==
  \A t \in Tab \ fileDoubt, f \in File :
    fileCard[t] # NoFile /\ fileCard[t].id = f => Tells(f, fileCard[t].is)

FilesWell == FilesTypeOK /\ LettersWell /\ DialogsWell
FilesInv == FilesWell /\ LettersWait /\ TabTells /\ FileTells

-----------------------------------------------------------------------------
LEMMA DialsOfFiles ==
  /\ Letters \in Nat \ {0} /\ MaxActs \in Nat /\ MaxLapses \in Nat
  /\ Seller \in File /\ Seller \notin Place1 /\ 0 \notin File /\ Place1 \subseteq File
BY AdminFilesAssumption DEF File, Seller

LEMMA KindIs ==
  ASSUME NEW f \in File
  PROVE  /\ Kind(f) \in Tab /\ (Kind(f) = "vendors" <=> f = Seller)
         /\ Kind(f) = "restaurants" => f \in Place1
BY DEF Kind, Tab, File

LEMMA LetterIs ==
  ASSUME LettersWell, NEW m \in 1 .. Letters
  PROVE  /\ letters[m].at \in {"sent", "answered", "failed"} <=> letters[m] # NoLetter
         /\ letters[m] # NoLetter => LetterWell(letters[m])
BY DEF LettersWell, LetterWell, LetterRecord, NoLetter

LEMMA LetterFields ==
  ASSUME NEW q, LetterWell(q)
  PROVE  /\ q # NoLetter /\ q.at \in {"sent", "answered", "failed"}
         /\ q.what \in {"list", "card", "judge", "remove", "mass"} /\ q.tab \in Tab
         /\ q.ids \subseteq File /\ q.to \in Verdict /\ q.filter \in {"all", "PENDING"}
         /\ q.got \in [File -> Listed1]
BY DEF LetterWell, LetterRecord, NoLetter

LEMMA FileCardIs ==
  ASSUME FilesWell, NEW t \in Tab, fileCard[t] # NoFile
  PROVE  /\ fileCard[t].id \in File /\ fileCard[t].is \in Verdict /\ Kind(fileCard[t].id) = t
BY DEF FilesWell, DialogsWell, FilesTypeOK

LEMMA DialogsAre ==
  ASSUME FilesWell
  PROVE  /\ question.sent \in BOOLEAN /\ reason.sent \in BOOLEAN
         /\ Unasked.sent = FALSE
         /\ question # Unasked => /\ question.act \in {"approve", "remove"}
                                  /\ \E g \in File : question.ids = {g} /\ (question.act = "approve" => g = Seller)
         /\ reason # Unasked => /\ reason.act \in {"reject", "mass"} /\ reason.ids \subseteq File
                                /\ reason.ids # {}
                                /\ \E t \in Tab : \A f \in reason.ids : Kind(f) = t
                                /\ reason.act = "reject" => \E f \in File : reason.ids = {f}
<1>1. Unasked.sent = FALSE
  BY DEF Unasked
<1>2. question # Unasked => /\ question.act \in {"approve", "remove"} /\ question.sent \in BOOLEAN
                            /\ \E f \in File : question.ids = {f} /\ (question.act = "approve" => f = Seller)
  BY DEF FilesWell, DialogsWell
<1>3. reason # Unasked => /\ reason.act \in {"reject", "mass"} /\ reason.ids \subseteq File
                          /\ reason.sent \in BOOLEAN /\ reason.ids # {}
                          /\ \E t \in Tab : \A f \in reason.ids : Kind(f) = t
                          /\ reason.act = "reject" => \E f \in File : reason.ids = {f}
  BY DEF FilesWell, DialogsWell
<1> QED BY <1>1, <1>2, <1>3

(* What a new request changes. *)
LEMMA LetterAdded ==
  ASSUME LettersWell, NEW q, LetterWell(q), FreeLetter # {},
         letters' = [letters EXCEPT ![NextLetter] = q]
  PROVE  /\ LettersWell'
         /\ \E n \in 1 .. Letters :
              /\ letters[n] = NoLetter
              /\ \A m \in 1 .. Letters : letters'[m] = IF m = n THEN q ELSE letters[m]
<1>1. NextLetter \in FreeLetter
  BY DEF NextLetter
<1>2. NextLetter \in 1 .. Letters /\ letters[NextLetter] = NoLetter
  BY <1>1 DEF FreeLetter
<1>3. \A m \in 1 .. Letters : letters'[m] = IF m = NextLetter THEN q ELSE letters[m]
  BY <1>2 DEF LettersWell
<1>4. LettersWell'
  BY <1>3 DEF LettersWell
<1> QED BY <1>2, <1>3, <1>4

LEMMA TabTellsOn ==
  ASSUME TabTells, UNCHANGED <<verdict, removed>>,
         \A t \in Tab, f \in File :
           t = deskTab /\ list'[t][f] # "unlisted" =>
             list'[t][f] = list[t][f] /\ (RemovalOpen(f) => RemovalOpen(f)') /\ (VerdictOpen(f) => VerdictOpen(f)'),
         \A t \in Tab : t = deskTab' /\ t \notin listDoubt' =>
           \/ TabReloads(t)'
           \/ t = deskTab /\ t \notin listDoubt /\ ~TabReloads(t)
  PROVE  TabTells'
<1> SUFFICES ASSUME NEW t \in Tab, t = deskTab', t \notin listDoubt', ~TabReloads(t)',
                    NEW f \in File, list'[t][f] # "unlisted"
             PROVE  Tells(f, list[t][f])'
  BY DEF TabTells
<1>1. t = deskTab /\ t \notin listDoubt /\ ~TabReloads(t)
  OBVIOUS
<1>2. list'[t][f] = list[t][f] /\ (RemovalOpen(f) => RemovalOpen(f)') /\ (VerdictOpen(f) => VerdictOpen(f)')
  BY <1>1
<1>3. Tells(f, list[t][f])
  BY <1>1, <1>2 DEF TabTells
<1> QED BY <1>2, <1>3 DEF Tells, There

LEMMA FileTellsOn ==
  ASSUME FileTells, UNCHANGED <<verdict, removed>>,
         \A t \in Tab, f \in File :
           t \notin fileDoubt' /\ fileCard'[t] # NoFile /\ fileCard'[t].id = f =>
             /\ t \notin fileDoubt /\ fileCard'[t] = fileCard[t]
             /\ RemovalOpen(f) => RemovalOpen(f)'
             /\ VerdictOpen(f) => VerdictOpen(f)'
  PROVE  FileTells'
<1> SUFFICES ASSUME NEW t \in Tab, t \notin fileDoubt', NEW f \in File,
                    fileCard'[t] # NoFile, fileCard'[t].id = f
             PROVE  Tells(f, fileCard[t].is)'
  BY DEF FileTells
<1>1. /\ t \notin fileDoubt /\ fileCard'[t] = fileCard[t]
      /\ RemovalOpen(f) => RemovalOpen(f)'
      /\ VerdictOpen(f) => VerdictOpen(f)'
  OBVIOUS
<1>2. Tells(f, fileCard[t].is)
  BY <1>1 DEF FileTells
<1> QED BY <1>1, <1>2 DEF Tells, There

LEMMA LetterAdds ==
  ASSUME FilesInv, NEW q, LetterWell(q), q.at = "sent", FreeLetter # {},
         letters' = [letters EXCEPT ![NextLetter] = q],
         UNCHANGED <<verdict, removed, list, fileCard, listDoubt, fileDoubt>>,
         deskTab' = deskTab \/ (q.what = "list" /\ q.tab = deskTab')
  PROVE  /\ LettersWell' /\ TabTells' /\ FileTells'
         /\ \E n \in 1 .. Letters :
              /\ letters[n] = NoLetter
              /\ \A m \in 1 .. Letters : letters'[m] = IF m = n THEN q ELSE letters[m]
<1>1. LettersWell
  BY DEF FilesInv, FilesWell
<1>2. LettersWell'
  BY <1>1, LetterAdded
<1>3. PICK n \in 1 .. Letters :
        /\ letters[n] = NoLetter
        /\ \A m \in 1 .. Letters : letters'[m] = IF m = n THEN q ELSE letters[m]
  BY <1>1, LetterAdded
<1>4. letters[n].at = "none"
  BY <1>3 DEF NoLetter
<1>5. \A f \in File : (RemovalOpen(f) => RemovalOpen(f)') /\ (VerdictOpen(f) => VerdictOpen(f)')
  BY <1>3, <1>4 DEF RemovalOpen, VerdictOpen
<1>6. \A t \in Tab : TabReloads(t) \/ (q.what = "list" /\ q.tab = t) => TabReloads(t)'
  BY <1>3, <1>4 DEF TabReloads
<1>7. TabTells'
  <2>1. \A t \in Tab : t = deskTab' /\ t \notin listDoubt' =>
           \/ TabReloads(t)'
           \/ t = deskTab /\ t \notin listDoubt /\ ~TabReloads(t)
    BY <1>6
  <2>2. TabTells
    BY DEF FilesInv
  <2> QED BY <1>5, <2>1, <2>2, TabTellsOn
<1>8. FileTells'
  BY <1>5, FileTellsOn DEF FilesInv
<1> QED BY <1>2, <1>3, <1>7, <1>8

LEMMA WaitsGrow ==
  ASSUME LettersWait, NEW q, LetterWell(q), NEW n \in 1 .. Letters, letters[n] = NoLetter,
         \A m \in 1 .. Letters : letters'[m] = IF m = n THEN q ELSE letters[m],
         OfQuestion(q) => ~question.sent /\ question'.sent = TRUE,
         ~OfQuestion(q) => question'.sent = question.sent,
         OfReason(q) => ~reason.sent /\ reason'.sent = TRUE,
         ~OfReason(q) => reason'.sent = reason.sent,
         massBusy' => massBusy \/ q.what = "mass"
  PROVE  LettersWait'
<1>1. q # NoLetter
  BY LetterFields
<1>2. n \notin Questioners /\ Questioners' = IF OfQuestion(q) THEN Questioners \union {n} ELSE Questioners
  BY <1>1 DEF Questioners
<1>3. n \notin Rejecters /\ Rejecters' = IF OfReason(q) THEN Rejecters \union {n} ELSE Rejecters
  BY <1>1 DEF Rejecters
<1>4. OneOf(Questioners, question.sent)'
  BY <1>2 DEF LettersWait, OneOf
<1>5. OneOf(Rejecters, reason.sent)'
  BY <1>3 DEF LettersWait, OneOf
<1>6. massBusy' => \E m \in 1 .. Letters : letters'[m] # NoLetter /\ letters'[m].what = "mass"
  BY <1>1 DEF LettersWait
<1> QED BY <1>4, <1>5, <1>6 DEF LettersWait

LEMMA LetterSent ==
  ASSUME FilesInv, NEW q, LetterWell(q), q.at = "sent", FreeLetter # {},
         letters' = [letters EXCEPT ![NextLetter] = q],
         UNCHANGED <<verdict, removed, list, fileCard, listDoubt, fileDoubt>>,
         deskTab' = deskTab \/ (q.what = "list" /\ q.tab = deskTab'),
         OfQuestion(q) => ~question.sent /\ question'.sent = TRUE,
         ~OfQuestion(q) => question'.sent = question.sent,
         OfReason(q) => ~reason.sent /\ reason'.sent = TRUE,
         ~OfReason(q) => reason'.sent = reason.sent,
         massBusy' => massBusy \/ q.what = "mass"
  PROVE  LettersWell' /\ LettersWait' /\ TabTells' /\ FileTells'
<1>1. /\ LettersWell' /\ TabTells' /\ FileTells'
      /\ \E n \in 1 .. Letters :
           /\ letters[n] = NoLetter
           /\ \A m \in 1 .. Letters : letters'[m] = IF m = n THEN q ELSE letters[m]
  BY LetterAdds
<1>2. PICK n \in 1 .. Letters :
        /\ letters[n] = NoLetter
        /\ \A m \in 1 .. Letters : letters'[m] = IF m = n THEN q ELSE letters[m]
  BY <1>1
<1>3. LettersWait
  BY DEF FilesInv
<1>4. LettersWait'
  BY <1>2, <1>3, WaitsGrow
<1> QED BY <1>1, <1>4

LEMMA LetterMade ==
  ASSUME NEW what, NEW which, NEW ids, NEW to,
         what \in {"card", "judge", "remove", "mass"}, which \in Tab, ids \subseteq File, to \in Verdict,
         what \in {"card", "judge", "remove"} => \E f \in File : ids = {f} /\ which = Kind(f),
         what = "mass" => \A f \in ids : which = Kind(f)
  PROVE  /\ LetterWell(Letter(what, which, ids, to))
         /\ Letter(what, which, ids, to).at = "sent" /\ Letter(what, which, ids, to).what = what
         /\ Letter(what, which, ids, to).ids = ids /\ Letter(what, which, ids, to).tab = which
         /\ Letter(what, which, ids, to).to = to
<1>1. [f \in File |-> "unlisted"] \in [File -> Listed1]
  BY DEF Listed1
<1> QED BY <1>1 DEF Letter, LetterWell, LetterRecord

LEMMA ListLetterMade ==
  ASSUME NEW t \in Tab, NEW by \in {"all", "PENDING"}
  PROVE  /\ LetterWell(ListLetter(t, by)) /\ ListLetter(t, by).at = "sent"
         /\ ListLetter(t, by).what = "list" /\ ListLetter(t, by).tab = t
<1>1. [f \in File |-> "unlisted"] \in [File -> Listed1]
  BY DEF Listed1
<1> QED BY <1>1 DEF ListLetter, Letter, LetterWell, LetterRecord, Verdict

LEMMA ListIsNoDecision ==
  ASSUME NEW q, q.what \in {"list", "card"} PROVE ~OfQuestion(q) /\ ~OfReason(q)
BY DEF OfQuestion, OfReason

LEMMA ListAsked ==
  ASSUME FilesInv, NEW t \in Tab, NEW by \in {"all", "PENDING"}, FreeLetter # {},
         letters' = [letters EXCEPT ![NextLetter] = ListLetter(t, by)], deskTab' = t,
         UNCHANGED <<verdict, removed, list, fileCard, question, reason, massBusy, listDoubt, fileDoubt>>
  PROVE  LettersWell' /\ LettersWait' /\ TabTells' /\ FileTells'
<1> DEFINE q == ListLetter(t, by)
<1>1. LetterWell(q) /\ q.at = "sent" /\ q.what = "list" /\ q.tab = t
  BY ListLetterMade
<1>2. letters' = [letters EXCEPT ![NextLetter] = q]
  OBVIOUS
<1> HIDE DEF q
<1>3. ~OfQuestion(q) /\ ~OfReason(q)
  BY <1>1, ListIsNoDecision
<1> QED BY <1>1, <1>2, <1>3, LetterSent

LEMMA ShowTabInv ==
  ASSUME FilesInv, NEW t \in Tab, ShowTab(t) PROVE FilesInv'
<1> DEFINE by == filter[t]
<1>1. by \in {"all", "PENDING"}
  BY DEF FilesInv, FilesWell, FilesTypeOK
<1>2. /\ FreeLetter # {} /\ letters' = [letters EXCEPT ![NextLetter] = ListLetter(t, by)]
      /\ deskTab' = t
      /\ UNCHANGED <<verdict, removed, list, fileCard, question, reason, massBusy, listDoubt, fileDoubt,
                     filter, marked, lapses>>
  BY DEF ShowTab, Writes, fileDoubts
<1> HIDE DEF by
<1>3. LettersWell' /\ LettersWait' /\ TabTells' /\ FileTells'
  BY <1>1, <1>2, ListAsked
<1>4. DialogsWell'
  BY <1>2 DEF DialogsWell, FilesInv, FilesWell
<1>5. FilesTypeOK'
  BY <1>2, DialsOfFiles DEF ShowTab, FilesAct, FilesTypeOK, FilesInv, FilesWell
<1> QED BY <1>3, <1>4, <1>5 DEF FilesInv, FilesWell

LEMMA FilterByInv ==
  ASSUME FilesInv, FilterBy PROVE FilesInv'
<1> DEFINE by == IF filter[deskTab] = "all" THEN "PENDING" ELSE "all"
<1>0. PICK t \in Tab : t = deskTab
  BY DEF FilesInv, FilesWell, FilesTypeOK
<1>1. by \in {"all", "PENDING"}
  OBVIOUS
<1>2. /\ FreeLetter # {} /\ letters' = [letters EXCEPT ![NextLetter] = ListLetter(t, by)]
      /\ deskTab' = t /\ filter' = [filter EXCEPT ![t] = by]
      /\ UNCHANGED <<verdict, removed, list, fileCard, question, reason, massBusy, listDoubt, fileDoubt,
                     deskTab, marked, lapses>>
  BY <1>0 DEF FilterBy, Writes, fileDoubts
<1> HIDE DEF by
<1>3. LettersWell' /\ LettersWait' /\ TabTells' /\ FileTells'
  BY <1>1, <1>2, ListAsked
<1>4. DialogsWell'
  BY <1>2 DEF DialogsWell, FilesInv, FilesWell
<1>5. FilesTypeOK'
  BY <1>1, <1>2, DialsOfFiles DEF FilterBy, FilesAct, FilesTypeOK, FilesInv, FilesWell
<1> QED BY <1>3, <1>4, <1>5 DEF FilesInv, FilesWell


(* What touches no request and no row. *)
LEMMA LettersRest ==
  ASSUME FilesInv, UNCHANGED <<letters, verdict, removed, list, deskTab, listDoubt, fileDoubt>>,
         fileCard' = fileCard \/ \E t \in Tab : fileCard' = [fileCard EXCEPT ![t] = NoFile],
         question'.sent = question.sent, reason'.sent = reason.sent, UNCHANGED massBusy
  PROVE  LettersWell' /\ LettersWait' /\ TabTells' /\ FileTells'
<1>1. LettersWell' /\ LettersWait'
  <2>1. Questioners' = Questioners /\ Rejecters' = Rejecters
    BY DEF Questioners, Rejecters
  <2> QED BY <2>1 DEF FilesInv, FilesWell, LettersWell, LettersWait, OneOf
<1>2. \A f \in File : (RemovalOpen(f) => RemovalOpen(f)') /\ (VerdictOpen(f) => VerdictOpen(f)')
  BY DEF RemovalOpen, VerdictOpen
<1>3. \A t \in Tab : TabReloads(t) => TabReloads(t)'
  BY DEF TabReloads
<1>4. TabTells'
  BY <1>2, <1>3, TabTellsOn DEF FilesInv
<1>5. \A t \in Tab : fileCard'[t] # NoFile => fileCard'[t] = fileCard[t]
  BY DEF FilesInv, FilesWell, DialogsWell
<1>6. FileTells'
  BY <1>2, <1>5, FileTellsOn DEF FilesInv
<1> QED BY <1>1, <1>4, <1>6

LEMMA CloseFileInv ==
  ASSUME FilesInv, NEW f \in File, CloseFile(f) PROVE FilesInv'
<1> DEFINE t == Kind(f)
<1>1. t \in Tab
  BY KindIs
<1>2. /\ fileCard' = [fileCard EXCEPT ![t] = NoFile]
      /\ UNCHANGED <<verdict, removed, deskTab, filter, list, fileLoading, question, reason, marked,
                     massBusy, letters, acts, lapses, listDoubt, fileDoubt>>
  BY DEF CloseFile, fileDoubts
<1> HIDE DEF t
<1>3. LettersWell' /\ LettersWait' /\ TabTells' /\ FileTells'
  BY <1>1, <1>2, LettersRest
<1>4. DialogsWell'
  BY <1>1, <1>2 DEF DialogsWell, FilesInv, FilesWell
<1>5. \A k \in Tab : fileCard'[k] = IF k = t THEN NoFile ELSE fileCard[k]
  BY <1>1, <1>2 DEF DialogsWell, FilesInv, FilesWell
<1>6. FilesTypeOK'
  BY <1>2, <1>5 DEF FilesTypeOK, FilesInv, FilesWell
<1> QED BY <1>3, <1>4, <1>6 DEF FilesInv, FilesWell

LEMMA QuestionsInv ==
  ASSUME FilesInv, NEW act \in {"approve", "remove"}, NEW f \in File, act = "approve" => f = Seller,
         Questions(act, f)
  PROVE  FilesInv'
<1>1. /\ question' = [act |-> act, ids |-> {f}, sent |-> FALSE]
      /\ UNCHANGED <<verdict, removed, deskTab, filter, list, fileLoading, fileCard, reason, marked,
                     massBusy, letters, lapses, listDoubt, fileDoubt>>
      /\ question = Unasked
  BY DEF Questions, fileDoubts, CardAt, Asked
<1>2. question'.sent = question.sent
  BY <1>1, DialogsAre DEF FilesInv
<1>3. LettersWell' /\ LettersWait' /\ TabTells' /\ FileTells'
  BY <1>1, <1>2, LettersRest
<1>4. DialogsWell'
  BY <1>1 DEF DialogsWell, FilesInv, FilesWell
<1>5. FilesTypeOK'
  BY <1>1, DialsOfFiles DEF Questions, FilesAct, FilesTypeOK, FilesInv, FilesWell
<1> QED BY <1>3, <1>4, <1>5 DEF FilesInv, FilesWell

LEMMA AsksReasonInv ==
  ASSUME FilesInv, NEW act \in {"reject", "mass"}, NEW ids \in SUBSET File, ids # {},
         \E t \in Tab : \A f \in ids : Kind(f) = t,
         act = "reject" => \E f \in File : ids = {f}, AsksReason(act, ids)
  PROVE  FilesInv'
<1>1. /\ reason' = [act |-> act, ids |-> ids, sent |-> reason.sent]
      /\ UNCHANGED <<verdict, removed, deskTab, filter, list, fileLoading, fileCard, question, marked,
                     massBusy, letters, lapses, listDoubt, fileDoubt>>
  BY DEF AsksReason, fileDoubts
<1>2. reason'.sent = reason.sent /\ reason.sent \in BOOLEAN
  BY <1>1, DialogsAre DEF FilesInv
<1>3. LettersWell' /\ LettersWait' /\ TabTells' /\ FileTells'
  BY <1>1, <1>2, LettersRest
<1>4. DialogsWell'
  <2>1. reason'.act = act /\ reason'.ids = ids
    BY <1>1
  <2>2. reason' \in [act : {"reject", "mass"}, ids : SUBSET File, sent : BOOLEAN]
    BY <1>1, <1>2
  <2> QED BY <1>1, <2>1, <2>2 DEF DialogsWell, FilesInv, FilesWell
<1>5. FilesTypeOK'
  BY <1>1, DialsOfFiles DEF AsksReason, FilesAct, FilesTypeOK, FilesInv, FilesWell
<1> QED BY <1>3, <1>4, <1>5 DEF FilesInv, FilesWell

LEMMA MarksInv ==
  ASSUME FilesInv, NEW t \in Tab, NEW to \in SUBSET {f \in File : Kind(f) = t}, Marks(t, to)
  PROVE  FilesInv'
<1>1. /\ marked' = [marked EXCEPT ![t] = to]
      /\ UNCHANGED <<verdict, removed, deskTab, filter, list, fileLoading, fileCard, question, reason,
                     massBusy, letters, lapses, listDoubt, fileDoubt>>
  BY DEF Marks, fileDoubts
<1>2. LettersWell' /\ LettersWait' /\ TabTells' /\ FileTells'
  BY <1>1, LettersRest
<1>3. DialogsWell'
  BY <1>1 DEF DialogsWell, FilesInv, FilesWell
<1>4. \A k \in Tab : marked'[k] = IF k = t THEN to ELSE marked[k]
  BY <1>1 DEF DialogsWell, FilesInv, FilesWell
<1>5. FilesTypeOK'
  BY <1>1, <1>4, DialsOfFiles DEF Marks, FilesAct, FilesTypeOK, FilesInv, FilesWell
<1> QED BY <1>2, <1>3, <1>5 DEF FilesInv, FilesWell

LEMMA FilesRestInv ==
  ASSUME FilesInv, Abandon \/ UNCHANGED filesVars PROVE FilesInv'
<1>1. /\ UNCHANGED <<verdict, removed, deskTab, filter, list, fileLoading, fileCard, marked, massBusy,
                     letters, acts, lapses, listDoubt, fileDoubt>>
      /\ UNCHANGED question \/ (~question.sent /\ question' = Unasked)
      /\ UNCHANGED reason \/ (~reason.sent /\ reason' = Unasked)
  BY DEF Abandon, filesVars, filesPage, fileDoubts
<1>2. question'.sent = question.sent /\ reason'.sent = reason.sent
  <2>1. question.sent \in BOOLEAN /\ reason.sent \in BOOLEAN /\ Unasked.sent = FALSE
    BY DialogsAre DEF FilesInv
  <2>2. question'.sent = question.sent
    BY <1>1, <2>1
  <2>3. reason'.sent = reason.sent
    BY <1>1, <2>1
  <2> QED BY <2>2, <2>3
<1>3. LettersWell' /\ LettersWait' /\ TabTells' /\ FileTells'
  BY <1>1, <1>2, LettersRest
<1>4. DialogsWell'
  BY <1>1 DEF DialogsWell, FilesInv, FilesWell
<1>5. FilesTypeOK'
  BY <1>1 DEF FilesTypeOK, FilesInv, FilesWell
<1> QED BY <1>3, <1>4, <1>5 DEF FilesInv, FilesWell

LEMMA ClicksOfFilesInv ==
  ASSUME FilesInv,
         \/ MarkAll
         \/ \E t \in Tab : RejectMarked(t) \/ Unmark(t)
         \/ \E f \in File : ApproveSeller(f) \/ RemoveFile(f) \/ RejectFile(f) \/ Mark(f)
  PROVE  FilesInv'
<1>0. /\ \A t \in Tab : marked[t] \subseteq {f \in File : Kind(f) = t}
      /\ deskTab \in Tab /\ \A t \in Tab, f \in File : list[t][f] # "unlisted" => Kind(f) = t
  BY DEF FilesInv, FilesWell, FilesTypeOK
<1>1. CASE MarkAll
  <2>1. PICK t \in Tab : t = deskTab
    BY <1>0
  <2> DEFINE to == {f \in File : list[t][f] # "unlisted"}
  <2>2. Marks(t, to) /\ to \in SUBSET {f \in File : Kind(f) = t}
    BY <1>0, <1>1, <2>1 DEF MarkAll
  <2> HIDE DEF to
  <2> QED BY <2>2, MarksInv
<1>2. ASSUME NEW t \in Tab, RejectMarked(t) PROVE FilesInv'
  <2> DEFINE ids == marked[t]
  <2>1. AsksReason("mass", ids) /\ ids # {} /\ ids \in SUBSET File /\ \A f \in ids : Kind(f) = t
    BY <1>0, <1>2 DEF RejectMarked
  <2> HIDE DEF ids
  <2> QED BY <2>1, AsksReasonInv
<1>3. ASSUME NEW t \in Tab, Unmark(t) PROVE FilesInv'
  BY <1>3, MarksInv DEF Unmark
<1>4. ASSUME NEW f \in File, ApproveSeller(f) \/ RemoveFile(f) PROVE FilesInv'
  BY <1>4, QuestionsInv DEF ApproveSeller, RemoveFile
<1>5. ASSUME NEW f \in File, RejectFile(f) PROVE FilesInv'
  <2> DEFINE ids == {f}
  <2>1. AsksReason("reject", ids) /\ ids # {} /\ ids \in SUBSET File /\ \E g \in File : ids = {g}
    BY <1>5 DEF RejectFile
  <2>2. \E t \in Tab : \A g \in ids : Kind(g) = t
    BY KindIs
  <2> HIDE DEF ids
  <2> QED BY <2>1, <2>2, AsksReasonInv
<1>6. ASSUME NEW f \in File, Mark(f) PROVE FilesInv'
  <2>1. PICK t \in Tab : t = Kind(f)
    BY KindIs
  <2> DEFINE to == IF f \in marked[t] THEN marked[t] \ {f} ELSE marked[t] \union {f}
  <2>2. Marks(t, to) /\ to \in SUBSET {g \in File : Kind(g) = t}
    BY <1>0, <1>6, <2>1 DEF Mark
  <2> HIDE DEF to
  <2> QED BY <2>2, MarksInv
<1> QED BY <1>1, <1>2, <1>3, <1>4, <1>5, <1>6

(* A request about files is sent. *)
LEMMA OpenFileInv ==
  ASSUME FilesInv, NEW f \in File, OpenFile(f) PROVE FilesInv'
<1> DEFINE which == deskTab
<1>1. which = Kind(f) /\ which \in Tab
  BY KindIs DEF OpenFile, RowAt
<1>2. /\ Writes(Letter("card", which, {f}, "PENDING"))
      /\ UNCHANGED <<verdict, removed, deskTab, filter, list, fileLoading, fileCard, question, reason,
                     marked, massBusy, lapses, listDoubt, fileDoubt>>
  BY DEF OpenFile, filesPage, fileDoubts
<1> HIDE DEF which
<1>3. LettersWell' /\ LettersWait' /\ TabTells' /\ FileTells'
  <2> DEFINE q == Letter("card", which, {f}, "PENDING")
  <2>1. LetterWell(q) /\ q.at = "sent" /\ q.what = "card"
    BY <1>1, LetterMade DEF Verdict
  <2>2. FreeLetter # {} /\ letters' = [letters EXCEPT ![NextLetter] = q]
    BY <1>2 DEF Writes
  <2> HIDE DEF q
  <2>3. ~OfQuestion(q) /\ ~OfReason(q)
    BY <2>1, ListIsNoDecision
  <2> QED BY <1>2, <2>1, <2>2, <2>3, LetterSent
<1>4. DialogsWell'
  BY <1>2 DEF DialogsWell, FilesInv, FilesWell
<1>5. FilesTypeOK'
  BY <1>2, DialsOfFiles DEF OpenFile, FilesAct, FilesTypeOK, FilesInv, FilesWell
<1> QED BY <1>3, <1>4, <1>5 DEF FilesInv, FilesWell

LEMMA ApprovePlaceInv ==
  ASSUME FilesInv, NEW f \in File, ApprovePlace(f) PROVE FilesInv'
<1> DEFINE which == Kind(f)
<1>1. which \in Tab /\ f # Seller
  BY KindIs DEF ApprovePlace
<1>2. /\ Writes(Letter("judge", which, {f}, "APPROVED"))
      /\ UNCHANGED <<verdict, removed, deskTab, filter, list, fileLoading, fileCard, question, reason,
                     marked, massBusy, lapses, listDoubt, fileDoubt>>
      /\ which = Kind(f)
  BY DEF ApprovePlace, filesPage, fileDoubts
<1> HIDE DEF which
<1>3. {f} # {Seller}
  BY <1>1
<1>4. LettersWell' /\ LettersWait' /\ TabTells' /\ FileTells'
  <2> DEFINE q == Letter("judge", which, {f}, "APPROVED")
  <2>1. LetterWell(q) /\ q.at = "sent" /\ q.what = "judge" /\ q.ids = {f} /\ q.to = "APPROVED"
    BY <1>1, <1>2, LetterMade DEF Verdict
  <2>2. FreeLetter # {} /\ letters' = [letters EXCEPT ![NextLetter] = q]
    BY <1>2 DEF Writes
  <2> HIDE DEF q
  <2>3. ~OfQuestion(q) /\ ~OfReason(q)
    BY <1>3, <2>1 DEF OfQuestion, OfReason
  <2> QED BY <1>2, <2>1, <2>2, <2>3, LetterSent
<1>5. DialogsWell'
  BY <1>2 DEF DialogsWell, FilesInv, FilesWell
<1>6. FilesTypeOK'
  BY <1>2, DialsOfFiles DEF ApprovePlace, FilesAct, FilesTypeOK, FilesInv, FilesWell
<1> QED BY <1>4, <1>5, <1>6 DEF FilesInv, FilesWell

LEMMA ApproveMarkedInv ==
  ASSUME FilesInv, NEW t \in Tab, ApproveMarked(t) PROVE FilesInv'
<1> DEFINE ids == marked[t]
<1>1. ids \subseteq File /\ \A f \in ids : t = Kind(f)
  BY DEF FilesInv, FilesWell, FilesTypeOK
<1>2. /\ Writes(Letter("mass", t, ids, "APPROVED")) /\ massBusy' = TRUE
      /\ UNCHANGED <<verdict, removed, deskTab, filter, list, fileLoading, fileCard, question, reason,
                     marked, lapses, listDoubt, fileDoubt>>
  BY DEF ApproveMarked, fileDoubts
<1> HIDE DEF ids
<1>3. LettersWell' /\ LettersWait' /\ TabTells' /\ FileTells'
  <2> DEFINE q == Letter("mass", t, ids, "APPROVED")
  <2>1. LetterWell(q) /\ q.at = "sent" /\ q.what = "mass" /\ q.to = "APPROVED"
    BY <1>1, LetterMade DEF Verdict
  <2>2. FreeLetter # {} /\ letters' = [letters EXCEPT ![NextLetter] = q]
    BY <1>2 DEF Writes
  <2> HIDE DEF q
  <2>3. ~OfQuestion(q) /\ ~OfReason(q)
    BY <2>1 DEF OfQuestion, OfReason
  <2> QED BY <1>2, <2>1, <2>2, <2>3, LetterSent
<1>4. DialogsWell'
  BY <1>2 DEF DialogsWell, FilesInv, FilesWell
<1>5. FilesTypeOK'
  BY <1>2, DialsOfFiles DEF ApproveMarked, FilesAct, FilesTypeOK, FilesInv, FilesWell
<1> QED BY <1>3, <1>4, <1>5 DEF FilesInv, FilesWell

LEMMA AnswerQuestionInv ==
  ASSUME FilesInv, AnswerQuestion PROVE FilesInv'
<1>1. question # Unasked /\ ~question.sent
  BY DEF AnswerQuestion
<1>2. PICK f \in File : question.ids = {f} /\ (question.act = "approve" => f = Seller)
  BY <1>1, DialogsAre DEF FilesInv
<1>3. (CHOOSE x \in question.ids : TRUE) = f /\ question.act \in {"approve", "remove"}
  BY <1>1, <1>2, DialogsAre DEF FilesInv
<1> DEFINE what == IF question.act = "approve" THEN "judge" ELSE "remove"
           which == Kind(f)
<1>4. /\ Writes(Letter(what, which, {f}, "APPROVED"))
      /\ question' = [question EXCEPT !.sent = TRUE]
      /\ UNCHANGED <<verdict, removed, deskTab, filter, list, fileLoading, fileCard, reason, marked,
                     massBusy, acts, lapses, listDoubt, fileDoubt>>
  BY <1>2, <1>3 DEF AnswerQuestion, fileDoubts
<1>5. /\ what \in {"judge", "remove"} /\ (what = "judge" => f = Seller)
      /\ which \in Tab /\ which = Kind(f)
  BY <1>2, <1>3, KindIs
<1> HIDE DEF what, which
<1>6. /\ question' \in [act : {"approve", "remove"}, ids : SUBSET File, sent : BOOLEAN]
      /\ question'.sent = TRUE /\ question'.ids = {f} /\ (question'.act = "approve" => f = Seller)
      /\ question'.act \in {"approve", "remove"}
  BY <1>1, <1>2, <1>4 DEF FilesInv, FilesWell, DialogsWell
<1>7. LettersWell' /\ LettersWait' /\ TabTells' /\ FileTells'
  <2> DEFINE q == Letter(what, which, {f}, "APPROVED")
  <2>1. /\ LetterWell(q) /\ q.at = "sent" /\ q.what = what /\ q.ids = {f} /\ q.to = "APPROVED"
    BY <1>5, LetterMade DEF Verdict
  <2>2. FreeLetter # {} /\ letters' = [letters EXCEPT ![NextLetter] = q]
    BY <1>4 DEF Writes
  <2> HIDE DEF q
  <2>3. OfQuestion(q) /\ ~OfReason(q)
    BY <1>5, <2>1 DEF OfQuestion, OfReason
  <2> QED BY <1>1, <1>4, <1>6, <2>1, <2>2, <2>3, LetterSent
<1>8. DialogsWell'
  BY <1>4, <1>6 DEF DialogsWell, FilesInv, FilesWell
<1>9. FilesTypeOK'
  BY <1>4, <1>6 DEF FilesTypeOK, FilesInv, FilesWell
<1> QED BY <1>7, <1>8, <1>9 DEF FilesInv, FilesWell

LEMMA GiveReasonInv ==
  ASSUME FilesInv, GiveReason PROVE FilesInv'
<1>1. reason # Unasked /\ ~reason.sent
  BY DEF GiveReason, Given
<1> DEFINE ids == reason.ids
           f == CHOOSE x \in ids : TRUE
           what == IF reason.act = "mass" THEN "mass" ELSE "judge"
           which == Kind(f)
<1>2. /\ reason.act \in {"reject", "mass"} /\ ids \subseteq File /\ ids # {}
      /\ \E t \in Tab : \A g \in ids : Kind(g) = t
      /\ reason.act = "reject" => \E g \in File : ids = {g}
  BY <1>1, DialogsAre DEF FilesInv
<1>3. f \in ids
  BY <1>2
<1>4. /\ which \in Tab /\ \A g \in ids : which = Kind(g)
      /\ what \in {"judge", "mass"}
      /\ what = "judge" => \E g \in File : ids = {g} /\ which = Kind(g)
      /\ reason.act = "mass" <=> what = "mass"
  BY <1>2, <1>3, KindIs
<1>5. /\ Writes(Letter(what, which, ids, "REJECTED"))
      /\ reason' = [reason EXCEPT !.sent = TRUE]
      /\ massBusy' = (massBusy \/ reason.act = "mass")
      /\ UNCHANGED <<verdict, removed, deskTab, filter, list, fileLoading, fileCard, question, marked,
                     acts, lapses, listDoubt, fileDoubt>>
  BY DEF GiveReason, fileDoubts
<1>6. /\ reason' \in [act : {"reject", "mass"}, ids : SUBSET File, sent : BOOLEAN]
      /\ reason'.sent = TRUE /\ reason'.ids = reason.ids /\ reason'.act = reason.act
  BY <1>1, <1>5 DEF FilesInv, FilesWell, DialogsWell
<1>7. DialogsWell'
  BY <1>2, <1>5, <1>6 DEF DialogsWell, FilesInv, FilesWell
<1> HIDE DEF ids, f, what, which
<1>8. LettersWell' /\ LettersWait' /\ TabTells' /\ FileTells'
  <2> DEFINE q == Letter(what, which, ids, "REJECTED")
  <2>1. /\ LetterWell(q) /\ q.at = "sent" /\ q.what = what /\ q.to = "REJECTED"
    BY <1>2, <1>4, LetterMade DEF Verdict
  <2>2. FreeLetter # {} /\ letters' = [letters EXCEPT ![NextLetter] = q]
    BY <1>5 DEF Writes
  <2> HIDE DEF q
  <2>3. ~OfQuestion(q) /\ OfReason(q)
    BY <1>4, <2>1 DEF OfQuestion, OfReason
  <2>4. massBusy' => massBusy \/ q.what = "mass"
    BY <1>4, <1>5, <2>1
  <2> QED BY <1>1, <1>5, <1>6, <2>1, <2>2, <2>3, <2>4, LetterSent
<1>9. FilesTypeOK'
  BY <1>2, <1>5, <1>6 DEF FilesTypeOK, FilesInv, FilesWell
<1> QED BY <1>7, <1>8, <1>9 DEF FilesInv, FilesWell


(* The server. *)
LEMMA LetterServed ==
  ASSUME LettersWell, NEW m \in 1 .. Letters, letters[m] # NoLetter, NEW r,
         r.at \in {"answered", "failed"}, r \in LetterRecord,
         r.what = letters[m].what, r.tab = letters[m].tab, r.ids = letters[m].ids, r.to = letters[m].to,
         r.what = "list" => \A f \in File : r.got[f] # "unlisted" => r.tab = Kind(f),
         r.what \in {"card", "judge"} /\ r.at = "answered" => r.got \in [File -> Verdict],
         DOMAIN letters' = 1 .. Letters, letters'[m] = r,
         \A n \in 1 .. Letters : n # m => letters'[n] = letters[n]
  PROVE  LettersWell' /\ r # NoLetter
<1>1. LetterWell(letters[m])
  BY LetterIs
<1>2. LetterWell(r)
  BY <1>1 DEF LetterWell
<1> QED BY <1>2, LetterFields DEF LettersWell

LEMMA WaitsKept ==
  ASSUME LettersWait, NEW m \in 1 .. Letters, letters[m] # NoLetter, letters'[m] # NoLetter,
         letters'[m].what = letters[m].what, letters'[m].ids = letters[m].ids,
         letters'[m].to = letters[m].to, \A n \in 1 .. Letters : n # m => letters'[n] = letters[n],
         UNCHANGED <<question, reason, massBusy>>
  PROVE  LettersWait'
<1>1. /\ OfQuestion(letters[m])' <=> OfQuestion(letters[m])
      /\ OfReason(letters[m])' <=> OfReason(letters[m])
  BY DEF OfQuestion, OfReason
<1>2. \A n \in 1 .. Letters :
        /\ letters'[n] # NoLetter <=> letters[n] # NoLetter
        /\ OfQuestion(letters[n])' <=> OfQuestion(letters[n])
        /\ OfReason(letters[n])' <=> OfReason(letters[n])
        /\ letters'[n].what = letters[n].what
  BY <1>1 DEF OfQuestion, OfReason
<1>3. Questioners' = Questioners /\ Rejecters' = Rejecters
  BY <1>2 DEF Questioners, Rejecters
<1> QED BY <1>2, <1>3 DEF LettersWait, OneOf

LEMMA OpensServed ==
  ASSUME NEW m \in 1 .. Letters, letters[m].at = "sent",
         letters'[m].at = "answered" \/ letters[m].what # "list",
         letters'[m].what = letters[m].what, letters'[m].tab = letters[m].tab,
         letters'[m].ids = letters[m].ids,
         \A n \in 1 .. Letters : n # m => letters'[n] = letters[n]
  PROVE  /\ \A f \in File : (RemovalOpen(f) => RemovalOpen(f)') /\ (VerdictOpen(f) => VerdictOpen(f)')
         /\ \A t \in Tab : TabReloads(t) => TabReloads(t)'
<1>1. \A f \in File : RemovalOpen(f) => RemovalOpen(f)'
  BY DEF RemovalOpen
<1>2. \A f \in File : VerdictOpen(f) => VerdictOpen(f)'
  BY DEF VerdictOpen
<1>3. \A t \in Tab : TabReloads(t) => TabReloads(t)'
  BY DEF TabReloads
<1> QED BY <1>1, <1>2, <1>3

LEMMA FilesListingIs ==
  ASSUME FilesTypeOK, NEW t \in Tab, NEW by
  PROVE  /\ FilesListing(t, by) \in [File -> Listed1]
         /\ \A f \in File : FilesListing(t, by)[f] # "unlisted" =>
              t = Kind(f) /\ There(f) /\ FilesListing(t, by)[f] = verdict[f]
<1>1. \A f \in File : verdict[f] \in Verdict
  BY DEF FilesTypeOK
<1> QED BY <1>1 DEF FilesListing, Listed1

(* Only the verdicts on what a decision is about change, and those on the       *)
(* restaurants of a vendor who is approved.                                      *)
LEMMA JudgedIs ==
  ASSUME FilesTypeOK, NEW ids, NEW to \in Verdict, verdict' = Judged(ids, to)
  PROVE  /\ verdict' \in [File -> Verdict]
         /\ \A f \in File : verdict'[f] = verdict[f] \/ f \in ids \/ Seller \in ids
BY DEF FilesTypeOK, Judged

LEMMA ServeLooksInv ==
  ASSUME FilesInv, NEW m \in 1 .. Letters, letters[m].at = "sent", NEW g,
         \/ /\ letters' = [letters EXCEPT ![m].at = "answered", ![m].got = g]
            /\ letters[m].what \in {"list", "card"} /\ g \in [File -> Listed1]
            /\ letters[m].what = "list" => \A f \in File : g[f] # "unlisted" => letters[m].tab = Kind(f)
            /\ letters[m].what = "card" => g \in [File -> Verdict]
         \/ letters' = [letters EXCEPT ![m].at = "failed"] /\ letters[m].what # "list",
         UNCHANGED <<verdict, removed, fileDoubt, filesPage, acts, lapses>>,
         listDoubt' = listDoubt \/ listDoubt' = listDoubt \union {"restaurants"}
  PROVE  FilesInv'
<1>1. /\ UNCHANGED <<deskTab, filter, list, fileLoading, fileCard, question, reason, marked, massBusy>>
      /\ LettersWell /\ LetterWell(letters[m]) /\ letters[m] # NoLetter
  BY LetterIs DEF filesPage, FilesInv, FilesWell
<1> DEFINE q == letters[m]
           r == letters'[m]
<1>2. LetterWell(q)
  BY <1>1
<1>3. /\ DOMAIN letters' = 1 .. Letters
      /\ \A n \in 1 .. Letters : n # m => letters'[n] = letters[n]
      /\ \/ /\ r = [q EXCEPT !.at = "answered", !.got = g]
            /\ q.what \in {"list", "card"} /\ g \in [File -> Listed1]
            /\ q.what = "list" => \A f \in File : g[f] # "unlisted" => q.tab = Kind(f)
            /\ q.what = "card" => g \in [File -> Verdict]
         \/ r = [q EXCEPT !.at = "failed"] /\ q.what # "list"
  BY <1>1 DEF LettersWell
<1> HIDE DEF q, r
<1>4. /\ r \in LetterRecord /\ r.what = q.what /\ r.tab = q.tab /\ r.ids = q.ids /\ r.to = q.to
      /\ r.at \in {"answered", "failed"} /\ (r.at = "answered" \/ q.what # "list")
      /\ r.what = "list" => \A f \in File : r.got[f] # "unlisted" => r.tab = Kind(f)
      /\ r.what \in {"card", "judge"} /\ r.at = "answered" => r.got \in [File -> Verdict]
  <2>1. CASE r = [q EXCEPT !.at = "failed"] /\ q.what # "list"
    BY <1>2, <2>1 DEF LetterWell, LetterRecord
  <2>2. CASE /\ r = [q EXCEPT !.at = "answered", !.got = g]
             /\ q.what \in {"list", "card"} /\ g \in [File -> Listed1]
             /\ q.what = "list" => \A f \in File : g[f] # "unlisted" => q.tab = Kind(f)
             /\ q.what = "card" => g \in [File -> Verdict]
    <3>1. r \in LetterRecord /\ r.got = g /\ r.what = q.what /\ r.tab = q.tab /\ r.at = "answered"
          /\ r.ids = q.ids /\ r.to = q.to
      BY <1>2, <2>2 DEF LetterWell, LetterRecord
    <3> QED BY <2>2, <3>1
  <2> QED BY <1>3, <2>1, <2>2
<1>5. LettersWell' /\ r # NoLetter
  BY <1>1, <1>3, <1>4, LetterServed DEF q, r
<1>6. LettersWait'
  BY <1>1, <1>3, <1>4, <1>5, WaitsKept DEF q, r, FilesInv
<1>7. /\ \A f \in File : (RemovalOpen(f) => RemovalOpen(f)') /\ (VerdictOpen(f) => VerdictOpen(f)')
      /\ \A t \in Tab : TabReloads(t) => TabReloads(t)'
  BY <1>3, <1>4, OpensServed DEF q, r
<1>8. TabTells'
  BY <1>1, <1>7, TabTellsOn DEF FilesInv
<1>9. FileTells'
  BY <1>1, <1>7, FileTellsOn DEF FilesInv
<1>10. DialogsWell'
  BY <1>1 DEF DialogsWell, FilesInv, FilesWell
<1>11. FilesTypeOK'
  BY <1>1 DEF FilesTypeOK, FilesInv, FilesWell, Tab
<1> QED BY <1>5, <1>6, <1>8, <1>9, <1>10, <1>11 DEF FilesInv, FilesWell

(* A decision that is served, whatever it changes: rows and cards know it from   *)
(* its answer, from the list loaded after it, or are doubted.                      *)
LEMMA ServeDecisionInv ==
  ASSUME FilesInv, NEW m \in 1 .. Letters, NEW q, q = letters[m], q.at = "sent",
         q.what \in {"judge", "remove", "mass"},
         \/ letters' = [letters EXCEPT ![m].at = "answered"] /\ q.what = "remove"
         \/ /\ letters' = [letters EXCEPT ![m].at = "answered", ![m].got = verdict']
            /\ q.what # "remove",
         verdict' \in [File -> Verdict], removed' \subseteq Place1,
         \A f \in File : verdict'[f] = verdict[f] \/ f \in q.ids \/ Seller \in q.ids,
         q.what = "remove" => UNCHANGED verdict, q.what # "remove" => UNCHANGED removed,
         \A f \in File : f \notin removed /\ f \in removed' => f \in q.ids \/ Seller \in q.ids,
         fileDoubt' \in SUBSET Tab, fileDoubt \subseteq fileDoubt',
         Seller \in q.ids => "restaurants" \in listDoubt' /\ "restaurants" \in fileDoubt',
         q.what = "mass" => fileDoubt' = Tab,
         listDoubt' \in SUBSET Tab, listDoubt \subseteq listDoubt',
         UNCHANGED <<filesPage, acts, lapses>>
  PROVE  FilesInv'
<1>1. /\ UNCHANGED <<deskTab, filter, list, fileLoading, fileCard, question, reason, marked, massBusy>>
      /\ LettersWell /\ FilesTypeOK /\ LetterWell(q) /\ q # NoLetter
  BY LetterIs, LetterFields DEF filesPage, FilesInv, FilesWell, NoLetter
<1> DEFINE r == letters'[m]
<1>2. /\ DOMAIN letters' = 1 .. Letters
      /\ \A n \in 1 .. Letters : n # m => letters'[n] = letters[n]
      /\ \/ r = [q EXCEPT !.at = "answered"] /\ q.what = "remove"
         \/ r = [q EXCEPT !.at = "answered", !.got = verdict'] /\ q.what # "remove"
  BY <1>1 DEF LettersWell
<1> HIDE DEF r
<1>3. /\ r \in LetterRecord /\ r.what = q.what /\ r.tab = q.tab /\ r.ids = q.ids /\ r.to = q.to
      /\ r.at = "answered" /\ (q.what # "remove" => r.got = verdict')
  <2>1. verdict' \in [File -> Listed1]
    BY DEF Listed1
  <2>2. CASE r = [q EXCEPT !.at = "answered"] /\ q.what = "remove"
    BY <1>1, <2>2 DEF LetterWell, LetterRecord
  <2>3. CASE r = [q EXCEPT !.at = "answered", !.got = verdict'] /\ q.what # "remove"
    BY <1>1, <2>1, <2>3 DEF LetterWell, LetterRecord
  <2> QED BY <1>2, <2>2, <2>3
<1>4. LettersWell' /\ r # NoLetter
  BY <1>1, <1>2, <1>3, LetterServed DEF r
<1>5. LettersWait'
  BY <1>1, <1>2, <1>3, <1>4, WaitsKept DEF r, FilesInv
<1>6. /\ \A f \in File : (RemovalOpen(f) => RemovalOpen(f)') /\ (VerdictOpen(f) => VerdictOpen(f)')
      /\ \A t \in Tab : TabReloads(t) => TabReloads(t)'
  BY <1>1, <1>2, <1>3, OpensServed DEF r
<1>7. /\ q.what = "remove" => \A f \in q.ids : RemovalOpen(f)'
      /\ q.what = "judge" => \A f \in q.ids : VerdictOpen(f)'
      /\ q.what = "mass" => TabReloads(q.tab)'
  BY <1>3, LetterFields DEF RemovalOpen, VerdictOpen, TabReloads, r
<1>8. \A f \in q.ids : q.tab = Kind(f)
  BY <1>1 DEF LetterWell
<1>9. ASSUME NEW f \in File, NEW is, Tells(f, is), "restaurants" # Kind(f) \/ Seller \notin q.ids,
             q.what = "mass" => f \notin q.ids
      PROVE  Tells(f, is)'
  <2>1. f \in q.ids \/ Seller \notin q.ids
    BY <1>9, KindIs DEF Tab
  <2>2. There(f)' \/ RemovalOpen(f)'
    BY <1>6, <1>7, <1>9, <2>1 DEF Tells, There
  <2>3. is = verdict'[f] \/ VerdictOpen(f)'
    BY <1>6, <1>7, <1>9, <2>1 DEF Tells
  <2> QED BY <2>2, <2>3 DEF Tells
<1>10. TabTells'
  <2> SUFFICES ASSUME NEW t \in Tab, t = deskTab, t \notin listDoubt', ~TabReloads(t)',
                      NEW f \in File, list[t][f] # "unlisted"
               PROVE  Tells(f, list[t][f])'
    BY <1>1 DEF TabTells
  <2>1. Tells(f, list[t][f])
    BY <1>6 DEF TabTells, FilesInv
  <2>2. Kind(f) = t
    BY <1>1 DEF FilesTypeOK
  <2>3. q.what = "mass" => f \notin q.ids
    BY <1>7, <1>8, <2>2
  <2>4. "restaurants" # Kind(f) \/ Seller \notin q.ids
    BY <2>2
  <2> DEFINE is == list[t][f]
  <2>5. Tells(f, is) /\ is' = is
    BY <1>1, <2>1
  <2> HIDE DEF is
  <2>6. PICK s : s = is
    OBVIOUS
  <2>7. Tells(f, s)'
    BY <1>9, <2>3, <2>4, <2>5, <2>6
  <2> QED BY <2>5, <2>6, <2>7 DEF Tells, is
<1>11. FileTells'
  <2> SUFFICES ASSUME NEW t \in Tab, t \notin fileDoubt', NEW f \in File,
                      fileCard[t] # NoFile, fileCard[t].id = f
               PROVE  Tells(f, fileCard[t].is)'
    BY <1>1 DEF FileTells
  <2>1. Tells(f, fileCard[t].is)
    BY DEF FileTells, FilesInv
  <2>2. Kind(f) = t
    BY <1>1 DEF FilesTypeOK
  <2>3. q.what # "mass" /\ ("restaurants" # Kind(f) \/ Seller \notin q.ids)
    BY <2>2
  <2> DEFINE is == fileCard[t].is
  <2>5. Tells(f, is) /\ is' = is
    BY <1>1, <2>1
  <2> HIDE DEF is
  <2>6. PICK s : s = is
    OBVIOUS
  <2>7. Tells(f, s)'
    BY <1>9, <2>3, <2>5, <2>6
  <2> QED BY <2>5, <2>6, <2>7 DEF Tells, is
<1>12. DialogsWell'
  BY <1>1 DEF DialogsWell, FilesInv, FilesWell
<1>13. FilesTypeOK'
  BY <1>1 DEF FilesTypeOK
<1> QED BY <1>4, <1>5, <1>10, <1>11, <1>12, <1>13 DEF FilesInv, FilesWell

LEMMA ServeLetterInv ==
  ASSUME FilesInv, NEW m \in 1 .. Letters, ServeLetter(m) PROVE FilesInv'
<1> DEFINE q == letters[m]
<1>1. /\ FilesTypeOK /\ LetterWell(q) /\ q.at = "sent" /\ UNCHANGED <<filesPage, acts, lapses>>
      /\ listDoubt' = IF q.what \notin {"list", "card"} /\ Seller \in q.ids
                      THEN listDoubt \union {"restaurants"} ELSE listDoubt
      /\ q = letters[m] /\ listDoubt \subseteq Tab /\ fileDoubt \subseteq Tab
      /\ verdict \in [File -> Verdict] /\ removed \subseteq Place1
  BY LetterIs DEF ServeLetter, FilesInv, FilesWell, FilesTypeOK
<1>2. \/ /\ q.what = "list"
         /\ letters' = [letters EXCEPT ![m].at = "answered", ![m].got = FilesListing(q.tab, q.filter)]
         /\ UNCHANGED <<verdict, removed, fileDoubt>>
      \/ /\ q.what # "list"
         /\ letters' = [letters EXCEPT ![m].at = "failed"]
         /\ UNCHANGED <<verdict, removed, fileDoubt>>
      \/ /\ q.what = "card"
         /\ letters' = [letters EXCEPT ![m].at = "answered", ![m].got = verdict]
         /\ UNCHANGED <<verdict, removed, fileDoubt>>
      \/ /\ q.what = "remove"
         /\ removed' = IF Seller \in q.ids THEN Place1 ELSE removed \union q.ids
         /\ letters' = [letters EXCEPT ![m].at = "answered"]
         /\ fileDoubt' = IF Seller \in q.ids THEN fileDoubt \union {"restaurants"} ELSE fileDoubt
         /\ UNCHANGED verdict
      \/ /\ q.what = "mass" \/ q.what = "judge"
         /\ verdict' = Judged(q.ids, q.to)
         /\ letters' = [letters EXCEPT ![m].at = "answered", ![m].got = verdict']
         /\ fileDoubt' = IF q.what = "mass" THEN Tab
                         ELSE IF Seller \in q.ids THEN fileDoubt \union {"restaurants"} ELSE fileDoubt
         /\ UNCHANGED removed
  BY DEF ServeLetter
<1>3. q.ids \subseteq File /\ q.tab \in Tab /\ q.to \in Verdict
  BY <1>1, LetterFields
<1>4. CASE /\ q.what = "list" /\ UNCHANGED <<verdict, removed, fileDoubt>>
           /\ letters' = [letters EXCEPT ![m].at = "answered", ![m].got = FilesListing(q.tab, q.filter)]
  <2> DEFINE t == q.tab
             by == q.filter
             g == FilesListing(t, by)
  <2>1. t \in Tab /\ letters' = [letters EXCEPT ![m].at = "answered", ![m].got = g]
    BY <1>3, <1>4
  <2>2. g \in [File -> Listed1] /\ \A f \in File : g[f] # "unlisted" => t = Kind(f)
    <3> HIDE DEF t, by
    <3> QED BY <1>1, <2>1, FilesListingIs
  <2> HIDE DEF g
  <2> QED BY <1>1, <1>4, <2>1, <2>2, ServeLooksInv
<1>5. CASE /\ q.what # "list" /\ UNCHANGED <<verdict, removed, fileDoubt>>
           /\ letters' = [letters EXCEPT ![m].at = "failed"]
  BY <1>1, <1>5, ServeLooksInv
<1>6. CASE /\ q.what = "card" /\ UNCHANGED <<verdict, removed, fileDoubt>>
           /\ letters' = [letters EXCEPT ![m].at = "answered", ![m].got = verdict]
  <2>1. PICK g : g = verdict
    OBVIOUS
  <2>2. g \in [File -> Verdict] /\ g \in [File -> Listed1]
    BY <1>1, <2>1 DEF Listed1
  <2> QED BY <1>1, <1>6, <2>1, <2>2, ServeLooksInv
<1>7. CASE /\ q.what = "remove"
           /\ removed' = IF Seller \in q.ids THEN Place1 ELSE removed \union q.ids
           /\ letters' = [letters EXCEPT ![m].at = "answered"]
           /\ fileDoubt' = IF Seller \in q.ids THEN fileDoubt \union {"restaurants"} ELSE fileDoubt
           /\ UNCHANGED verdict
  <2>1. removed' \subseteq Place1
    BY <1>1, <1>3, <1>7 DEF File
  <2>2. fileDoubt' \in SUBSET Tab /\ listDoubt' \in SUBSET Tab /\ fileDoubt \subseteq fileDoubt'
    BY <1>1, <1>7 DEF Tab
  <2> HIDE DEF q
  <2> QED BY <1>1, <1>7, <2>1, <2>2, ServeDecisionInv
<1>8. CASE /\ q.what = "mass" \/ q.what = "judge"
           /\ verdict' = Judged(q.ids, q.to)
           /\ letters' = [letters EXCEPT ![m].at = "answered", ![m].got = verdict']
           /\ fileDoubt' = IF q.what = "mass" THEN Tab
                           ELSE IF Seller \in q.ids THEN fileDoubt \union {"restaurants"} ELSE fileDoubt
           /\ UNCHANGED removed
  <2> DEFINE ids == q.ids
             to == q.to
  <2>1. to \in Verdict /\ verdict' = Judged(ids, to)
    BY <1>3, <1>8
  <2>2. /\ verdict' \in [File -> Verdict]
        /\ \A f \in File : verdict'[f] = verdict[f] \/ f \in ids \/ Seller \in ids
    <3> HIDE DEF ids, to
    <3> QED BY <1>1, <2>1, JudgedIs
  <2>3. fileDoubt' \in SUBSET Tab /\ listDoubt' \in SUBSET Tab /\ fileDoubt \subseteq fileDoubt'
    BY <1>1, <1>8 DEF Tab
  <2>4. Seller \in q.ids => "restaurants" \in listDoubt' /\ "restaurants" \in fileDoubt'
    BY <1>1, <1>8 DEF Tab
  <2>5. listDoubt \subseteq listDoubt'
    BY <1>1
  <2> HIDE DEF q
  <2> QED BY <1>1, <1>8, <2>2, <2>3, <2>4, <2>5, ServeDecisionInv
<1> QED BY <1>2, <1>4, <1>5, <1>6, <1>7, <1>8

LEMMA LoseLetterInv ==
  ASSUME FilesInv, NEW m \in 1 .. Letters, LoseLetter(m) PROVE FilesInv'
<1>1. /\ UNCHANGED <<verdict, removed, deskTab, filter, list, fileLoading, fileCard, question, reason,
                     marked, massBusy, acts>>
      /\ LettersWell /\ LetterWell(letters[m]) /\ letters[m] # NoLetter
      /\ lapses < MaxLapses /\ lapses' = lapses + 1
      /\ letters' = [letters EXCEPT ![m].at = "failed"]
      /\ listDoubt' = Tab /\ fileDoubt' = Tab
  BY LetterIs DEF LoseLetter, filesPage, FilesInv, FilesWell
<1> DEFINE q == letters[m]
           r == letters'[m]
<1>2. /\ r = [q EXCEPT !.at = "failed"] /\ DOMAIN letters' = 1 .. Letters
      /\ \A n \in 1 .. Letters : n # m => letters'[n] = letters[n]
      /\ LetterWell(q)
  BY <1>1 DEF LettersWell
<1> HIDE DEF q, r
<1>3. /\ r \in LetterRecord /\ r.what = q.what /\ r.tab = q.tab /\ r.ids = q.ids /\ r.to = q.to
      /\ r.at = "failed" /\ r.got = q.got
  BY <1>2 DEF LetterWell, LetterRecord
<1>4. r.what = "list" => \A f \in File : r.got[f] # "unlisted" => r.tab = Kind(f)
  BY <1>2, <1>3 DEF LetterWell
<1>5. LettersWell' /\ r # NoLetter
  <2>1. LettersWell /\ q # NoLetter /\ q = letters[m] /\ r = letters'[m]
    BY <1>1 DEF q, r
  <2>2. /\ r.at \in {"answered", "failed"}
        /\ r.what \in {"card", "judge"} /\ r.at = "answered" => r.got \in [File -> Verdict]
    BY <1>3
  <2>3. DOMAIN letters' = 1 .. Letters /\ \A n \in 1 .. Letters : n # m => letters'[n] = letters[n]
    BY <1>2
  <2>4. /\ r \in LetterRecord /\ r.what = q.what /\ r.tab = q.tab /\ r.ids = q.ids /\ r.to = q.to
    BY <1>3
  <2> QED BY ONLY <1>4, <2>1, <2>2, <2>3, <2>4, LetterServed
<1>6. LettersWait'
  BY <1>1, <1>2, <1>3, <1>5, WaitsKept DEF q, r, FilesInv
<1>7. TabTells' /\ FileTells'
  BY <1>1 DEF TabTells, FileTells
<1>8. DialogsWell'
  BY <1>1 DEF DialogsWell, FilesInv, FilesWell
<1>9. FilesTypeOK'
  BY <1>1, DialsOfFiles DEF FilesTypeOK, FilesInv, FilesWell
<1> QED BY <1>5, <1>6, <1>7, <1>8, <1>9 DEF FilesInv, FilesWell


-----------------------------------------------------------------------------
(* The answers. *)
LEMMA WaitsShrink ==
  ASSUME LettersWait, NEW m \in 1 .. Letters, letters[m] # NoLetter,
         \A n \in 1 .. Letters : n # m => letters'[n] = letters[n],
         letters'[m] = NoLetter \/ letters'[m].what = "list",
         OfQuestion(letters[m]) => question' = Unasked,
         ~OfQuestion(letters[m]) => UNCHANGED question,
         OfReason(letters[m]) => reason' = Unasked,
         ~OfReason(letters[m]) => UNCHANGED reason,
         massBusy' => massBusy /\ letters[m].what # "mass"
  PROVE  LettersWait'
<1>1. Unasked.sent = FALSE
  BY DEF Unasked
<1>2. Questioners' = Questioners \ {m}
  BY DEF Questioners, OfQuestion
<1>3. Rejecters' = Rejecters \ {m}
  BY DEF Rejecters, OfReason
<1>4. OneOf(Questioners, question.sent)'
  <2>1. OfQuestion(letters[m]) <=> m \in Questioners
    BY DEF Questioners
  <2>2. CASE OfQuestion(letters[m])
    <3>1. Questioners' = {}
      BY <1>2, <2>1, <2>2 DEF LettersWait, OneOf
    <3> QED BY <1>1, <2>2, <3>1 DEF OneOf
  <2>3. CASE ~OfQuestion(letters[m])
    <3>1. Questioners' = Questioners /\ question' = question
      BY <1>2, <2>1, <2>3
    <3> QED BY <3>1 DEF OneOf, LettersWait
  <2> QED BY <2>2, <2>3
<1>5. OneOf(Rejecters, reason.sent)'
  <2>1. OfReason(letters[m]) <=> m \in Rejecters
    BY DEF Rejecters
  <2>2. CASE OfReason(letters[m])
    <3>1. Rejecters' = {}
      BY <1>3, <2>1, <2>2 DEF LettersWait, OneOf
    <3> QED BY <1>1, <2>2, <3>1 DEF OneOf
  <2>3. CASE ~OfReason(letters[m])
    <3>1. Rejecters' = Rejecters /\ reason' = reason
      BY <1>3, <2>1, <2>3
    <3> QED BY <3>1 DEF OneOf, LettersWait
  <2> QED BY <2>2, <2>3
<1>6. massBusy' => \E n \in 1 .. Letters : letters'[n] # NoLetter /\ letters'[n].what = "mass"
  <2> SUFFICES ASSUME massBusy'
               PROVE  \E n \in 1 .. Letters : letters'[n] # NoLetter /\ letters'[n].what = "mass"
    OBVIOUS
  <2>1. PICK n \in 1 .. Letters : letters[n] # NoLetter /\ letters[n].what = "mass"
    BY DEF LettersWait
  <2>2. n # m
    BY <2>1
  <2> QED BY <2>1, <2>2
<1> QED BY <1>4, <1>5, <1>6 DEF LettersWait

LEMMA LetterTaken ==
  ASSUME FilesInv, NEW m \in 1 .. Letters, letters[m].at \in {"answered", "failed"},
         letters' = [letters EXCEPT ![m] = NoLetter]
  PROVE  /\ LettersWell' /\ LetterWell(letters[m]) /\ letters[m] # NoLetter
         /\ letters'[m] = NoLetter /\ \A n \in 1 .. Letters : n # m => letters'[n] = letters[n]
<1>1. LettersWell
  BY DEF FilesInv, FilesWell
<1>2. letters'[m] = NoLetter /\ \A n \in 1 .. Letters : n # m => letters'[n] = letters[n]
  BY <1>1 DEF LettersWell
<1>3. LettersWell'
  BY <1>1, <1>2 DEF LettersWell
<1>4. LetterWell(letters[m]) /\ letters[m] # NoLetter
  BY <1>1, LetterIs
<1> QED BY <1>2, <1>3, <1>4

LEMMA OpensTaken ==
  ASSUME NEW m \in 1 .. Letters, \A n \in 1 .. Letters : n # m => letters'[n] = letters[n]
  PROVE  /\ \A f \in File :
              /\ RemovalOpen(f) /\ ~(letters[m].at = "answered" /\ letters[m].what = "remove"
                                     /\ f \in letters[m].ids) => RemovalOpen(f)'
              /\ VerdictOpen(f) /\ ~(letters[m].at = "answered" /\ letters[m].what = "judge"
                                     /\ f \in letters[m].ids) => VerdictOpen(f)'
         /\ \A t \in Tab :
              TabReloads(t) /\ (\/ letters[m].at = "failed" \/ letters[m].tab # t
                                \/ letters[m].what \notin {"list", "mass"}) => TabReloads(t)'
<1>1. \A f \in File :
        RemovalOpen(f) /\ ~(letters[m].at = "answered" /\ letters[m].what = "remove"
                            /\ f \in letters[m].ids) => RemovalOpen(f)'
  BY DEF RemovalOpen
<1>2. \A f \in File :
        VerdictOpen(f) /\ ~(letters[m].at = "answered" /\ letters[m].what = "judge"
                            /\ f \in letters[m].ids) => VerdictOpen(f)'
  BY DEF VerdictOpen
<1>3. \A t \in Tab :
        TabReloads(t) /\ (\/ letters[m].at = "failed" \/ letters[m].tab # t
                          \/ letters[m].what \notin {"list", "mass"}) => TabReloads(t)'
  BY DEF TabReloads
<1> QED BY <1>1, <1>2, <1>3

LEMMA ReceiveFilesInv ==
  ASSUME FilesInv, NEW m \in 1 .. Letters, letters[m].at \in {"answered", "failed"},
         ReceiveFiles(m), UNCHANGED <<verdict, removed, acts, lapses>>
  PROVE  FilesInv'
<1> DEFINE q == letters[m]
<1>1. /\ q.what = "list" /\ q.at \in {"answered", "failed"}
      /\ fileLoading' = [fileLoading EXCEPT ![q.tab] = FALSE]
      /\ list' = IF q.at = "answered" THEN [list EXCEPT ![q.tab] = q.got] ELSE list
      /\ listDoubt' = IF q.at = "failed" THEN listDoubt
                      ELSE IF q.got = FilesListing(q.tab, filter[q.tab]) THEN listDoubt \ {q.tab}
                      ELSE listDoubt \union {q.tab}
      /\ letters' = [letters EXCEPT ![m] = NoLetter]
      /\ UNCHANGED <<deskTab, filter, fileCard, question, reason, marked, massBusy, fileDoubt>>
      /\ FilesTypeOK /\ DialogsWell
  BY DEF ReceiveFiles, FilesInv, FilesWell
<1>2. /\ LettersWell' /\ LetterWell(q) /\ letters[m] # NoLetter
      /\ letters'[m] = NoLetter /\ \A n \in 1 .. Letters : n # m => letters'[n] = letters[n]
  BY <1>1, LetterTaken
<1>3. LettersWait'
  <2>1. ~OfQuestion(letters[m]) /\ ~OfReason(letters[m])
    BY <1>1, ListIsNoDecision
  <2> QED BY <1>1, <1>2, <2>1, WaitsShrink DEF FilesInv
<1>4. /\ \A f \in File : (RemovalOpen(f) => RemovalOpen(f)') /\ (VerdictOpen(f) => VerdictOpen(f)')
      /\ \A t \in Tab : TabReloads(t) /\ (q.at = "failed" \/ q.tab # t) => TabReloads(t)'
  BY <1>1, <1>2, OpensTaken
<1>5. q.tab \in Tab /\ q.got \in [File -> Listed1]
  BY <1>2, LetterFields
<1>6. FileTells'
  BY <1>1, <1>4, FileTellsOn DEF FilesInv
<1>7. list \in [Tab -> [File -> Listed1]]
  BY <1>1 DEF FilesTypeOK, Listed1
<1>8. TabTells'
  <2>1. CASE q.at = "failed"
    BY <1>1, <1>4, <2>1, TabTellsOn DEF FilesInv
  <2>2. CASE q.at = "answered"
    <3> SUFFICES ASSUME NEW t \in Tab, t = deskTab, t \notin listDoubt', ~TabReloads(t)',
                        NEW f \in File, list'[t][f] # "unlisted"
                 PROVE  Tells(f, list[t][f])'
      BY <1>1 DEF TabTells
    <3>1. CASE t = q.tab
      <4> DEFINE by == filter[t]
      <4>1. list'[t] = FilesListing(t, by)
        BY <1>1, <1>7, <2>2, <3>1
      <4> HIDE DEF by
      <4>2. There(f) /\ FilesListing(t, by)[f] = verdict[f]
        BY <1>1, <4>1, FilesListingIs
      <4> QED BY <4>1, <4>2 DEF Tells, There
    <3>2. CASE t # q.tab
      <4>1. list'[t] = list[t] /\ t \notin listDoubt /\ ~TabReloads(t)
        BY <1>1, <1>4, <1>7, <2>2, <3>2
      <4>2. Tells(f, list[t][f])
        BY <4>1 DEF TabTells, FilesInv
      <4> QED BY <1>4, <4>1, <4>2 DEF Tells, There
    <3> QED BY <3>1, <3>2
  <2> QED BY <1>1, <2>1, <2>2
<1>9. DialogsWell'
  BY <1>1 DEF DialogsWell
<1>10. FilesTypeOK'
  <2>1. list' \in [Tab -> [File -> Verdict \union {"unlisted"}]]
    BY <1>1, <1>5, <1>7 DEF Listed1
  <2>2. \A t \in Tab, f \in File : list'[t][f] # "unlisted" => Kind(f) = t
    <3>1. \A f \in File : q.got[f] # "unlisted" => q.tab = Kind(f)
      BY <1>1, <1>2 DEF LetterWell
    <3>2. \A t \in Tab : list'[t] = list[t] \/ (t = q.tab /\ list'[t] = q.got)
      BY <1>1, <1>7
    <3> QED BY <1>1, <3>1, <3>2 DEF FilesTypeOK
  <2>3. fileLoading' \in [Tab -> BOOLEAN] /\ listDoubt' \subseteq Tab
    BY <1>1, <1>5 DEF FilesTypeOK
  <2> QED BY <1>1, <2>1, <2>2, <2>3 DEF FilesTypeOK
<1> QED BY <1>2, <1>3, <1>6, <1>8, <1>9, <1>10 DEF FilesInv, FilesWell

LEMMA ReceiveFileInv ==
  ASSUME FilesInv, NEW m \in 1 .. Letters, letters[m].at \in {"answered", "failed"},
         ReceiveFile(m), UNCHANGED <<verdict, removed, acts, lapses>>
  PROVE  FilesInv'
<1> DEFINE q == letters[m]
<1>1. /\ q.what \in {"card", "judge"} /\ q.at \in {"answered", "failed"}
      /\ letters' = [letters EXCEPT ![m] = NoLetter]
      /\ UNCHANGED <<deskTab, filter, fileLoading, marked, massBusy>>
      /\ question' = IF OfQuestion(q) THEN Unasked ELSE question
      /\ reason' = IF OfReason(q) THEN Unasked ELSE reason
      /\ FilesTypeOK /\ DialogsWell
  BY DEF ReceiveFile, FilesInv, FilesWell
<1>2. /\ LettersWell' /\ LetterWell(q) /\ letters[m] # NoLetter
      /\ letters'[m] = NoLetter /\ \A n \in 1 .. Letters : n # m => letters'[n] = letters[n]
  BY <1>1, LetterTaken
<1>3. PICK k \in File : q.ids = {k} /\ q.tab = Kind(k)
  BY <1>1, <1>2 DEF LetterWell
<1>4. (CHOOSE x \in q.ids : TRUE) = k
  BY <1>3
<1>5. IF q.at = "answered"
      THEN /\ fileCard' = [fileCard EXCEPT ![q.tab] = [id |-> k, is |-> q.got[k]]]
           /\ list' = Rows(q, k)
           /\ fileDoubt' = IF There(k) /\ q.got[k] = verdict[k] THEN fileDoubt \ {q.tab}
                           ELSE fileDoubt \union {q.tab}
           /\ listDoubt' = IF q.what = "judge" /\ q.got[k] # verdict[k]
                           THEN listDoubt \union {q.tab} ELSE listDoubt
      ELSE UNCHANGED <<fileCard, list, listDoubt, fileDoubt>>
  BY <1>4 DEF ReceiveFile, fileDoubts
<1>6. LettersWait'
  BY <1>1, <1>2, WaitsShrink DEF FilesInv
<1>7. /\ \A f \in File :
           /\ RemovalOpen(f) => RemovalOpen(f)'
           /\ VerdictOpen(f) /\ (f # k \/ q.what = "card" \/ q.at = "failed") => VerdictOpen(f)'
      /\ \A t \in Tab : TabReloads(t) => TabReloads(t)'
  BY <1>1, <1>2, <1>3, OpensTaken
<1>8. /\ q.tab \in Tab /\ q.got \in [File -> Listed1] /\ list \in [Tab -> [File -> Listed1]]
      /\ fileCard \in [Tab -> [id : File, is : Verdict] \union {NoFile}]
      /\ (q.at = "answered" => q.got[k] \in Verdict)
  BY <1>1, <1>2, LetterFields DEF FilesTypeOK, Listed1, DialogsWell, LetterWell
<1>9. \A t \in Tab, f \in File :
        list'[t][f] = IF q.at = "answered" /\ q.what = "judge" /\ t = q.tab /\ f = k /\ list[t][k] # "unlisted"
                      THEN q.got[k] ELSE list[t][f]
  BY <1>5, <1>8 DEF Rows
<1>10. TabTells'
  <2> SUFFICES ASSUME NEW t \in Tab, t = deskTab, t \notin listDoubt', ~TabReloads(t)',
                      NEW f \in File, list'[t][f] # "unlisted"
               PROVE  Tells(f, list[t][f])'
    BY <1>1 DEF TabTells
  <2>1. t \notin listDoubt /\ ~TabReloads(t)
    BY <1>1, <1>5, <1>7
  <2>2. list[t][f] # "unlisted"
    BY <1>9
  <2>3. Tells(f, list[t][f]) /\ Kind(f) = t
    BY <1>1, <2>1, <2>2 DEF TabTells, FilesInv, FilesTypeOK
  <2>4. CASE q.at = "answered" /\ q.what = "judge" /\ f = k
    <3>1. t = q.tab /\ list'[t][f] = q.got[k] /\ q.got[k] = verdict[k]
      BY <1>3, <1>5, <1>9, <2>2, <2>3, <2>4
    <3> QED BY <1>7, <2>3, <2>4, <3>1 DEF Tells, There
  <2>5. CASE ~(q.at = "answered" /\ q.what = "judge" /\ f = k)
    <3>1. list'[t][f] = list[t][f]
      BY <1>9, <2>5
    <3>2. f # k \/ q.what = "card" \/ q.at = "failed"
      BY <1>1, <2>5
    <3> QED BY <1>7, <2>3, <3>1, <3>2 DEF Tells, There
  <2> QED BY <2>4, <2>5
<1>11. FileTells'
  <2>1. CASE q.at = "failed"
    BY <1>5, <1>7, <2>1, FileTellsOn DEF FilesInv
  <2>2. CASE q.at = "answered"
    <3> SUFFICES ASSUME NEW t \in Tab, t \notin fileDoubt', NEW f \in File,
                        fileCard'[t] # NoFile, fileCard'[t].id = f
                 PROVE  Tells(f, fileCard[t].is)'
      BY DEF FileTells
    <3>1. CASE t = q.tab
      <4>1. There(k) /\ q.got[k] = verdict[k] /\ f = k /\ fileCard'[t].is = q.got[k]
        BY <1>5, <1>8, <2>2, <3>1
      <4> QED BY <4>1 DEF Tells, There
    <3>2. CASE t # q.tab
      <4>1. fileCard'[t] = fileCard[t] /\ t \notin fileDoubt
        BY <1>5, <1>8, <2>2, <3>2
      <4>2. Tells(f, fileCard[t].is) /\ Kind(f) = t
        BY <1>1, <4>1 DEF FileTells, FilesInv, FilesTypeOK
      <4>3. f # k
        BY <1>3, <3>2, <4>2
      <4> QED BY <1>7, <4>1, <4>2, <4>3 DEF Tells, There
    <3> QED BY <3>1, <3>2
  <2> QED BY <1>1, <2>1, <2>2
<1>12. fileCard' \in [Tab -> [id : File, is : Verdict] \union {NoFile}]
  <2>1. CASE q.at = "failed"
    BY <1>5, <1>8, <2>1
  <2>2. CASE q.at = "answered"
    <3> DEFINE c == [id |-> k, is |-> q.got[k]]
    <3>1. c \in [id : File, is : Verdict] /\ fileCard' = [fileCard EXCEPT ![q.tab] = c]
      BY <1>5, <1>8, <2>2
    <3> HIDE DEF c
    <3> QED BY <1>8, <3>1
  <2> QED BY <1>1, <2>1, <2>2
<1>13. DialogsWell'
  BY <1>1, <1>12 DEF DialogsWell
<1>14. FilesTypeOK'
  <2>1. list' \in [Tab -> [File -> Verdict \union {"unlisted"}]]
    <3>1. CASE q.at = "answered"
      <4> DEFINE t == q.tab
                 v == q.got[k]
                 row == [list[t] EXCEPT ![k] = v]
      <4>1. t \in Tab /\ v \in Listed1 /\ row \in [File -> Listed1]
        BY <1>8
      <4>2. list' = list \/ list' = [list EXCEPT ![t] = row]
        BY <1>5, <3>1 DEF Rows
      <4> HIDE DEF t, v, row
      <4> QED BY <1>8, <4>1, <4>2 DEF Listed1
    <3>2. CASE q.at = "failed"
      BY <1>5, <1>8, <3>2 DEF Listed1
    <3> QED BY <1>1, <3>1, <3>2
  <2>2. \A t \in Tab, f \in File : list'[t][f] # "unlisted" => Kind(f) = t
    BY <1>1, <1>9 DEF FilesTypeOK
  <2>3. \A t \in Tab : fileCard'[t] # NoFile => Kind(fileCard'[t].id) = t /\ fileCard'[t].is \in Verdict
    <3> SUFFICES ASSUME NEW t \in Tab, fileCard'[t] # NoFile
                 PROVE  Kind(fileCard'[t].id) = t /\ fileCard'[t].is \in Verdict
      OBVIOUS
    <3>1. fileCard'[t] = fileCard[t] \/ (t = q.tab /\ fileCard'[t] = [id |-> k, is |-> q.got[k]]
                                         /\ q.at = "answered")
      BY <1>1, <1>5, <1>8
    <3> QED BY <1>1, <1>3, <1>8, <3>1 DEF FilesTypeOK
  <2>4. listDoubt' \subseteq Tab /\ fileDoubt' \subseteq Tab
    BY <1>1, <1>5, <1>8 DEF FilesTypeOK
  <2> QED BY <1>1, <2>1, <2>2, <2>3, <2>4 DEF FilesTypeOK
<1> QED BY <1>2, <1>6, <1>10, <1>11, <1>13, <1>14 DEF FilesInv, FilesWell

LEMMA ReceiveFileRemovedInv ==
  ASSUME FilesInv, NEW m \in 1 .. Letters, letters[m].at \in {"answered", "failed"},
         ReceiveFileRemoved(m), UNCHANGED <<verdict, removed, acts, lapses>>
  PROVE  FilesInv'
<1> DEFINE q == letters[m]
<1>1. /\ q.what = "remove" /\ q.at \in {"answered", "failed"}
      /\ letters' = [letters EXCEPT ![m] = NoLetter] /\ question' = Unasked
      /\ UNCHANGED <<deskTab, filter, fileLoading, reason, marked, massBusy, listDoubt, fileDoubt>>
      /\ IF q.at = "answered" THEN list' = Without(q) /\ fileCard' = Shut(q)
                              ELSE UNCHANGED <<list, fileCard>>
      /\ FilesTypeOK /\ DialogsWell
  BY DEF ReceiveFileRemoved, fileDoubts, FilesInv, FilesWell
<1>2. /\ LettersWell' /\ LetterWell(q) /\ letters[m] # NoLetter
      /\ letters'[m] = NoLetter /\ \A n \in 1 .. Letters : n # m => letters'[n] = letters[n]
  BY <1>1, LetterTaken
<1>3. PICK k \in File : q.ids = {k} /\ q.tab = Kind(k)
  BY <1>1, <1>2 DEF LetterWell
<1>4. LettersWait'
  <2>1. OfQuestion(letters[m]) /\ ~OfReason(letters[m])
    BY <1>1 DEF OfQuestion, OfReason
  <2> QED BY <1>1, <1>2, <2>1, WaitsShrink DEF FilesInv
<1>5. /\ \A f \in File :
           /\ RemovalOpen(f) /\ (f # k \/ q.at = "failed") => RemovalOpen(f)'
           /\ VerdictOpen(f) => VerdictOpen(f)'
      /\ \A t \in Tab : TabReloads(t) => TabReloads(t)'
  BY <1>1, <1>2, <1>3, OpensTaken
<1>6. /\ q.tab \in Tab /\ list \in [Tab -> [File -> Listed1]]
      /\ fileCard \in [Tab -> [id : File, is : Verdict] \union {NoFile}]
  BY <1>1, <1>2, LetterFields DEF FilesTypeOK, Listed1, DialogsWell
<1>7. \A t \in Tab, f \in File :
        list'[t][f] = IF q.at = "answered" /\ t = q.tab /\ f = k THEN "unlisted" ELSE list[t][f]
  BY <1>1, <1>3, <1>6 DEF Without
<1>8. \A t \in Tab :
        fileCard'[t] = IF q.at = "answered" /\ t = q.tab THEN NoFile ELSE fileCard[t]
  BY <1>1, <1>6 DEF Shut
<1>9. TabTells'
  <2>1. \A t \in Tab, f \in File :
          t = deskTab /\ list'[t][f] # "unlisted" =>
            list'[t][f] = list[t][f] /\ (RemovalOpen(f) => RemovalOpen(f)') /\ (VerdictOpen(f) => VerdictOpen(f)')
    <3> SUFFICES ASSUME NEW t \in Tab, NEW f \in File, list'[t][f] # "unlisted"
                 PROVE  list'[t][f] = list[t][f] /\ (f # k \/ q.at = "failed")
      BY <1>5
    <3>1. list'[t][f] = list[t][f]
      BY <1>7
    <3>2. Kind(f) = t
      BY <1>1, <3>1 DEF FilesTypeOK
    <3> QED BY <1>1, <1>3, <1>7, <3>1, <3>2
  <2> QED BY <1>1, <1>5, <2>1, TabTellsOn DEF FilesInv
<1>10. FileTells'
  <2>1. \A t \in Tab, f \in File :
           t \notin fileDoubt' /\ fileCard'[t] # NoFile /\ fileCard'[t].id = f =>
             /\ t \notin fileDoubt /\ fileCard'[t] = fileCard[t]
             /\ RemovalOpen(f) => RemovalOpen(f)'
             /\ VerdictOpen(f) => VerdictOpen(f)'
    <3> SUFFICES ASSUME NEW t \in Tab, NEW f \in File, fileCard'[t] # NoFile, fileCard'[t].id = f
                 PROVE  fileCard'[t] = fileCard[t] /\ (f # k \/ q.at = "failed")
      BY <1>1, <1>5
    <3>1. fileCard'[t] = fileCard[t]
      BY <1>8
    <3>2. Kind(f) = t
      BY <1>1, <3>1 DEF FilesTypeOK
    <3> QED BY <1>1, <1>3, <1>8, <3>1, <3>2
  <2> QED BY <2>1, FileTellsOn DEF FilesInv
<1>11. DialogsWell'
  <2>1. fileCard' \in [Tab -> [id : File, is : Verdict] \union {NoFile}]
    BY <1>1, <1>6 DEF Shut
  <2> QED BY <1>1, <2>1 DEF DialogsWell
<1>12. FilesTypeOK'
  <2>1. list' \in [Tab -> [File -> Verdict \union {"unlisted"}]]
    BY <1>1, <1>6 DEF Without, Listed1
  <2>2. \A t \in Tab, f \in File : list'[t][f] # "unlisted" => Kind(f) = t
    BY <1>1, <1>7 DEF FilesTypeOK
  <2>3. \A t \in Tab : fileCard'[t] # NoFile => Kind(fileCard'[t].id) = t /\ fileCard'[t].is \in Verdict
    BY <1>1, <1>8 DEF FilesTypeOK
  <2> QED BY <1>1, <2>1, <2>2, <2>3 DEF FilesTypeOK
<1> QED BY <1>2, <1>4, <1>9, <1>10, <1>11, <1>12 DEF FilesInv, FilesWell

LEMMA ReceiveMassInv ==
  ASSUME FilesInv, NEW m \in 1 .. Letters, letters[m].at \in {"answered", "failed"},
         ReceiveMass(m), UNCHANGED <<verdict, removed, acts, lapses>>
  PROVE  FilesInv'
<1> DEFINE q == letters[m]
<1>1. /\ q.what = "mass" /\ q.at \in {"answered", "failed"} /\ massBusy' = FALSE
      /\ UNCHANGED <<deskTab, filter, list, fileCard, question, listDoubt, fileDoubt>>
      /\ reason' = IF OfReason(q) THEN Unasked ELSE reason
      /\ FilesTypeOK /\ DialogsWell /\ LettersWell
  BY DEF ReceiveMass, fileDoubts, FilesInv, FilesWell
<1>2. LetterWell(q) /\ q # NoLetter
  BY <1>1, LetterIs
<1>3. q.tab \in Tab
  BY <1>2, LetterFields
<1>4. /\ LettersWell' /\ (letters'[m] = NoLetter \/ letters'[m].what = "list")
      /\ \A n \in 1 .. Letters : n # m => letters'[n] = letters[n]
      /\ q.at = "answered" /\ q.tab = deskTab =>
           letters'[m].at = "sent" /\ letters'[m].what = "list" /\ letters'[m].tab = deskTab
      /\ marked' \in [Tab -> SUBSET File] /\ fileLoading' \in [Tab -> BOOLEAN]
      /\ \A t \in Tab : marked'[t] = marked[t] \/ marked'[t] = {}
  <2>1. CASE q.at = "answered" /\ q.tab = deskTab
    <3> DEFINE t == q.tab
               by == filter[t]
               r == ListLetter(t, by)
    <3>1. t \in Tab /\ by \in {"all", "PENDING"}
      BY <1>1, <1>3 DEF FilesTypeOK
    <3>2. /\ letters' = [letters EXCEPT ![m] = r] /\ marked' = [marked EXCEPT ![t] = {}]
          /\ fileLoading' = [fileLoading EXCEPT ![t] = TRUE] /\ t = deskTab
      BY <2>1 DEF ReceiveMass, Relist
    <3> HIDE DEF t, by
    <3>3. LetterWell(r) /\ r.at = "sent" /\ r.what = "list" /\ r.tab = t
      BY <3>1, ListLetterMade
    <3> HIDE DEF r
    <3>4. \A n \in 1 .. Letters : letters'[n] = IF n = m THEN r ELSE letters[n]
      BY <1>1, <3>2 DEF LettersWell
    <3>5. LettersWell'
      BY <1>1, <3>2, <3>3, <3>4 DEF LettersWell
    <3>6. /\ marked' \in [Tab -> SUBSET File] /\ fileLoading' \in [Tab -> BOOLEAN]
          /\ \A k \in Tab : marked'[k] = marked[k] \/ marked'[k] = {}
      BY <1>1, <3>1, <3>2 DEF FilesTypeOK, DialogsWell
    <3> QED BY <3>2, <3>3, <3>4, <3>5, <3>6
  <2>2. CASE ~(q.at = "answered" /\ q.tab = deskTab)
    <3>1. /\ letters' = [letters EXCEPT ![m] = NoLetter] /\ UNCHANGED fileLoading
          /\ marked' = marked \/ marked' = [marked EXCEPT ![q.tab] = {}]
      BY <1>1, <2>2 DEF ReceiveMass, Relist
    <3>2. /\ LettersWell' /\ letters'[m] = NoLetter
          /\ \A n \in 1 .. Letters : n # m => letters'[n] = letters[n]
      BY <3>1, LetterTaken
    <3>3. /\ marked' \in [Tab -> SUBSET File] /\ fileLoading' \in [Tab -> BOOLEAN]
          /\ \A t \in Tab : marked'[t] = marked[t] \/ marked'[t] = {}
      BY <1>1, <1>3, <3>1 DEF FilesTypeOK, DialogsWell
    <3> QED BY <2>2, <3>2, <3>3
  <2> QED BY <2>1, <2>2
<1>5. LettersWait'
  <2>1. ~OfQuestion(letters[m])
    BY <1>1 DEF OfQuestion
  <2> QED BY <1>1, <1>2, <1>4, <2>1, WaitsShrink DEF FilesInv
<1>6. /\ \A f \in File : (RemovalOpen(f) => RemovalOpen(f)') /\ (VerdictOpen(f) => VerdictOpen(f)')
      /\ \A t \in Tab : TabReloads(t) /\ (q.at = "failed" \/ q.tab # t) => TabReloads(t)'
  BY <1>1, <1>4, OpensTaken
<1>7. q.at = "answered" => \A t \in Tab : t = deskTab /\ q.tab = t => TabReloads(t)'
  BY <1>4 DEF TabReloads
<1>8. TabTells'
  <2>1. \A t \in Tab : t = deskTab' /\ t \notin listDoubt' =>
          \/ TabReloads(t)'
          \/ t = deskTab /\ t \notin listDoubt /\ ~TabReloads(t)
    BY <1>1, <1>6, <1>7
  <2> QED BY <1>1, <1>6, <2>1, TabTellsOn DEF FilesInv
<1>9. FileTells'
  BY <1>1, <1>6, FileTellsOn DEF FilesInv
<1>10. DialogsWell'
  BY <1>1, <1>4 DEF DialogsWell
<1>11. FilesTypeOK'
  <2>1. \A t \in Tab : marked'[t] \subseteq {f \in File : Kind(f) = t}
    BY <1>1, <1>4 DEF FilesTypeOK
  <2> QED BY <1>1, <1>4, <2>1 DEF FilesTypeOK
<1> QED BY <1>4, <1>5, <1>8, <1>9, <1>10, <1>11 DEF FilesInv, FilesWell

-----------------------------------------------------------------------------
LEMMA FilesStart ==
  ASSUME FilesInit PROVE FilesInv
<1> DEFINE q == ListLetter("restaurants", "all")
<1>1. LetterWell(q) /\ q.at = "sent" /\ q.what = "list" /\ q.tab = "restaurants"
  BY ListLetterMade DEF Tab
<1>2. letters = [m \in 1 .. Letters |-> IF m = 1 THEN q ELSE NoLetter]
  BY DEF FilesInit
<1> HIDE DEF q
<1>3. LettersWell
  BY <1>1, <1>2 DEF LettersWell
<1>4. question = Unasked /\ reason = Unasked /\ Unasked.sent = FALSE /\ massBusy = FALSE
  BY DEF FilesInit, Unasked
<1>5. \A m \in 1 .. Letters : letters[m] # NoLetter => letters[m] = q
  BY <1>2
<1>6. Questioners = {} /\ Rejecters = {}
  BY <1>1, <1>5, ListIsNoDecision DEF Questioners, Rejecters
<1>7. LettersWait
  BY <1>4, <1>6 DEF LettersWait, OneOf
<1>8. TabTells
  <2>1. \A t \in Tab, f \in File : list[t][f] = "unlisted"
    BY DEF FilesInit
  <2> QED BY <2>1 DEF TabTells
<1>9. \A t \in Tab : fileCard[t] = NoFile
  BY DEF FilesInit
<1>10. FileTells
  BY <1>9 DEF FileTells
<1>11. DialogsWell
  BY <1>4 DEF FilesInit, DialogsWell
<1>12. FilesTypeOK
  <2>1. /\ verdict \in [File -> Verdict] /\ removed \subseteq Place1 /\ deskTab \in Tab
        /\ filter \in [Tab -> {"all", "PENDING"}]
    BY DEF FilesInit, Verdict, Tab
  <2>2. /\ list \in [Tab -> [File -> Verdict \union {"unlisted"}]]
        /\ \A t \in Tab, f \in File : list[t][f] = "unlisted"
    BY DEF FilesInit
  <2>3. fileLoading \in [Tab -> BOOLEAN] /\ \A t \in Tab : marked[t] = {}
    BY DEF FilesInit
  <2>4. 0 \in 0 .. MaxActs /\ 0 \in 0 .. MaxLapses
    BY DialsOfFiles
  <2> QED BY <1>4, <1>9, <2>1, <2>2, <2>3, <2>4 DEF FilesInit, FilesTypeOK
<1> QED BY <1>3, <1>7, <1>8, <1>10, <1>11, <1>12 DEF FilesInv, FilesWell

LEMMA FilesStep ==
  ASSUME FilesInv, [FilesNext]_filesVars PROVE FilesInv'
<1>1. ASSUME NEW t \in Tab, ShowTab(t) \/ ApproveMarked(t) PROVE FilesInv'
  BY <1>1, ShowTabInv, ApproveMarkedInv
<1>2. ASSUME NEW f \in File, OpenFile(f) \/ CloseFile(f) \/ ApprovePlace(f) PROVE FilesInv'
  BY <1>2, OpenFileInv, CloseFileInv, ApprovePlaceInv
<1>3. CASE \/ MarkAll
           \/ \E t \in Tab : RejectMarked(t) \/ Unmark(t)
           \/ \E f \in File : ApproveSeller(f) \/ RemoveFile(f) \/ RejectFile(f) \/ Mark(f)
  BY <1>3, ClicksOfFilesInv
<1>4. CASE FilterBy \/ AnswerQuestion \/ GiveReason
  BY <1>4, FilterByInv, AnswerQuestionInv, GiveReasonInv
<1>5. CASE Abandon \/ UNCHANGED filesVars
  BY <1>5, FilesRestInv
<1>6. ASSUME NEW m \in 1 .. Letters, ServeLetter(m) \/ LoseLetter(m) PROVE FilesInv'
  BY <1>6, ServeLetterInv, LoseLetterInv
<1>7. ASSUME NEW m \in 1 .. Letters, ReceiveLetter(m) PROVE FilesInv'
  BY <1>7, ReceiveFilesInv, ReceiveFileInv, ReceiveFileRemovedInv, ReceiveMassInv DEF ReceiveLetter
<1> QED BY <1>1, <1>2, <1>3, <1>4, <1>5, <1>6, <1>7 DEF FilesNext

LEMMA FilesHonest ==
  ASSUME FilesInv PROVE FilesTabsSound
<1>1. FilesQuiet => /\ \A f : ~RemovalOpen(f) /\ ~VerdictOpen(f)
                    /\ \A t : ~TabReloads(t)
  BY DEF FilesQuiet, RemovalOpen, VerdictOpen, TabReloads, NoLetter
<1>2. RowsTrue
  <2> SUFFICES ASSUME FilesQuiet, deskTab \notin listDoubt, NEW f \in File, list[deskTab][f] # "unlisted"
               PROVE  There(f) /\ list[deskTab][f] = verdict[f]
    BY DEF RowsTrue
  <2>1. PICK t \in Tab : t = deskTab
    BY DEF FilesInv, FilesWell, FilesTypeOK
  <2>2. Tells(f, list[t][f])
    BY <1>1, <2>1 DEF FilesInv, TabTells
  <2> QED BY <1>1, <2>1, <2>2 DEF Tells
<1>3. CardsTrue
  <2> SUFFICES ASSUME FilesQuiet, NEW t \in Tab \ fileDoubt, fileCard[t] # NoFile
               PROVE  There(fileCard[t].id) /\ fileCard[t].is = verdict[fileCard[t].id]
    BY DEF CardsTrue
  <2>1. PICK f \in File : f = fileCard[t].id
    BY FileCardIs DEF FilesInv
  <2>2. Tells(f, fileCard[t].is)
    BY <2>1 DEF FilesInv, FileTells
  <2> QED BY <1>1, <2>1, <2>2 DEF Tells
<1>4. VerdictsWait
  <2>1. ASSUME NEW S, NEW flag, \A m, n \in S : m = n, flag <=> \E m \in S : TRUE
        PROVE  Cardinality(S) = IF flag THEN 1 ELSE 0
    <3>1. CASE S = {}
      BY <2>1, <3>1, FS_EmptySet
    <3>2. CASE S # {}
      <4>1. PICK m : m \in S
        BY <3>2
      <4>2. S = {m}
        BY <2>1, <4>1
      <4> QED BY <2>1, <4>1, <4>2, FS_Singleton
    <3> QED BY <3>1, <3>2
  <2>2. Cardinality(Questioners) = IF question.sent THEN 1 ELSE 0
    BY <2>1 DEF FilesInv, LettersWait, OneOf
  <2>3. Cardinality(Rejecters) = IF reason.sent THEN 1 ELSE 0
    BY <2>1 DEF FilesInv, LettersWait, OneOf
  <2>4. /\ {m \in Pending(FileRequest) : OfQuestion(letters[m])} = Questioners
        /\ {m \in Pending(FileRequest) : OfReason(letters[m])} = Rejecters
    BY DEF Pending, FileRequest, Questioners, Rejecters, OfQuestion, OfReason
  <2>5. massBusy => Pending({"mass"}) # {}
    BY DEF FilesInv, LettersWait, Pending
  <2> QED BY <2>2, <2>3, <2>4, <2>5 DEF VerdictsWait
<1> QED BY <1>2, <1>3, <1>4 DEF FilesTabsSound, FilesInv, FilesWell

(* Whatever the administrator does on the tabs of the restaurants and of the   *)
(* vendors, however their answers interleave and whichever are lost: once nothing *)
(* is under way rows and cards show the server's verdict on what is still there,   *)
(* and a dialog that waits waits for its own answer, but for the cases named.       *)
THEOREM FilesTabsStaySound == FilesSpec => []FilesTabsSound
<1>1. FilesInit => FilesInv
  BY FilesStart
<1>2. FilesInv /\ [FilesNext]_filesVars => FilesInv'
  BY FilesStep
<1>3. FilesInv => FilesTabsSound
  BY FilesHonest
<1> QED BY <1>1, <1>2, <1>3, PTL DEF FilesSpec

(* The three tabs of the administrator, which work apart: he decides about what  *)
(* he sees, and each decision once, but for the cases named.                      *)
THEOREM AdminTabsStaySound == AdminSpec /\ FilesSpec => []AdminTabsSound
BY UsersTabStaysSound, FilesTabsStaySound, PTL DEF AdminTabsSound

=============================================================================
