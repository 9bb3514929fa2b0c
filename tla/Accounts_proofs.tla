-------------------------- MODULE Accounts_proofs ---------------------------
(* Proofs about accounts: access (AccountAccess) for any number of visitors,  *)
(* workers, passwords and mails; invitations (Invitations) for any number of  *)
(* members, workers and links; hosted workers (HostedWorker) for any number   *)
(* of hosts, lanes and units of work; and the types of all components that    *)
(* MCAccounts puts together.                                                  *)
EXTENDS MCAccounts, Billing_proofs, SequenceTheorems, FiniteSetTheorems, TLAPS

-----------------------------------------------------------------------------
(***************************************************************************)
(* AccountAccess: types, and that nothing issued before a change counts after it. *)
(***************************************************************************)
USE DEF Links, Row

MailRows ==
  [kind : Links \cup {"none", "changed"}, digest : 0..MaxPasswords, token : {"gone", "kept", "mailed"}, fresh : BOOLEAN,
   state : {"none", "pending", "sending", "accepted", "failed", "cancelled"},
   attempts : 0..MaxMailAttempts, leased : BOOLEAN]

Accounts == [password : 1..MaxPasswords, verified : BOOLEAN, required : BOOLEAN]
Doings == {"nothing", "signing in", "changing", "verifying"}
Visits == [doing : Doings, saw : 0..MaxPasswords, link : 0..MaxMail]

AccountInv ==
  /\ account \in Accounts /\ session \in [Visitors -> 0..MaxPasswords]
  /\ issued \in 0..MaxMail /\ visit \in [Visitors -> Visits]

MailInv ==
  /\ mail \in [Row -> MailRows]
  /\ mailer \in [Mailers -> [mail : 0..MaxMail, lease : 0..MaxMailAttempts, sent : {"no", "ok", "again", "over"}]]

AccessInv == AccountInv /\ MailInv /\ AccessIsCurrent

\* The link of a row can still be redeemed, or its mail is still to be sent.
Stands(row) == row.token # "gone" \/ row.state \in {"pending", "sending"}

\* What the outbox does to a row: it may end the mail, never give a link back.
NoNewer(new, old) ==
  /\ new.kind = old.kind /\ new.digest = old.digest
  /\ Stands(new) => Stands(old) /\ (old.token # "gone" => new.token # "gone")

-----------------------------------------------------------------------------
\* The bounds are numbers.
LEMMA Bounds ==
  MaxPasswords \in Nat /\ MaxMail \in Nat /\ MaxMailAttempts \in Nat /\ 0 \notin {MaxPasswords, MaxMail, MaxMailAttempts}
  BY AccessAssumption

\* The account's row, read and with a new password.
LEMMA AccountRow ==
  ASSUME account \in Accounts
  PROVE  /\ account.password \in 0..MaxPasswords /\ account.verified \in BOOLEAN
         /\ account.password < MaxPasswords =>
              LET new == [account EXCEPT !.password = account.password + 1]
              IN  /\ new \in Accounts /\ new.password = account.password + 1
                  /\ new.verified = account.verified /\ new.required = account.required
  BY Bounds DEF Accounts

\* What a visitor is doing.
LEMMA VisitRow ==
  ASSUME NEW doing \in Doings, NEW saw \in 0..MaxPasswords, NEW link \in 0..MaxMail
  PROVE  [doing |-> doing, saw |-> saw, link |-> link] \in Visits
  BY DEF Visits

\* A visitor that does nothing.
LEMMA AwayRow == Away \in Visits
<1>1. 0 \in 0..MaxPasswords /\ 0 \in 0..MaxMail /\ "nothing" \in Doings
  BY Bounds DEF Doings
<1> QED
  BY <1>1, VisitRow DEF Away

\* A mail that is ended keeps its kind and loses its token.
LEMMA EndedRow ==
  ASSUME NEW row \in MailRows, NEW state \in {"none", "accepted", "failed", "cancelled"}
  PROVE  Ended(row, state) \in MailRows /\ NoNewer(Ended(row, state), row) /\ ~Stands(Ended(row, state))
<1>1. Ended(row, state) = [kind |-> row.kind, digest |-> row.digest, token |-> "gone", fresh |-> row.fresh,
                           state |-> state, attempts |-> row.attempts, leased |-> FALSE]
  <2> DEFINE one == [row EXCEPT !.state = state]
             two == [one EXCEPT !.token = "gone"]
  <2>1. Ended(row, state) = [two EXCEPT !.leased = FALSE]
    BY DEF Ended
  <2>2. one = [kind |-> row.kind, digest |-> row.digest, token |-> row.token, fresh |-> row.fresh,
               state |-> state, attempts |-> row.attempts, leased |-> row.leased]
    BY DEF MailRows
  <2> HIDE DEF one
  <2>3. two = [kind |-> row.kind, digest |-> row.digest, token |-> "gone", fresh |-> row.fresh,
               state |-> state, attempts |-> row.attempts, leased |-> row.leased]
    BY <2>2
  <2> HIDE DEF two
  <2> QED
    BY <2>1, <2>3
<1> QED
  BY <1>1 DEF MailRows, NoNewer, Stands

\* Nothing stands of a kind of link that was invalidated.
LEMMA Invalidated ==
  ASSUME mail \in [Row -> MailRows]
  PROVE  /\ Invalidate(mail, Links) \in [Row -> MailRows]
         /\ \A i \in Row : Invalidate(mail, Links)[i].kind \in Links => ~Stands(Invalidate(mail, Links)[i])
<1> DEFINE ends(i) == [mail[i] EXCEPT !.token = "gone", !.leased = FALSE,
                         !.state = IF @ \in {"pending", "sending"} THEN "cancelled" ELSE @]
           over(i) == IF mail[i].state \in {"pending", "sending"} THEN "cancelled" ELSE mail[i].state
<1>1. ASSUME NEW i \in Row
      PROVE  over(i) \in {"none", "accepted", "failed", "cancelled"} /\ mail[i] \in MailRows
  BY DEF MailRows
<1>2. ASSUME NEW i \in Row
      PROVE  ends(i) \in MailRows /\ ends(i).token = "gone" /\ ends(i).state = over(i)
  <2> DEFINE one == [mail[i] EXCEPT !.token = "gone"]
             two == [one EXCEPT !.leased = FALSE]
  <2>1. one \in MailRows /\ one.token = "gone" /\ one.state = mail[i].state
    BY <1>1 DEF MailRows
  <2>2. ends(i) = [two EXCEPT !.state = IF @ \in {"pending", "sending"} THEN "cancelled" ELSE @]
    OBVIOUS
  <2> HIDE DEF one
  <2>3. two \in MailRows /\ two.token = "gone" /\ two.state = mail[i].state
    BY <2>1 DEF MailRows
  <2> HIDE DEF two
  <2>4. ends(i) = [two EXCEPT !.state = over(i)]
    BY <2>2, <2>3
  <2>5. over(i) \in {"none", "accepted", "failed", "cancelled"}
    BY <1>1
  <2> HIDE DEF ends, over
  <2> QED
    BY <2>3, <2>4, <2>5 DEF MailRows
<1> HIDE DEF over
<1>3. ASSUME NEW i \in Row PROVE ends(i) \in MailRows /\ ~Stands(ends(i))
  BY <1>1, <1>2 DEF Stands
<1>4. Invalidate(mail, Links) = [i \in Row |-> IF mail[i].kind \notin Links THEN mail[i] ELSE ends(i)]
  BY DEF Invalidate
<1> HIDE DEF ends
<1>5. \A i \in Row : mail[i] \in MailRows
  OBVIOUS
<1>6. ASSUME NEW i \in Row
      PROVE  /\ Invalidate(mail, Links)[i] \in MailRows
             /\ Invalidate(mail, Links)[i].kind \in Links => ~Stands(Invalidate(mail, Links)[i])
  <2>1. CASE mail[i].kind \in Links
    BY <1>3, <1>4, <2>1
  <2>2. CASE mail[i].kind \notin Links
    BY <1>4, <1>5, <2>2
  <2> QED
    BY <2>1, <2>2
<1> QED
  BY <1>4, <1>6

\* A new row is written next to the others, which stay.
LEMMA EnqueuedRow ==
  ASSUME NEW rows \in [Row -> MailRows], issued \in Nat, issued < MaxMail,
         NEW kind \in Links \cup {"changed"}, NEW digest \in 0..MaxPasswords
  PROVE  /\ Enqueued(rows, kind, digest) \in [Row -> MailRows]
         /\ \A i \in Row :
              IF i = issued + 1
              THEN /\ Enqueued(rows, kind, digest)[i].kind = kind /\ Enqueued(rows, kind, digest)[i].digest = digest
                   /\ kind \in Links => Enqueued(rows, kind, digest)[i].token = "kept"
              ELSE Enqueued(rows, kind, digest)[i] = rows[i]
<1> DEFINE token == IF kind \in Links THEN "kept" ELSE "gone"
           new == [Unwritten EXCEPT !.kind = kind, !.digest = digest, !.token = token, !.fresh = TRUE, !.state = "pending"]
<1>1. new \in MailRows /\ new.kind = kind /\ new.digest = digest /\ new.token = token
  <2> DEFINE one == [Unwritten EXCEPT !.kind = kind]
             two == [one EXCEPT !.digest = digest]
             three == [two EXCEPT !.token = token]
             four == [three EXCEPT !.fresh = TRUE]
  <2>1. new = [four EXCEPT !.state = "pending"]
    OBVIOUS
  <2>2. Unwritten \in MailRows
    BY Bounds DEF Unwritten, MailRows
  <2>3. token \in {"gone", "kept"}
    OBVIOUS
  <2> HIDE DEF token
  <2>4. one \in MailRows /\ one.kind = kind
    BY <2>2 DEF MailRows
  <2> HIDE DEF one
  <2>5. two \in MailRows /\ two.kind = kind /\ two.digest = digest
    BY <2>4 DEF MailRows
  <2> HIDE DEF two
  <2>6. three \in MailRows /\ three.kind = kind /\ three.digest = digest /\ three.token = token
    BY <2>3, <2>5 DEF MailRows
  <2> HIDE DEF three
  <2>7. four \in MailRows /\ four.kind = kind /\ four.digest = digest /\ four.token = token
    BY <2>6 DEF MailRows
  <2> HIDE DEF four, new
  <2> QED
    BY <2>1, <2>7 DEF MailRows
<1>2. kind \in Links => token = "kept"
  OBVIOUS
<1>3. Enqueued(rows, kind, digest) = [rows EXCEPT ![issued + 1] = new]
  BY DEF Enqueued
<1> HIDE DEF token, new
<1>4. new \in MailRows /\ new.kind = kind /\ new.digest = digest /\ (kind \in Links => new.token = "kept")
  BY <1>1, <1>2
<1>5. issued + 1 \in Row
  BY Bounds
<1> QED
  BY <1>3, <1>4, <1>5

\* What the outbox does keeps everything current.
LEMMA MailOnly ==
  ASSUME AccessIsCurrent, \A i \in Row : NoNewer(mail'[i], mail[i]), UNCHANGED <<account, session>>
  PROVE  AccessIsCurrent'
<1>1. ASSUME NEW i \in Row, mail'[i].kind \in Links, mail'[i].token # "gone" \/ Waiting(i)'
      PROVE  mail'[i].token # "gone" /\ mail'[i].digest = account.password /\ (mail'[i].kind = "verify" => ~account.verified)
  <2>1. Stands(mail'[i]) /\ NoNewer(mail'[i], mail[i])
    BY <1>1 DEF Stands, Waiting
  <2>2. Stands(mail[i]) /\ mail[i].kind = mail'[i].kind /\ mail[i].digest = mail'[i].digest
        /\ (mail[i].token # "gone" => mail'[i].token # "gone")
    BY <2>1 DEF NoNewer
  <2>3. mail[i].token # "gone" /\ mail[i].digest = account.password /\ (mail[i].kind = "verify" => ~account.verified)
    BY <1>1, <2>2 DEF AccessIsCurrent, Stands, Waiting
  <2> QED
    BY <2>2, <2>3
<1>2. \A v \in Visitors : session'[v] # 0 => session'[v] = account'.password /\ MayEnter'
  BY DEF AccessIsCurrent, MayEnter
<1> QED
  BY <1>1, <1>2 DEF AccessIsCurrent

\* One row of the outbox changes.
LEMMA OneMail ==
  ASSUME AccessInv, NEW i \in Row, NEW row \in MailRows, NoNewer(row, mail[i]), mail' = [mail EXCEPT ![i] = row],
         UNCHANGED <<account, session>>
  PROVE  mail' \in [Row -> MailRows] /\ AccessIsCurrent'
<1>1. \A j \in Row : mail'[j] = IF j = i THEN row ELSE mail[j]
  BY DEF AccessInv, MailInv
<1>2. \A j \in Row : NoNewer(mail'[j], mail[j])
  BY <1>1 DEF NoNewer
<1> QED
  BY <1>2, MailOnly DEF AccessInv, MailInv

-----------------------------------------------------------------------------
\* The invariant holds initially.
LEMMA AccessInitial == AccessInit => AccessInv
<1> SUFFICES ASSUME AccessInit PROVE AccessInv
  OBVIOUS
<1> USE Bounds DEF AccessInit
<1>1. AccountInv
  BY AwayRow DEF AccountInv, Accounts
<1>2. MailInv
  <2>1. Unwritten \in MailRows
    BY DEF Unwritten, MailRows
  <2>2. OffDuty \in [mail : 0..MaxMail, lease : 0..MaxMailAttempts, sent : {"no", "ok", "again", "over"}]
    BY DEF OffDuty
  <2> QED
    BY <2>1, <2>2 DEF MailInv
<1>3. AccessIsCurrent
  BY DEF AccessIsCurrent, Unwritten, Waiting
<1> QED
  BY <1>1, <1>2, <1>3 DEF AccessInv

\* A password is checked, or a link opened, before any transaction.
LEMMA BeginStep ==
  ASSUME AccessInv, NEW v \in Visitors, NEW doing \in {"signing in", "changing", "verifying"}, NEW link \in 0..MaxMail,
         Begin(v, doing, link)
  PROVE  AccessInv'
<1>1. [doing |-> doing, saw |-> account.password, link |-> link] \in Visits
  BY AccountRow, VisitRow DEF AccessInv, AccountInv, Doings
<1>2. AccountInv'
  BY <1>1 DEF AccessInv, AccountInv, Begin
<1>3. MailInv'
  BY DEF AccessInv, MailInv, Begin
<1>4. AccessIsCurrent'
  BY DEF AccessInv, AccessIsCurrent, Begin, MayEnter, Waiting
<1> QED
  BY <1>2, <1>3, <1>4 DEF AccessInv

\* A new password ends every session but the kept ones, and every link.
LEMMA NewPasswordStep ==
  ASSUME AccessInv, NEW kept \in SUBSET Visitors, NewPassword(kept), UNCHANGED mailer,
         visit' \in [Visitors -> Visits]
  PROVE  AccessInv'
<1> USE Bounds
<1>1. /\ account \in Accounts
      /\ account.password < MaxPasswords /\ issued < MaxMail /\ issued \in Nat
      /\ account' = [account EXCEPT !.password = account.password + 1]
  BY DEF AccessInv, AccountInv, NewPassword
<1>2. /\ account' \in Accounts
      /\ account'.password = account.password + 1 /\ account'.verified = account.verified
      /\ account'.required = account.required /\ account'.password \in 0..MaxPasswords
  BY <1>1, AccountRow DEF Accounts
<1>3. session' = [v \in Visitors |-> IF v \in kept /\ session[v] # 0 THEN account'.password ELSE 0]
      /\ issued' = issued + 1
  BY DEF NewPassword
<1>4. AccountInv'
  BY <1>1, <1>2, <1>3 DEF AccountInv
<1> DEFINE rows == Invalidate(mail, Links)
<1>5. /\ rows \in [Row -> MailRows]
      /\ \A i \in Row : rows[i].kind \in Links => ~Stands(rows[i])
  BY Invalidated DEF AccessInv, MailInv
<1>6. mail' = Enqueued(rows, "changed", 0)
  BY DEF NewPassword
<1> HIDE DEF rows
<1>7. /\ mail' \in [Row -> MailRows]
      /\ \A i \in Row : IF i = issued + 1 THEN mail'[i].kind = "changed" ELSE mail'[i] = rows[i]
  BY <1>1, <1>5, <1>6, EnqueuedRow
<1>8. MailInv'
  BY <1>7 DEF AccessInv, MailInv
<1>9. AccessIsCurrent'
  <2>1. \A v \in Visitors : session'[v] # 0 => session'[v] = account'.password /\ MayEnter'
    BY <1>2, <1>3 DEF AccessInv, AccessIsCurrent, MayEnter
  <2>2. \A i \in Row : mail'[i].kind \in Links => ~Stands(mail'[i])
    BY <1>5, <1>7
  <2> QED
    BY <2>1, <2>2 DEF AccessIsCurrent, Stands, Waiting
<1> QED
  BY <1>4, <1>8, <1>9 DEF AccessInv

\* Signing in, changing the password and confirming the address.
LEMMA VisitorStep ==
  ASSUME AccessInv, NEW v \in Visitors,
         \/ SignIn(v) \/ EnterSession(v) \/ SignOut(v) \/ AskChange(v) \/ ChangePassword(v)
         \/ CompleteVerification(v) \/ \E i \in Row : AskVerify(v, i)
  PROVE  AccessInv'
<1> USE Bounds DEF AccessInv
<1>1. CASE SignIn(v) \/ AskChange(v) \/ \E i \in Row : AskVerify(v, i)
  <2>1. PICK doing \in {"signing in", "changing", "verifying"}, link \in 0..MaxMail : Begin(v, doing, link)
    <3>1. 0 \in 0..MaxMail /\ \A i \in Row : i \in 0..MaxMail
      OBVIOUS
    <3>2. CASE SignIn(v)
      BY <3>1, <3>2 DEF SignIn
    <3>3. CASE AskChange(v)
      BY <3>1, <3>3 DEF AskChange
    <3>4. CASE \E i \in Row : AskVerify(v, i)
      BY <3>1, <3>4 DEF AskVerify
    <3> QED
      BY <1>1, <3>2, <3>3, <3>4
  <2> QED
    BY <2>1, BeginStep
<1>2. CASE EnterSession(v)
  <2>1. AccountInv'
    <3>1. PICK n \in 0..MaxPasswords : session' = [session EXCEPT ![v] = n]
      <4>1. account.password \in 0..MaxPasswords /\ 0 \in 0..MaxPasswords
        BY AccountRow DEF AccountInv
      <4>2. CASE session' = [session EXCEPT ![v] = account.password]
        BY <4>1, <4>2
      <4>3. CASE session' = [session EXCEPT ![v] = 0]
        BY <4>1, <4>3
      <4> QED
        BY <1>2, <4>2, <4>3 DEF EnterSession
    <3> QED
      BY <1>2, <3>1, AwayRow DEF EnterSession, AccountInv
  <2>2. MailInv'
    BY <1>2 DEF EnterSession, MailInv
  <2>3. AccessIsCurrent'
    BY <1>2 DEF EnterSession, AccessIsCurrent, AccountInv, MayEnter, Waiting
  <2> QED
    BY <2>1, <2>2, <2>3
<1>3. CASE SignOut(v)
  <2>1. AccountInv'
    BY <1>3 DEF SignOut, AccountInv
  <2>2. MailInv'
    BY <1>3 DEF SignOut, MailInv
  <2>3. AccessIsCurrent'
    BY <1>3 DEF SignOut, AccessIsCurrent, AccountInv, MayEnter, Waiting
  <2> QED
    BY <2>1, <2>2, <2>3
<1>4. CASE ChangePassword(v)
  <2>1. visit' \in [Visitors -> Visits] /\ UNCHANGED mailer
    BY <1>4, AwayRow DEF ChangePassword, AccountInv
  <2>2. CASE NewPassword({v})
    <3>1. {v} \in SUBSET Visitors
      OBVIOUS
    <3> QED
      BY <2>1, <2>2, <3>1, NewPasswordStep
  <2>3. CASE UNCHANGED <<account, session, mail, issued>>
    <3>1. AccountInv'
      BY <2>1, <2>3 DEF AccountInv
    <3>2. MailInv'
      BY <2>1, <2>3 DEF MailInv
    <3>3. AccessIsCurrent'
      BY <2>3 DEF AccessIsCurrent, MayEnter, Waiting
    <3> QED
      BY <3>1, <3>2, <3>3
  <2> QED
    BY <1>4, <2>2, <2>3 DEF ChangePassword
<1>5. CASE CompleteVerification(v)
  <2>1. /\ visit' = [visit EXCEPT ![v] = Away] /\ UNCHANGED <<requested, issued, mailer>>
        /\ \/ /\ account' = [account EXCEPT !.verified = TRUE]
              /\ session' = [u \in Visitors |-> 0] /\ mail' = Invalidate(mail, Links)
           \/ UNCHANGED <<account, session, mail>>
    BY <1>5 DEF CompleteVerification
  <2>2. AccountInv'
    <3>1. [account EXCEPT !.verified = TRUE] \in Accounts
      BY DEF AccountInv, Accounts
    <3>2. [u \in Visitors |-> 0] \in [Visitors -> 0..MaxPasswords]
      OBVIOUS
    <3> QED
      BY <2>1, <3>1, <3>2, AwayRow DEF AccountInv
  <2>3. MailInv'
    BY <2>1, Invalidated DEF MailInv
  <2>4. AccessIsCurrent'
    <3>1. CASE session' = [u \in Visitors |-> 0] /\ mail' = Invalidate(mail, Links)
      <4>1. \A i \in Row : mail'[i].kind \in Links => ~Stands(mail'[i])
        BY <3>1, Invalidated DEF MailInv
      <4> QED
        BY <3>1, <4>1 DEF AccessIsCurrent, Stands, Waiting
    <3>2. CASE UNCHANGED <<account, session, mail>>
      BY <3>2 DEF AccessIsCurrent, MayEnter, Waiting
    <3> QED
      BY <2>1, <3>1, <3>2
  <2> QED
    BY <2>2, <2>3, <2>4
<1> QED
  BY <1>1, <1>2, <1>3, <1>4, <1>5

\* Links asked for, and given to the outbox later if nothing changed in between.
LEMMA RequestStep ==
  ASSUME AccessInv, NEW k \in Links, RequestLink(k) \/ ResolveRequest(k)
  PROVE  AccessInv'
<1> USE Bounds DEF AccessInv
<1>1. CASE UNCHANGED <<account, session, visit, mail, issued, mailer>>
  BY <1>1 DEF AccountInv, MailInv, AccessIsCurrent, MayEnter, Waiting
<1>2. CASE /\ ~Outdated(k) /\ issued < MaxMail /\ issued' = issued + 1
           /\ mail' = Enqueued(mail, k, account.password) /\ UNCHANGED <<account, session, visit, mailer>>
  <2>1. mail \in [Row -> MailRows] /\ issued \in Nat /\ account.password \in 0..MaxPasswords
    BY AccountRow DEF AccountInv, MailInv
  <2>2. /\ mail' \in [Row -> MailRows]
        /\ \A i \in Row :
             IF i = issued + 1 THEN mail'[i].kind = k /\ mail'[i].digest = account.password /\ mail'[i].token = "kept"
             ELSE mail'[i] = mail[i]
    BY <1>2, <2>1, EnqueuedRow
  <2>3. AccountInv'
    BY <1>2 DEF AccountInv
  <2>4. MailInv'
    BY <1>2, <2>2 DEF MailInv
  <2>5. k = "verify" => ~account.verified
    BY <1>2 DEF Outdated, AccountInv
  <2>6. ASSUME NEW i \in Row, mail'[i].kind \in Links, mail'[i].token # "gone" \/ Waiting(i)'
        PROVE  mail'[i].token # "gone" /\ mail'[i].digest = account.password /\ (mail'[i].kind = "verify" => ~account.verified)
    <3>1. CASE i = issued + 1
      BY <2>2, <2>5, <3>1
    <3>2. CASE i # issued + 1
      BY <2>2, <2>6, <3>2 DEF AccessIsCurrent, Waiting
    <3> QED
      BY <3>1, <3>2
  <2>7. \A v \in Visitors : session'[v] # 0 => session'[v] = account'.password /\ MayEnter'
    BY <1>2 DEF AccessIsCurrent, MayEnter
  <2> QED
    BY <1>2, <2>3, <2>4, <2>6, <2>7 DEF AccessIsCurrent
<1> QED
  BY <1>1, <1>2 DEF RequestLink, ResolveRequest


\* Claiming, sending and settling a mail, and what time does to it.
LEMMA OutboxStep ==
  ASSUME AccessInv,
         \/ \E i \in Row : LapseMail(i) \/ ExpireMail(i) \/ CleanExpired(i)
         \/ \E s \in Mailers :
              \/ FinishMail(s) \/ StopMailer(s) \/ \E i \in Row : ClaimMail(s, i)
              \/ \E answer \in {"ok", "again", "over"} : SendMail(s, answer)
  PROVE  AccessInv'
<1> DEFINE Workers == [mail : 0..MaxMail, lease : 0..MaxMailAttempts, sent : {"no", "ok", "again", "over"}]
<1>0. /\ AccountInv /\ mail \in [Row -> MailRows] /\ mailer \in [Mailers -> Workers] /\ AccessIsCurrent
      /\ \A i \in Row : mail[i] \in MailRows
  BY DEF AccessInv, MailInv
<1>1. UNCHANGED <<account, session, visit, issued>>
  BY DEF LapseMail, ExpireMail, CleanExpired, FinishMail, StopMailer, ClaimMail, SendMail
<1>2. AccountInv'
  BY <1>0, <1>1 DEF AccountInv
<1>3. SUFFICES mail' \in [Row -> MailRows] /\ mailer' \in [Mailers -> Workers] /\ AccessIsCurrent'
  BY <1>2 DEF AccessInv, MailInv
<1>4. ASSUME UNCHANGED mail PROVE mail' \in [Row -> MailRows] /\ AccessIsCurrent'
  BY <1>0, <1>1, <1>4 DEF AccessIsCurrent, MayEnter, Waiting
<1>5. ASSUME NEW i \in Row, LapseMail(i) PROVE mail' \in [Row -> MailRows] /\ mailer' \in [Mailers -> Workers] /\ AccessIsCurrent'
  <2> DEFINE row == [mail[i] EXCEPT !.leased = FALSE]
  <2>1. row \in MailRows /\ NoNewer(row, mail[i])
    BY <1>0 DEF MailRows, NoNewer, Stands
  <2>2. mail' = [mail EXCEPT ![i] = row] /\ UNCHANGED mailer
    BY <1>5 DEF LapseMail
  <2> HIDE DEF row
  <2> QED
    BY <1>0, <1>1, <2>1, <2>2, OneMail
<1>6. ASSUME NEW i \in Row, ExpireMail(i) PROVE mail' \in [Row -> MailRows] /\ mailer' \in [Mailers -> Workers] /\ AccessIsCurrent'
  <2> DEFINE row == [mail[i] EXCEPT !.fresh = FALSE]
  <2>1. row \in MailRows /\ NoNewer(row, mail[i])
    BY <1>0 DEF MailRows, NoNewer, Stands
  <2>2. mail' = [mail EXCEPT ![i] = row] /\ UNCHANGED mailer
    BY <1>6 DEF ExpireMail
  <2> HIDE DEF row
  <2> QED
    BY <1>0, <1>1, <2>1, <2>2, OneMail
<1>7. ASSUME NEW i \in Row, CleanExpired(i) PROVE mail' \in [Row -> MailRows] /\ mailer' \in [Mailers -> Workers] /\ AccessIsCurrent'
  <2> DEFINE over == IF Waiting(i) THEN "cancelled" ELSE mail[i].state
             row == Ended(mail[i], over)
  <2>1. over \in {"none", "accepted", "failed", "cancelled"}
    BY <1>0 DEF Waiting, MailRows
  <2>2. mail' = [mail EXCEPT ![i] = row] /\ UNCHANGED mailer
    BY <1>7 DEF CleanExpired
  <2> HIDE DEF over
  <2>3. row \in MailRows /\ NoNewer(row, mail[i])
    BY <1>0, <2>1, EndedRow
  <2> HIDE DEF row
  <2> QED
    BY <1>0, <1>1, <2>2, <2>3, OneMail
<1>8. ASSUME NEW s \in Mailers, NEW i \in Row, ClaimMail(s, i)
      PROVE  mail' \in [Row -> MailRows] /\ mailer' \in [Mailers -> Workers] /\ AccessIsCurrent'
  <2>1. CASE mail' = [mail EXCEPT ![i] = Ended(mail[i], "cancelled")] /\ UNCHANGED mailer
    BY <1>0, <1>1, <2>1, EndedRow, OneMail
  <2>2. CASE mail' = [mail EXCEPT ![i] = Ended(mail[i], "failed")] /\ UNCHANGED mailer
    BY <1>0, <1>1, <2>2, EndedRow, OneMail
  <2>3. CASE /\ mail[i].attempts < MaxMailAttempts /\ Waiting(i)
             /\ mail' = [mail EXCEPT ![i].state = "sending", ![i].attempts = @ + 1, ![i].leased = TRUE]
             /\ mailer' = [mailer EXCEPT ![s] = [mail |-> i, lease |-> mail'[i].attempts, sent |-> "no"]]
    <3> DEFINE one == [mail[i] EXCEPT !.state = "sending"]
               two == [one EXCEPT !.attempts = @ + 1]
               row == [two EXCEPT !.leased = TRUE]
    <3>1. mail[i].attempts \in 0..MaxMailAttempts
      BY <1>0 DEF MailRows
    <3>2. mail[i].attempts + 1 \in 0..MaxMailAttempts
      BY <2>3, <3>1, Bounds
    <3>3. one \in MailRows /\ NoNewer(one, mail[i]) /\ one.attempts = mail[i].attempts
      BY <1>0, <2>3 DEF MailRows, NoNewer, Stands, Waiting
    <3>4. mail' = [mail EXCEPT ![i] = row]
      BY <1>0, <2>3
    <3> HIDE DEF one
    <3>5. two \in MailRows /\ NoNewer(two, mail[i]) /\ two.attempts = mail[i].attempts + 1
      BY <3>2, <3>3 DEF MailRows, NoNewer, Stands
    <3> HIDE DEF two
    <3>6. row \in MailRows /\ NoNewer(row, mail[i]) /\ row.attempts = mail[i].attempts + 1
      BY <3>5 DEF MailRows, NoNewer, Stands
    <3> HIDE DEF row
    <3>7. mail' \in [Row -> MailRows] /\ AccessIsCurrent'
      BY <1>0, <1>1, <3>4, <3>6, OneMail
    <3>8. mail'[i].attempts \in 0..MaxMailAttempts /\ i \in 0..MaxMail
      BY <1>0, <3>2, <3>4, <3>6
    <3>9. [mail |-> i, lease |-> mail'[i].attempts, sent |-> "no"] \in Workers
      BY <3>8
    <3> HIDE DEF Workers
    <3>10. mailer' \in [Mailers -> Workers]
      BY <1>0, <2>3, <3>9
    <3> QED
      BY <3>7, <3>10
  <2>4. mail[i].attempts \in 0..MaxMailAttempts
    BY <1>0 DEF MailRows
  <2> DEFINE outdated == ~mail[i].fresh \/ (~Sendable(i) /\ mail[i].attempts < MaxMailAttempts)
             exhausted == mail[i].fresh /\ mail[i].attempts >= MaxMailAttempts
  <2>5. outdated \/ exhausted \/ (~outdated /\ ~exhausted /\ mail[i].attempts < MaxMailAttempts)
    BY <2>4, Bounds
  <2>6. /\ Waiting(i)
        /\ CASE outdated -> mail' = [mail EXCEPT ![i] = Ended(mail[i], "cancelled")] /\ UNCHANGED mailer
             [] exhausted -> mail' = [mail EXCEPT ![i] = Ended(mail[i], "failed")] /\ UNCHANGED mailer
             [] OTHER ->
                  /\ mail' = [mail EXCEPT ![i].state = "sending", ![i].attempts = @ + 1, ![i].leased = TRUE]
                  /\ mailer' = [mailer EXCEPT ![s] = [mail |-> i, lease |-> mail'[i].attempts, sent |-> "no"]]
    BY <1>8 DEF ClaimMail
  <2>7. ~(outdated /\ exhausted)
    BY <2>4, Bounds
  <2> HIDE DEF outdated, exhausted
  <2>8. CASE outdated
    BY <2>1, <2>6, <2>7, <2>8
  <2>9. CASE exhausted
    BY <2>2, <2>6, <2>7, <2>9
  <2>10. CASE ~outdated /\ ~exhausted
    BY <2>3, <2>5, <2>6, <2>10
  <2> QED
    BY <2>8, <2>9, <2>10
<1>9. ASSUME NEW s \in Mailers, NEW answer \in {"ok", "again", "over"}, SendMail(s, answer)
      PROVE  mail' \in [Row -> MailRows] /\ mailer' \in [Mailers -> Workers] /\ AccessIsCurrent'
  <2>1. mailer' = [mailer EXCEPT ![s].sent = answer] /\ mailer[s] \in Workers /\ mailer[s].mail \in Row
    BY <1>0, <1>9 DEF SendMail
  <2>2. mailer' \in [Mailers -> Workers]
    BY <1>0, <2>1
  <2>3. CASE UNCHANGED mail
    BY <1>4, <2>2, <2>3
  <2>4. CASE mail[mailer[s].mail].token = "kept" /\ mail' = [mail EXCEPT ![mailer[s].mail].token = "mailed"]
    <3> DEFINE i == mailer[s].mail
               row == [mail[i] EXCEPT !.token = "mailed"]
    <3>1. mail' = [mail EXCEPT ![i] = row] /\ i \in Row /\ mail[i].token = "kept"
      BY <2>1, <2>4
    <3> HIDE DEF i
    <3>2. row \in MailRows /\ NoNewer(row, mail[i])
      BY <1>0, <3>1 DEF MailRows, NoNewer, Stands
    <3> HIDE DEF row
    <3> QED
      BY <1>0, <1>1, <2>2, <3>1, <3>2, OneMail
  <2> QED
    BY <1>9, <2>3, <2>4 DEF SendMail
<1>10. ASSUME NEW s \in Mailers, FinishMail(s)
       PROVE  mail' \in [Row -> MailRows] /\ mailer' \in [Mailers -> Workers] /\ AccessIsCurrent'
  <2> DEFINE i == mailer[s].mail
             free(state) == [mail[i] EXCEPT !.state = state, !.leased = FALSE]
  <2>1. mailer' = [mailer EXCEPT ![s] = OffDuty] /\ i \in Row
    <3>1. mailer[s] \in Workers
      BY <1>0
    <3>2. mailer[s].mail # 0 /\ mailer' = [mailer EXCEPT ![s] = OffDuty]
      BY <1>10 DEF FinishMail
    <3> QED
      BY <3>1, <3>2, Bounds
  <2>2. mailer' \in [Mailers -> Workers]
    <3>1. OffDuty \in Workers
      BY Bounds DEF OffDuty
    <3> QED
      BY <1>0, <2>1, <3>1
  <2>3. CASE UNCHANGED mail
    BY <1>4, <2>2, <2>3
  <2>4. CASE \E state \in {"cancelled", "failed"} : mail' = [mail EXCEPT ![i] = Ended(mail[i], state)]
    BY <1>0, <1>1, <2>1, <2>2, <2>4, EndedRow, OneMail
  <2>5. CASE mail[i].state = "sending" /\ \E state \in {"accepted", "pending"} : mail' = [mail EXCEPT ![i] = free(state)]
    <3> PICK state \in {"accepted", "pending"} : mail' = [mail EXCEPT ![i] = free(state)]
      BY <2>5
    <3> DEFINE one == [mail[i] EXCEPT !.state = state]
               row == [one EXCEPT !.leased = FALSE]
    <3>1. one \in MailRows /\ NoNewer(one, mail[i])
      BY <1>0, <2>1, <2>5 DEF MailRows, NoNewer, Stands
    <3>2. mail' = [mail EXCEPT ![i] = row]
      OBVIOUS
    <3> HIDE DEF one
    <3>3. row \in MailRows /\ NoNewer(row, mail[i])
      BY <3>1 DEF MailRows, NoNewer, Stands
    <3> HIDE DEF row
    <3> QED
      BY <1>0, <1>1, <2>1, <2>2, <3>2, <3>3, OneMail
  <2> QED
    BY <1>10, <2>3, <2>4, <2>5 DEF FinishMail
<1>11. ASSUME NEW s \in Mailers, StopMailer(s)
       PROVE  mail' \in [Row -> MailRows] /\ mailer' \in [Mailers -> Workers] /\ AccessIsCurrent'
  <2>1. OffDuty \in Workers
    BY Bounds DEF OffDuty
  <2>2. mailer' = [mailer EXCEPT ![s] = OffDuty] /\ UNCHANGED mail
    BY <1>11 DEF StopMailer
  <2> HIDE DEF Workers
  <2> QED
    BY <1>0, <1>4, <2>1, <2>2
<1> QED
  BY <1>5, <1>6, <1>7, <1>8, <1>9, <1>10, <1>11

\* Every action preserves the invariant.
LEMMA AccessStep ==
  ASSUME AccessInv, [AccessNext]_accessVars
  PROVE  AccessInv'
<1>1. ASSUME NEW i \in Row, CompleteReset(i) PROVE AccessInv'
  <2>1. NewPassword({}) /\ UNCHANGED <<visit, mailer>> /\ visit \in [Visitors -> Visits]
    BY <1>1 DEF CompleteReset, AccessInv, AccountInv
  <2> QED
    BY <2>1, NewPasswordStep
<1>2. CASE UNCHANGED accessVars
  BY <1>2 DEF accessVars, AccessInv, AccountInv, MailInv, AccessIsCurrent, MayEnter, Waiting
<1> QED
  BY <1>1, <1>2, VisitorStep, RequestStep, OutboxStep DEF AccessNext

\* The invariant holds in every reachable state.
THEOREM AccessReached == AccessSpec => []AccessInv
<1>1. AccessInv /\ [AccessNext]_accessVars => AccessInv'
  BY AccessStep
<1> QED
  BY AccessInitial, <1>1, PTL DEF AccessSpec

\* Types.
THEOREM AccessTypes == AccessSpec => []AccessTypeOK
<1>1. AccessInv => AccessTypeOK
  BY DEF AccessInv, AccountInv, Accounts, Visits, Doings, MailInv, MailRows, AccessTypeOK
<1> QED
  BY AccessReached, <1>1, PTL

\* Every session stands for the present password, and every link that can still be redeemed or
\* is still to be mailed was issued under it, for any number of browsers, requests and workers
\* whose checks, mails and answers are overtaken by a change of the password or a verification.
THEOREM NothingOutdatedCounts == AccessSpec => []AccessIsCurrent
<1>1. AccessInv => AccessIsCurrent
  BY DEF AccessInv
<1> QED
  BY AccessReached, <1>1, PTL

-----------------------------------------------------------------------------
(***************************************************************************)
(* Invitations: who joins was invited, by the latest link and once.        *)
(***************************************************************************)
Issuers == Members \cup {Owner}
Memberships == [link : 0..MaxLetters, by : {"owner", "admin"}, role : {"admin", "editor"}, latest : 0..MaxLetters]

LettersInv ==
  /\ InvitationsTypeOK
  /\ postman \in [Postmen -> [letter : 0..MaxLetters, lease : 0..MaxLetterAttempts, sent : {"no", "ok", "again", "over"}]]
  /\ \A i \in Link : Posted(i) => invite.there /\ ~invite.accepted /\ invite.link = i

\* A link that made a member is not the open invitation's, nor will a link be issued again.
MembersInv ==
  /\ joined \in Seq(Memberships)
  /\ \A n \in DOMAIN joined :
       /\ joined[n].link = joined[n].latest /\ RoleAllowed(joined[n].by, joined[n].role)
       /\ joined[n].link <= links /\ (invite.there /\ ~invite.accepted => joined[n].link # invite.link)
       /\ \A m \in DOMAIN joined : joined[m].link = joined[n].link => m = n

InvitationInv == LettersInv /\ MembersInv

LetterRows ==
  [state : {"none", "pending", "sending", "accepted", "failed", "cancelled"},
   attempts : 0..MaxLetterAttempts, leased : BOOLEAN, fresh : BOOLEAN]
InviteRows ==
  [there : BOOLEAN, role : {"admin", "editor"}, link : 0..MaxLetters,
   issuer : Members \cup {Owner, Nobody}, fresh : BOOLEAN, accepted : BOOLEAN]
OpenFor(i) == invite.there /\ ~invite.accepted /\ invite.link = i

LEMMA LetterBounds ==
  /\ MaxLetters \in Nat /\ MaxLetterAttempts \in Nat /\ 0 \in 0..MaxLetterAttempts /\ 0 \in 0..MaxLetters
  /\ Link \subseteq 0..MaxLetters /\ Unsent \in LetterRows /\ Unsent.state = "none"
<1>1. MaxLetters \in Nat /\ MaxLetterAttempts \in Nat /\ 0 \in 0..MaxLetterAttempts /\ 0 \in 0..MaxLetters
  BY InvitationAssumption
<1>2. Link \subseteq 0..MaxLetters
  BY <1>1 DEF Link
<1>3. Unsent \in LetterRows /\ Unsent.state = "none"
  BY <1>1 DEF Unsent, LetterRows
<1> QED
  BY <1>1, <1>2, <1>3

\* The invariant says this of each row.
LEMMA InviteTypes ==
  ASSUME InvitationInv
  PROVE  /\ letter \in [Link -> LetterRows] /\ invite \in InviteRows /\ invite.link <= links
         /\ links \in Nat /\ links <= MaxLetters /\ invite.link \in Nat
<1>1. links \in 0..MaxLetters /\ invite \in [there : BOOLEAN, role : {"admin", "editor"}, link : 0..links,
           issuer : Members \cup {Owner, Nobody}, fresh : BOOLEAN, accepted : BOOLEAN]
  BY DEF InvitationInv, LettersInv, InvitationsTypeOK
<1>2. links \in Nat /\ links <= MaxLetters /\ 0..links \subseteq 0..MaxLetters
  BY <1>1, LetterBounds
<1>3. invite \in InviteRows /\ invite.link <= links /\ invite.link \in Nat
  BY <1>1, <1>2 DEF InviteRows
<1> QED
  BY <1>2, <1>3 DEF InvitationInv, LettersInv, InvitationsTypeOK, LetterRows

\* A row whose mail is over.
LEMMA OverRow ==
  ASSUME NEW row \in LetterRows, NEW state \in {"pending", "accepted", "failed", "cancelled"}
  PROVE  Over(row, state) \in LetterRows /\ Over(row, state).state = state
BY DEF Over, LetterRows

\* cancelInvitationMail leaves nothing to be sent.
LEMMA Withdrawal ==
  ASSUME InvitationInv
  PROVE  /\ Withdrawn \in [Link -> LetterRows] /\ Superseded = Withdrawn
         /\ \A i \in Link : Withdrawn[i].state \notin {"pending", "sending"}
<1>1. ASSUME NEW i \in Link
      PROVE  Withdrawn[i] \in LetterRows /\ Withdrawn[i].state \notin {"pending", "sending"}
  <2>1. Withdrawn[i] = IF Posted(i) THEN Over(letter[i], "cancelled") ELSE letter[i]
    BY DEF Withdrawn
  <2>2. letter[i] \in LetterRows
    BY InviteTypes
  <2> QED
    BY <2>1, <2>2, OverRow DEF Posted
<1>2. DOMAIN Withdrawn = Link /\ Withdrawn = [i \in Link |-> Withdrawn[i]]
  BY DEF Withdrawn
<1> QED
  BY <1>1, <1>2 DEF Superseded

\* What a step must leave so: rows of their types, and mail only for the open link.
LEMMA LettersKept ==
  ASSUME InvitationInv, UNCHANGED <<rank, postman>>,
         links' \in 0..MaxLetters, invite' \in InviteRows, invite'.link <= links',
         letter' \in [Link -> LetterRows],
         \A i \in Link : letter'[i].state \in {"pending", "sending"} => OpenFor(i)'
  PROVE  LettersInv'
<1>1. links' \in Nat /\ invite'.link \in 0..links'
  BY LetterBounds DEF InviteRows
<1>2. invite' \in [there : BOOLEAN, role : {"admin", "editor"}, link : 0..links',
           issuer : Members \cup {Owner, Nobody}, fresh : BOOLEAN, accepted : BOOLEAN]
  BY <1>1 DEF InviteRows
<1> QED
  BY <1>2 DEF InvitationInv, LettersInv, InvitationsTypeOK, LetterRows, Posted, OpenFor

\* and links that made members stay behind.
LEMMA MembersKept ==
  ASSUME InvitationInv, UNCHANGED joined, links' \in Nat, links <= links', invite' \in InviteRows,
         invite'.there /\ ~invite'.accepted => (invite.there /\ ~invite.accepted /\ invite'.link = invite.link) \/ invite'.link > links
  PROVE  MembersInv'
<1>1. ASSUME NEW n \in DOMAIN joined PROVE joined[n].link \in Nat
  <2>1. joined \in Seq(Memberships)
    BY DEF InvitationInv, MembersInv
  <2>2. joined[n] \in Memberships
    BY <2>1
  <2>3. joined[n].link \in 0..MaxLetters
    BY <2>2 DEF Memberships
  <2> QED
    BY <2>3, LetterBounds
<1>2. links \in Nat /\ invite'.link \in Nat
  BY InviteTypes, LetterBounds DEF InviteRows
<1> QED
  BY <1>1, <1>2 DEF InvitationInv, MembersInv, RoleAllowed

-----------------------------------------------------------------------------
LEMMA InvitationsInitial == InvitationsInit => InvitationInv
<1> SUFFICES ASSUME InvitationsInit PROVE InvitationInv
  OBVIOUS
<1>1. InvitationsTypeOK
  <2>1. letter \in [Link -> LetterRows] /\ links = 0 /\ 0 \in 0..0
    BY LetterBounds DEF InvitationsInit
  <2> QED
    BY <2>1, LetterBounds DEF InvitationsInit, InvitationsTypeOK, LetterRows
<1>2. \A i \in Link : ~Posted(i)
  BY LetterBounds DEF InvitationsInit, Posted
<1>3. postman \in [Postmen -> [letter : 0..MaxLetters, lease : 0..MaxLetterAttempts, sent : {"no", "ok", "again", "over"}]]
  <2>1. Empty \in [letter : 0..MaxLetters, lease : 0..MaxLetterAttempts, sent : {"no", "ok", "again", "over"}]
    BY LetterBounds DEF Empty
  <2> QED
    BY <2>1 DEF InvitationsInit
<1>4. joined = <<>> /\ joined \in Seq(Memberships) /\ DOMAIN joined = {}
  BY DEF InvitationsInit
<1> QED
  BY <1>1, <1>2, <1>3, <1>4 DEF InvitationInv, LettersInv, MembersInv

\* A new link is issued; what was mailed for earlier ones is withdrawn or was never there.
LEMMA IssueStep ==
  ASSUME InvitationInv,
         NEW u \in Issuers, NEW role \in {"admin", "editor"}, NEW delivery \in {"manual", "email"},
         CreateInvitation(u, role, delivery) \/ ResendInvitation(u)
  PROVE  InvitationInv'
<1> DEFINE new == [Unsent EXCEPT !.state = "pending", !.fresh = TRUE]
<1>1. new \in LetterRows
  BY LetterBounds DEF LetterRows, Unsent
<1>2. links \in Nat /\ links' = links + 1 /\ links' \in Link /\ links' \in 0..MaxLetters
  BY InviteTypes, LetterBounds DEF CreateInvitation, ResendInvitation, Link
<1>3. /\ invite' \in InviteRows /\ invite'.link = links' /\ invite'.there /\ ~invite'.accepted
  <2>1. CASE CreateInvitation(u, role, delivery)
    BY <2>1, <1>2 DEF CreateInvitation, InviteRows, Issuers
  <2>2. CASE ResendInvitation(u)
    BY <2>2, <1>2, InviteTypes DEF ResendInvitation, InviteRows, Issuers
  <2> QED
    BY <2>1, <2>2
<1> HIDE DEF new
<1>4. letter' \in [Link -> LetterRows] /\ \A i \in Link : letter'[i].state \in {"pending", "sending"} => i = links'
  <2>1. CASE CreateInvitation(u, role, delivery)
    <3>1. letter \in [Link -> LetterRows] /\ \A i \in Link : letter[i].state \notin {"pending", "sending"}
      BY <2>1, InviteTypes DEF CreateInvitation, InvitationInv, LettersInv, Posted
    <3>2. letter' = letter \/ letter' = [letter EXCEPT ![links'] = new]
      BY <2>1 DEF CreateInvitation, new
    <3> QED
      BY <1>1, <1>2, <3>1, <3>2
  <2>2. CASE ResendInvitation(u)
    <3>1. letter' = [Withdrawn EXCEPT ![links'] = new]
      BY <2>2 DEF ResendInvitation, Superseded, new
    <3> QED
      BY <1>1, <1>2, <3>1, Withdrawal
  <2> QED
    BY <2>1, <2>2
<1>5. LettersInv'
  <2>1. UNCHANGED <<rank, postman>>
    BY DEF CreateInvitation, ResendInvitation
  <2> QED
    BY <1>2, <1>3, <1>4, <2>1, LettersKept DEF OpenFor
<1>6. MembersInv'
  <2>1. UNCHANGED joined
    BY DEF CreateInvitation, ResendInvitation
  <2> QED
    BY <1>2, <1>3, <2>1, MembersKept
<1> QED
  BY <1>5, <1>6 DEF InvitationInv

\* The row goes or its week is over, a role changes.
LEMMA OwnersStep ==
  ASSUME InvitationInv,
         ExpireInvitation \/ \E u \in Issuers : DeleteInvitation(u) \/ \E role \in {"none", "editor", "admin"} : ChangeRole(u, role)
  PROVE  InvitationInv'
<1>1. CASE ExpireInvitation
  <2>1. invite' = [invite EXCEPT !.fresh = FALSE] /\ letter' = [letter EXCEPT ![invite.link].fresh = FALSE]
        /\ UNCHANGED <<rank, links, postman, joined>>
    BY <1>1 DEF ExpireInvitation
  <2>2. /\ invite' \in InviteRows /\ invite'.link = invite.link /\ invite'.there = invite.there
        /\ invite'.accepted = invite.accepted
    BY <2>1, InviteTypes DEF InviteRows
  <2>3. letter' \in [Link -> LetterRows] /\ \A i \in Link : letter'[i].state = letter[i].state
    BY <2>1, InviteTypes DEF LetterRows
  <2>4. links' \in Nat /\ links' = links /\ links' \in 0..MaxLetters /\ invite'.link <= links'
    BY <2>1, <2>2, InviteTypes, LetterBounds
  <2>5. \A i \in Link : letter'[i].state \in {"pending", "sending"} => OpenFor(i)'
    BY <2>2, <2>3 DEF InvitationInv, LettersInv, Posted, OpenFor
  <2>6. LettersInv'
    BY <2>1, <2>2, <2>3, <2>4, <2>5, LettersKept
  <2>7. MembersInv'
    BY <2>1, <2>2, <2>4, MembersKept
  <2> QED
    BY <2>6, <2>7 DEF InvitationInv
<1>2. ASSUME NEW u \in Issuers, DeleteInvitation(u) PROVE InvitationInv'
  <2>1. invite' = [invite EXCEPT !.there = FALSE] /\ letter' = [i \in Link |-> Unsent]
        /\ UNCHANGED <<rank, links, postman, joined>>
    BY <1>2 DEF DeleteInvitation
  <2>2. invite' \in InviteRows /\ invite'.link = invite.link /\ ~invite'.there
    BY <2>1, InviteTypes DEF InviteRows
  <2>3. letter' \in [Link -> LetterRows] /\ \A i \in Link : letter'[i].state \notin {"pending", "sending"}
    BY <2>1, LetterBounds
  <2>4. links' \in Nat /\ links' = links /\ links' \in 0..MaxLetters /\ invite'.link <= links'
    BY <2>1, <2>2, InviteTypes, LetterBounds
  <2>6. LettersInv'
    BY <2>1, <2>2, <2>3, <2>4, LettersKept
  <2>7. MembersInv'
    BY <2>1, <2>2, <2>4, MembersKept
  <2> QED
    BY <2>6, <2>7 DEF InvitationInv
<1>3. ASSUME NEW u \in Issuers, NEW role \in {"none", "editor", "admin"}, ChangeRole(u, role) PROVE InvitationInv'
  <2>1. rank' \in [Members \cup {Owner} -> {"owner", "admin", "editor", "none"}] /\ UNCHANGED <<invite, links, letter, postman, guest, joined>>
    BY <1>3 DEF ChangeRole, InvitationInv, LettersInv, InvitationsTypeOK
  <2> QED
    BY <2>1 DEF InvitationInv, LettersInv, MembersInv, InvitationsTypeOK, Posted
<1> QED
  BY <1>1, <1>2, <1>3

\* Validity is decided after all waits: whoever joins comes by the link that is still open.
LEMMA GuestStep ==
  ASSUME InvitationInv, AcceptInvitation \/ \E i \in Link : LookUp(i)
  PROVE  InvitationInv'
<1>1. ASSUME NEW i \in Link, LookUp(i) PROVE InvitationInv'
  BY <1>1 DEF LookUp, InvitationInv, LettersInv, MembersInv, InvitationsTypeOK, Posted
<1>2. CASE AcceptInvitation /\ ~StillValid
  BY <1>2 DEF AcceptInvitation, InvitationInv, LettersInv, MembersInv, InvitationsTypeOK, Posted
<1>3. CASE AcceptInvitation /\ StillValid
  <2> DEFINE member == [link |-> guest.link, by |-> rank[invite.issuer], role |-> invite.role, latest |-> invite.link]
  <2>1. /\ invite' = [invite EXCEPT !.accepted = TRUE] /\ letter' = Withdrawn /\ joined' = joined \o <<member>>
        /\ UNCHANGED <<rank, links, postman>>
    BY <1>3 DEF AcceptInvitation
  <2>2. /\ invite.there /\ ~invite.accepted /\ guest.link = invite.link
        /\ RoleAllowed(rank[invite.issuer], invite.role)
    BY <1>3 DEF StillValid
  <2>3. /\ member \in Memberships /\ member.link = member.latest /\ member.link = invite.link
        /\ RoleAllowed(member.by, member.role)
    BY <2>2, InviteTypes DEF Memberships, InviteRows, RoleAllowed
  <2> HIDE DEF member
  <2>4. invite' \in InviteRows /\ invite'.link = invite.link /\ invite'.accepted
    BY <2>1, InviteTypes DEF InviteRows
  <2>5. links' \in Nat /\ links' = links /\ links' \in 0..MaxLetters /\ invite.link <= links
    BY <2>1, <2>4, InviteTypes, LetterBounds
  <2>6. LettersInv'
    BY <2>1, <2>4, <2>5, Withdrawal, LettersKept
  <2>7. /\ joined \in Seq(Memberships) /\ <<member>> \in Seq(Memberships)
        /\ Len(joined) \in Nat /\ DOMAIN joined = 1..Len(joined)
    BY <2>3 DEF InvitationInv, MembersInv
  <2>8. /\ joined' \in Seq(Memberships) /\ DOMAIN joined' = 1..(Len(joined) + 1)
        /\ \A n \in 1..Len(joined) : joined'[n] = joined[n]
        /\ joined'[Len(joined) + 1] = member
    <3>1. Len(<<member>>) = 1 /\ <<member>>[1] = member
      OBVIOUS
    <3>2. /\ joined' \in Seq(Memberships) /\ Len(joined') = Len(joined) + 1
          /\ \A n \in 1..(Len(joined) + 1) : joined'[n] = IF n <= Len(joined) THEN joined[n] ELSE <<member>>[n - Len(joined)]
      BY <2>1, <2>7, <3>1, ConcatProperties
    <3>3. (Len(joined) + 1) - Len(joined) = 1 /\ Len(joined) + 1 \in 1..(Len(joined) + 1) /\ ~(Len(joined) + 1 <= Len(joined))
          /\ \A n \in 1..Len(joined) : n \in 1..(Len(joined) + 1) /\ n <= Len(joined)
      BY <2>7
    <3> QED
      BY <3>1, <3>2, <3>3
  <2>9. \A n \in 1..Len(joined) : joined[n].link <= links /\ joined[n].link # invite.link
    BY <2>2, <2>7 DEF InvitationInv, MembersInv
  <2>10. MembersInv'
    <3>1. ASSUME NEW n \in DOMAIN joined'
          PROVE  /\ joined'[n].link = joined'[n].latest /\ RoleAllowed(joined'[n].by, joined'[n].role)
                 /\ joined'[n].link <= links
      <4>1. n \in 1..Len(joined) \/ n = Len(joined) + 1
        BY <2>7, <2>8
      <4>2. CASE n \in 1..Len(joined)
        BY <2>7, <2>8, <4>2 DEF InvitationInv, MembersInv
      <4>3. CASE n = Len(joined) + 1
        BY <2>3, <2>5, <2>8, <4>3
      <4> QED
        BY <4>1, <4>2, <4>3
    <3>2. ASSUME NEW n \in DOMAIN joined', NEW m \in DOMAIN joined', joined'[m].link = joined'[n].link
          PROVE  m = n
      <4>1. n \in 1..Len(joined) \/ n = Len(joined) + 1
        BY <2>7, <2>8
      <4>2. m \in 1..Len(joined) \/ m = Len(joined) + 1
        BY <2>7, <2>8
      <4>3. \A k, l \in 1..Len(joined) : joined[k].link = joined[l].link => k = l
        BY <2>7 DEF InvitationInv, MembersInv
      <4> QED
        BY <2>3, <2>8, <2>9, <3>2, <4>1, <4>2, <4>3
    <3> QED
      BY <2>1, <2>4, <2>8, <3>1, <3>2 DEF MembersInv, RoleAllowed
  <2> QED
    BY <2>6, <2>10 DEF InvitationInv
<1> QED
  BY <1>1, <1>2, <1>3

\* Steps of the outbox change one letter, or withdraw them; none that was over is sent again.
LEMMA OutboxKept ==
  ASSUME InvitationInv, UNCHANGED <<rank, invite, links, joined>>,
         postman' \in [Postmen -> [letter : 0..MaxLetters, lease : 0..MaxLetterAttempts, sent : {"no", "ok", "again", "over"}]],
         letter' \in [Link -> LetterRows],
         \A i \in Link : letter'[i].state \in {"pending", "sending"} => Posted(i)
  PROVE  InvitationInv'
<1>1. LettersInv'
  BY DEF InvitationInv, LettersInv, InvitationsTypeOK, LetterRows, Posted
<1>2. MembersInv'
  BY DEF InvitationInv, MembersInv
<1> QED
  BY <1>1, <1>2 DEF InvitationInv

LEMMA LetterStep ==
  ASSUME InvitationInv, NEW i \in Link, LapseLetter(i) \/ CleanLetter(i)
  PROVE  InvitationInv'
<1>1. letter \in [Link -> LetterRows] /\ letter[i] \in LetterRows /\ postman' = postman
  BY InviteTypes DEF LapseLetter, CleanLetter
<1>2. letter' \in [Link -> LetterRows] /\ \A j \in Link : letter'[j].state \in {"pending", "sending"} => Posted(j)
  <2>1. CASE LapseLetter(i)
    BY <1>1, <2>1 DEF LapseLetter, LetterRows, Posted
  <2>2. CASE CleanLetter(i)
    BY <1>1, <2>2, OverRow DEF CleanLetter, Posted
  <2> QED
    BY <2>1, <2>2
<1> QED
  BY <1>1, <1>2, OutboxKept DEF LapseLetter, CleanLetter, InvitationInv, LettersInv

LEMMA PostmanStep ==
  ASSUME InvitationInv, NEW p \in Postmen,
         FinishLetter(p) \/ StopPostman(p) \/ (\E i \in Link : ClaimLetter(p, i))
           \/ \E answer \in {"ok", "again", "over"} : SendLetter(p, answer)
  PROVE  InvitationInv'
<1> DEFINE Workers == [letter : 0..MaxLetters, lease : 0..MaxLetterAttempts, sent : {"no", "ok", "again", "over"}]
<1>1. postman \in [Postmen -> Workers] /\ letter \in [Link -> LetterRows]
  BY InviteTypes DEF InvitationInv, LettersInv
<1>2. Empty \in Workers
  BY LetterBounds DEF Empty
<1>3. CASE StopPostman(p) \/ \E answer \in {"ok", "again", "over"} : SendLetter(p, answer)
  <2>1. postman' \in [Postmen -> Workers]
    BY <1>1, <1>2, <1>3 DEF StopPostman, SendLetter
  <2>2. UNCHANGED <<rank, invite, links, joined, letter>>
    BY <1>3 DEF StopPostman, SendLetter
  <2> QED
    BY <1>1, <2>1, <2>2, OutboxKept DEF Posted
<1>4. ASSUME NEW i \in Link, ClaimLetter(p, i) PROVE InvitationInv'
  <2>1. letter[i] \in LetterRows /\ letter[i].attempts \in 0..MaxLetterAttempts /\ Posted(i)
        /\ UNCHANGED <<rank, invite, links, joined>>
    BY <1>1, <1>4 DEF LetterRows, ClaimLetter
  <2>2. CASE letter' = Withdrawn /\ UNCHANGED postman
    BY <1>1, <2>1, <2>2, Withdrawal, OutboxKept
  <2>3. CASE (\E state \in {"cancelled", "failed"} : letter' = [letter EXCEPT ![i] = Over(@, state)]) /\ UNCHANGED postman
    <3>1. PICK state \in {"cancelled", "failed"} : letter' = [letter EXCEPT ![i] = Over(letter[i], state)]
      BY <2>3
    <3>2. Over(letter[i], state) \in LetterRows /\ Over(letter[i], state).state = state
      BY <2>1, OverRow
    <3>3. letter' \in [Link -> LetterRows] /\ \A j \in Link : letter'[j].state \in {"pending", "sending"} => Posted(j)
      BY <1>1, <3>1, <3>2 DEF Posted
    <3> QED
      BY <1>1, <2>1, <2>3, <3>3, OutboxKept
  <2>4. CASE /\ ~(letter[i].attempts >= MaxLetterAttempts)
             /\ letter' = [letter EXCEPT ![i].state = "sending", ![i].attempts = @ + 1, ![i].leased = TRUE]
             /\ postman' = [postman EXCEPT ![p] = [letter |-> i, lease |-> letter'[i].attempts, sent |-> "no"]]
    <3> DEFINE row == [letter[i] EXCEPT !.state = "sending", !.attempts = @ + 1, !.leased = TRUE]
    <3>1. letter[i].attempts + 1 \in 0..MaxLetterAttempts
      BY <2>1, <2>4, LetterBounds
    <3>2. row \in LetterRows /\ row.attempts = letter[i].attempts + 1
      BY <2>1, <3>1 DEF LetterRows
    <3>3. letter' = [letter EXCEPT ![i] = row]
      BY <1>1, <2>1, <2>4 DEF LetterRows
    <3> HIDE DEF row
    <3>4. letter' \in [Link -> LetterRows] /\ letter'[i] = row /\ \A j \in Link : j # i => letter'[j] = letter[j]
      BY <1>1, <3>2, <3>3
    <3>5. i \in 0..MaxLetters /\ letter'[i].attempts \in 0..MaxLetterAttempts
      BY <3>1, <3>2, <3>4, LetterBounds
    <3>6. postman' \in [Postmen -> Workers]
      <4>1. [letter |-> i, lease |-> letter'[i].attempts, sent |-> "no"] \in Workers
        BY <3>5
      <4> QED
        BY <1>1, <2>4, <4>1
    <3>7. \A j \in Link : letter'[j].state \in {"pending", "sending"} => Posted(j)
      BY <2>1, <3>4 DEF Posted
    <3> QED
      BY <2>1, <3>4, <3>6, <3>7, OutboxKept
  <2>5. Verdict(i) \in {"unauthorized", "void", "good"}
    BY DEF Verdict
  <2> QED
    BY <1>4, <2>2, <2>3, <2>4, <2>5 DEF ClaimLetter
<1>5. CASE FinishLetter(p)
  <2> DEFINE i == postman[p].letter
             mine == invite.there /\ letter[i].state = "sending" /\ letter[i].leased /\ letter[i].attempts = postman[p].lease
  <2>1. postman' \in [Postmen -> Workers] /\ UNCHANGED <<rank, invite, links, joined>>
    BY <1>1, <1>2, <1>5 DEF FinishLetter
  <2>2. \/ letter' = letter \/ letter' = Withdrawn
        \/ mine /\ \E state \in {"pending", "accepted", "failed", "cancelled"} : letter' = [letter EXCEPT ![i] = Over(letter[i], state)]
    BY <1>5 DEF FinishLetter
  <2>3. CASE letter' = letter \/ letter' = Withdrawn
    BY <1>1, <2>1, <2>3, Withdrawal, OutboxKept DEF Posted
  <2>4. ASSUME mine, NEW state \in {"pending", "accepted", "failed", "cancelled"}, letter' = [letter EXCEPT ![i] = Over(letter[i], state)]
        PROVE  InvitationInv'
    <3>1. CASE i \in Link
      <4>1. Over(letter[i], state) \in LetterRows /\ Posted(i)
        BY <1>1, <2>4, <3>1, OverRow DEF Posted
      <4>2. letter' \in [Link -> LetterRows] /\ \A j \in Link : letter'[j].state \in {"pending", "sending"} => Posted(j)
        BY <1>1, <2>4, <3>1, <4>1 DEF Posted
      <4> QED
        BY <2>1, <4>2, OutboxKept
    <3>2. CASE i \notin Link
      <4>1. letter' = letter
        BY <1>1, <2>4, <3>2
      <4> QED
        BY <1>1, <2>1, <4>1, OutboxKept DEF Posted
    <3> QED
      BY <3>1, <3>2
  <2> QED
    BY <2>2, <2>3, <2>4
<1> QED
  BY <1>3, <1>4, <1>5

LEMMA InvitationsStep == InvitationInv /\ [InvitationsNext]_inviteVars => InvitationInv'
<1> SUFFICES ASSUME InvitationInv, [InvitationsNext]_inviteVars PROVE InvitationInv'
  OBVIOUS
<1>1. CASE UNCHANGED inviteVars
  BY <1>1 DEF inviteVars, InvitationInv, LettersInv, MembersInv, InvitationsTypeOK, Posted
<1>2. CASE InvitationsNext
  BY <1>2, IssueStep, OwnersStep, GuestStep, LetterStep, PostmanStep DEF InvitationsNext, Issuers
<1> QED
  BY <1>1, <1>2

\* Every state of the invitation and its mail satisfies the inductive invariant.
THEOREM InvitationsReached == InvitationsSpec => []InvitationInv
<1> QED
  BY InvitationsInitial, InvitationsStep, PTL DEF InvitationsSpec

\* Types: attempts stay within the budget, the invitation's link among those issued.
THEOREM InvitationsTypes == InvitationsSpec => []InvitationsTypeOK
<1>1. InvitationInv => InvitationsTypeOK
  BY DEF InvitationInv, LettersInv
<1> QED
  BY <1>1, InvitationsReached, PTL

\* "Validity is decided after all waits" (invitations.ts): only the open invitation's latest link
\* is mailed, and it makes a member once, by its issuer's authority at that moment.
THEOREM MembersAreInvitedByRight == InvitationsSpec => []InvitedByRight
<1>1. InvitationInv => InvitedByRight
  BY DEF InvitationInv, LettersInv, MembersInv, InvitedByRight
<1> QED
  BY <1>1, InvitationsReached, PTL

-----------------------------------------------------------------------------
(***************************************************************************)
(* HostedWorker: what is due or in process was admitted.                   *)
(***************************************************************************)
LanePlaces == {"off", "trying", "working", "finishing", "progress", "nothing", "stopped", "failed"}
BusyPlaces == {"working", "finishing"}
HostRows == [ready : BOOLEAN, woken : BOOLEAN, draining : BOOLEAN]
BusyIn(l) == {h \in Hosts : Busy(h, l)}

\* Work in process was due once, so what is due and in process in a lane was admitted.
Bounded(l) == IsFiniteSet(BusyIn(l)) /\ due[l] + Cardinality(BusyIn(l)) <= arrived

HostOK(h) ==
  /\ \A l \in Lanes : lane[h][l] # "off" <=> host[h].draining
  /\ host[h].draining => host[h].ready

WorkerInv ==
  /\ due \in [Lanes -> Nat] /\ arrived \in 0..MaxArrivals /\ setbacks \in 0..MaxSetbacks
  /\ host \in [Hosts -> HostRows] /\ lane \in [Hosts -> [Lanes -> LanePlaces]]
  /\ \A h \in Hosts : HostOK(h)
  /\ \A l \in Lanes : Bounded(l)

LEMMA WorkerInitial == WorkerInit => WorkerInv
<1> SUFFICES ASSUME WorkerInit PROVE WorkerInv
  OBVIOUS
<1>1. Off \in [Lanes -> LanePlaces] /\ Asleep \in HostRows /\ \A l \in Lanes : Off[l] = "off"
  BY DEF Off, Asleep, LanePlaces, HostRows
<1>2. /\ due \in [Lanes -> Nat] /\ arrived \in 0..MaxArrivals /\ setbacks \in 0..MaxSetbacks
      /\ host \in [Hosts -> HostRows] /\ lane \in [Hosts -> [Lanes -> LanePlaces]]
  BY <1>1, WorkerAssumption DEF WorkerInit
<1>3. ASSUME NEW h \in Hosts PROVE HostOK(h)
  BY <1>1 DEF WorkerInit, HostOK, Asleep
<1>4. ASSUME NEW l \in Lanes PROVE Bounded(l)
  <2>1. BusyIn(l) = {}
    BY <1>1 DEF WorkerInit, BusyIn, Busy
  <2>2. IsFiniteSet({}) /\ Cardinality({}) = 0
    BY FS_EmptySet
  <2>3. due[l] = 0 /\ arrived = 0
    BY DEF WorkerInit
  <2> QED
    BY <2>1, <2>2, <2>3 DEF Bounded
<1> QED
  BY <1>2, <1>3, <1>4 DEF WorkerInv

\* A host's lanes move, and no unit of work is made of nothing.
LEMMA LanesMove ==
  ASSUME WorkerInv, NEW h \in Hosts, NEW row \in [Lanes -> LanePlaces], lane' = [lane EXCEPT ![h] = row],
         NEW own \in HostRows, host' = [host EXCEPT ![h] = own],
         \A l \in Lanes : row[l] # "off" <=> own.draining, own.draining => own.ready,
         arrived' = arrived, setbacks' \in 0..MaxSetbacks, due' \in [Lanes -> Nat],
         \A l \in Lanes : due'[l] + (IF row[l] \in BusyPlaces THEN 1 ELSE 0)
                            <= due[l] + (IF lane[h][l] \in BusyPlaces THEN 1 ELSE 0)
  PROVE  WorkerInv'
<1>1. /\ host' \in [Hosts -> HostRows] /\ lane' \in [Hosts -> [Lanes -> LanePlaces]]
      /\ host'[h] = own /\ lane'[h] = row /\ \A g \in Hosts : g # h => host'[g] = host[g] /\ lane'[g] = lane[g]
  BY DEF WorkerInv
<1>2. ASSUME NEW g \in Hosts PROVE HostOK(g)'
  BY <1>1 DEF WorkerInv, HostOK
<1>3. ASSUME NEW l \in Lanes PROVE Bounded(l)'
  <2> DEFINE others == BusyIn(l) \ {h}
  <2>1. IsFiniteSet(BusyIn(l)) /\ due[l] + Cardinality(BusyIn(l)) <= arrived /\ arrived \in Nat /\ due[l] \in Nat
    BY DEF WorkerInv, Bounded
  <2>2. Cardinality(BusyIn(l)) \in Nat
    BY <2>1, FS_CardinalityType
  <2>3. IsFiniteSet(others) /\ Cardinality(others) = Cardinality(BusyIn(l)) - (IF lane[h][l] \in BusyPlaces THEN 1 ELSE 0)
    <3>1. h \in BusyIn(l) <=> lane[h][l] \in BusyPlaces
      BY DEF BusyIn, Busy, BusyPlaces
    <3>2. IsFiniteSet(others) /\ Cardinality(others) = IF h \in BusyIn(l) THEN Cardinality(BusyIn(l)) - 1 ELSE Cardinality(BusyIn(l))
      BY <2>1, FS_RemoveElement
    <3> HIDE DEF others
    <3> QED
      BY <2>2, <3>1, <3>2
  <2>4. BusyIn(l)' = IF row[l] \in BusyPlaces THEN others \cup {h} ELSE others
    BY <1>1 DEF BusyIn, Busy, BusyPlaces
  <2>5. h \notin others
    OBVIOUS
  <2> HIDE DEF others
  <2>6. Cardinality(others) \in Nat
    BY <2>3, FS_CardinalityType
  <2>7. IsFiniteSet(others \cup {h}) /\ Cardinality(others \cup {h}) = Cardinality(others) + 1
    BY <2>3, <2>5, FS_AddElement
  <2>8. IsFiniteSet(BusyIn(l)') /\ Cardinality(BusyIn(l)') = Cardinality(others) + (IF row[l] \in BusyPlaces THEN 1 ELSE 0)
    BY <2>3, <2>4, <2>6, <2>7
  <2>9. due'[l] + Cardinality(BusyIn(l)') <= arrived
    <3>1. due'[l] \in Nat
      OBVIOUS
    <3>2. due'[l] + (IF row[l] \in BusyPlaces THEN 1 ELSE 0) <= due[l] + (IF lane[h][l] \in BusyPlaces THEN 1 ELSE 0)
      OBVIOUS
    <3> QED
      BY <2>1, <2>2, <2>3, <2>6, <2>8, <3>1, <3>2
  <2> QED
    BY <2>8, <2>9 DEF Bounded
<1> QED
  BY <1>1, <1>2, <1>3 DEF WorkerInv

\* What the lanes of no host are changed by.
LEMMA LanesRest ==
  ASSUME WorkerInv, lane' = lane, NEW l \in Lanes
  PROVE  BusyIn(l)' = BusyIn(l)
BY DEF BusyIn, Busy

LEMMA AdmitStep == ASSUME WorkerInv, NEW l \in Lanes, Admit(l) PROVE WorkerInv'
<1>1. arrived < MaxArrivals /\ arrived' = arrived + 1 /\ due' = [due EXCEPT ![l] = @ + 1] /\ UNCHANGED <<host, lane, setbacks>>
  BY DEF Admit
<1>2. arrived \in Nat /\ arrived' \in 0..MaxArrivals /\ MaxArrivals \in Nat
  BY <1>1, WorkerAssumption DEF WorkerInv
<1>3. due' \in [Lanes -> Nat] /\ \A k \in Lanes : due'[k] <= due[k] + 1
  BY <1>1 DEF WorkerInv
<1>4. ASSUME NEW h \in Hosts PROVE HostOK(h)'
  BY <1>1 DEF WorkerInv, HostOK
<1>5. ASSUME NEW k \in Lanes PROVE Bounded(k)'
  <2>1. BusyIn(k)' = BusyIn(k)
    BY <1>1, LanesRest
  <2>2. IsFiniteSet(BusyIn(k)) /\ due[k] + Cardinality(BusyIn(k)) <= arrived /\ due[k] \in Nat
    BY DEF WorkerInv, Bounded
  <2>3. Cardinality(BusyIn(k)) \in Nat
    BY <2>2, FS_CardinalityType
  <2>4. due'[k] \in Nat /\ due'[k] <= due[k] + 1
    BY <1>3
  <2>5. due'[k] + Cardinality(BusyIn(k)) <= arrived'
    BY <1>1, <1>2, <2>2, <2>3, <2>4
  <2> QED
    BY <2>1, <2>2, <2>5 DEF Bounded
<1> QED
  BY <1>1, <1>2, <1>3, <1>4, <1>5 DEF WorkerInv

\* A host changes and its lanes do not.
LEMMA HostMoves ==
  ASSUME WorkerInv, NEW h \in Hosts, NEW own \in HostRows, host' = [host EXCEPT ![h] = own],
         own.draining = host[h].draining, own.draining => own.ready,
         UNCHANGED <<due, arrived, lane>>, setbacks' \in 0..MaxSetbacks
  PROVE  WorkerInv'
<1>1. host' \in [Hosts -> HostRows] /\ host'[h] = own /\ \A g \in Hosts : g # h => host'[g] = host[g]
  BY DEF WorkerInv
<1>2. ASSUME NEW g \in Hosts PROVE HostOK(g)'
  BY <1>1 DEF WorkerInv, HostOK
<1>3. ASSUME NEW l \in Lanes PROVE Bounded(l)'
  BY LanesRest DEF WorkerInv, Bounded
<1> QED
  BY <1>1, <1>2, <1>3 DEF WorkerInv

LEMMA HostStep ==
  ASSUME WorkerInv, NEW h \in Hosts, Wake(h) \/ Initialize(h) \/ StartDrain(h) \/ EndDrain(h) \/ StopHost(h)
  PROVE  WorkerInv'
<1>1. host[h] \in HostRows /\ HostOK(h) /\ lane[h] \in [Lanes -> LanePlaces] /\ setbacks \in 0..MaxSetbacks /\ MaxSetbacks \in Nat
  BY WorkerAssumption DEF WorkerInv
<1>2. CASE Wake(h)
  <2> DEFINE own == [host[h] EXCEPT !.woken = TRUE]
  <2>1. own \in HostRows /\ own.draining = host[h].draining /\ own.ready = host[h].ready
    BY <1>1 DEF HostRows
  <2>2. host' = [host EXCEPT ![h] = own] /\ UNCHANGED <<due, arrived, lane, setbacks>>
    BY <1>2 DEF Wake
  <2> HIDE DEF own
  <2> QED
    BY <1>1, <2>1, <2>2, HostMoves DEF HostOK
<1>3. CASE Initialize(h)
  <2>1. UNCHANGED <<due, arrived, lane>>
    BY <1>3 DEF Initialize
  <2>2. CASE host' = [host EXCEPT ![h].ready = TRUE] /\ UNCHANGED setbacks
    <3> DEFINE own == [host[h] EXCEPT !.ready = TRUE]
    <3>1. own \in HostRows /\ own.draining = host[h].draining /\ own.ready = TRUE
      BY <1>1 DEF HostRows
    <3>2. host' = [host EXCEPT ![h] = own]
      BY <2>2
    <3> HIDE DEF own
    <3> QED
      BY <1>1, <2>1, <2>2, <3>1, <3>2, HostMoves
  <2>3. CASE setbacks < MaxSetbacks /\ setbacks' = setbacks + 1 /\ host' = [host EXCEPT ![h].woken = FALSE]
    <3> DEFINE own == [host[h] EXCEPT !.woken = FALSE]
    <3>1. own \in HostRows /\ own.draining = host[h].draining /\ own.ready = host[h].ready
      BY <1>1 DEF HostRows
    <3>2. host' = [host EXCEPT ![h] = own]
      BY <2>3
    <3>3. setbacks' \in 0..MaxSetbacks
      BY <1>1, <2>3
    <3> HIDE DEF own
    <3> QED
      BY <1>1, <2>1, <3>1, <3>2, <3>3, HostMoves DEF HostOK
  <2> QED
    BY <1>3, <2>2, <2>3 DEF Initialize
<1>4. CASE StartDrain(h)
  <2> DEFINE own == [host[h] EXCEPT !.woken = FALSE, !.draining = TRUE]
             row == IF host[h].draining THEN lane[h] ELSE [l \in Lanes |-> "trying"]
  <2>1. host[h].ready /\ host' = [host EXCEPT ![h] = own] /\ UNCHANGED <<due, arrived, setbacks>>
    BY <1>4 DEF StartDrain
  <2>2. own \in HostRows /\ own.draining = TRUE /\ own.ready = TRUE
    BY <1>1, <2>1 DEF HostRows
  <2>3. row \in [Lanes -> LanePlaces]
    BY <1>1 DEF LanePlaces
  <2>4. lane' = [lane EXCEPT ![h] = row]
    <3>1. lane = [lane EXCEPT ![h] = lane[h]]
      BY DEF WorkerInv
    <3> QED
      BY <1>4, <3>1 DEF StartDrain
  <2>5. \A l \in Lanes : row[l] # "off" /\ (row[l] \in BusyPlaces => lane[h][l] \in BusyPlaces)
    BY <1>1 DEF HostOK, BusyPlaces
  <2>6. due' \in [Lanes -> Nat] /\ \A l \in Lanes : due'[l] = due[l] /\ due[l] \in Nat
    BY <2>1 DEF WorkerInv
  <2> HIDE DEF own, row
  <2>7. \A l \in Lanes : due'[l] + (IF row[l] \in BusyPlaces THEN 1 ELSE 0) <= due[l] + (IF lane[h][l] \in BusyPlaces THEN 1 ELSE 0)
    BY <2>5, <2>6
  <2>8. setbacks' \in 0..MaxSetbacks /\ arrived' = arrived
    BY <1>1, <2>1
  <2>9. (\A l \in Lanes : row[l] # "off" <=> own.draining) /\ (own.draining => own.ready)
    BY <2>2, <2>5
  <2> QED
    BY <2>1, <2>2, <2>3, <2>4, <2>6, <2>7, <2>8, <2>9, LanesMove
<1>5. CASE EndDrain(h)
  <2> DEFINE own == [host[h] EXCEPT !.draining = FALSE]
  <2>1. host' = [host EXCEPT ![h] = own] /\ lane' = [lane EXCEPT ![h] = Off] /\ UNCHANGED <<due, arrived, setbacks>>
    BY <1>5 DEF EndDrain, Cleared
  <2>2. own \in HostRows /\ own.draining = FALSE
    BY <1>1 DEF HostRows
  <2>3. Off \in [Lanes -> LanePlaces] /\ \A l \in Lanes : Off[l] = "off" /\ Off[l] \notin BusyPlaces
    BY DEF Off, LanePlaces, BusyPlaces
  <2>4. due' \in [Lanes -> Nat] /\ \A l \in Lanes : due'[l] = due[l] /\ due[l] \in Nat
    BY <2>1 DEF WorkerInv
  <2> HIDE DEF own
  <2>5. \A l \in Lanes : due'[l] + (IF Off[l] \in BusyPlaces THEN 1 ELSE 0) <= due[l] + (IF lane[h][l] \in BusyPlaces THEN 1 ELSE 0)
    BY <2>3, <2>4
  <2>6. setbacks' \in 0..MaxSetbacks /\ arrived' = arrived
    BY <1>1, <2>1
  <2> QED
    BY <2>1, <2>2, <2>3, <2>4, <2>5, <2>6, LanesMove
<1>6. CASE StopHost(h)
  <2>1. /\ host' = [host EXCEPT ![h] = Asleep] /\ lane' = [lane EXCEPT ![h] = Off] /\ arrived' = arrived
        /\ due' = [l \in Lanes |-> due[l] + IF Busy(h, l) THEN 1 ELSE 0] /\ setbacks' \in 0..MaxSetbacks
    BY <1>1, <1>6 DEF StopHost
  <2>2. Asleep \in HostRows /\ Asleep.draining = FALSE
    BY DEF HostRows, Asleep
  <2>3. Off \in [Lanes -> LanePlaces] /\ \A l \in Lanes : Off[l] = "off" /\ Off[l] \notin BusyPlaces
    BY DEF Off, LanePlaces, BusyPlaces
  <2>4. \A l \in Lanes : due'[l] = due[l] + (IF lane[h][l] \in BusyPlaces THEN 1 ELSE 0) /\ due[l] \in Nat
    BY <2>1 DEF WorkerInv, Busy, BusyPlaces
  <2>5. due' \in [Lanes -> Nat]
    BY <2>1, <2>4
  <2>6. \A l \in Lanes : due'[l] + (IF Off[l] \in BusyPlaces THEN 1 ELSE 0) <= due[l] + (IF lane[h][l] \in BusyPlaces THEN 1 ELSE 0)
    BY <2>3, <2>4
  <2> QED
    BY <2>1, <2>2, <2>3, <2>5, <2>6, LanesMove
<1> QED
  BY <1>2, <1>3, <1>4, <1>5, <1>6

\* The lanes of a draining host.
LEMMA DrainStep ==
  ASSUME WorkerInv, NEW h \in Hosts,
         NextRound(h) \/ OutOfTime(h) \/ \E l \in Lanes : LaneMoves(h, l) \/ Throws(h, l)
  PROVE  WorkerInv'
<1>1. /\ host[h] \in HostRows /\ HostOK(h) /\ lane[h] \in [Lanes -> LanePlaces] /\ host = [host EXCEPT ![h] = host[h]]
      /\ setbacks \in 0..MaxSetbacks /\ MaxSetbacks \in Nat /\ due \in [Lanes -> Nat]
  BY WorkerAssumption DEF WorkerInv
\* All that is left to show of a step that leaves the hosts alone.
<1>2. ASSUME NEW row \in [Lanes -> LanePlaces], lane' = [lane EXCEPT ![h] = row], UNCHANGED <<host, arrived>>,
             setbacks' \in 0..MaxSetbacks, due' \in [Lanes -> Nat], \A l \in Lanes : row[l] # "off" <=> host[h].draining,
             \A l \in Lanes : due'[l] + (IF row[l] \in BusyPlaces THEN 1 ELSE 0)
                                <= due[l] + (IF lane[h][l] \in BusyPlaces THEN 1 ELSE 0)
      PROVE  WorkerInv'
  <2>1. PICK own \in HostRows : own = host[h]
    BY <1>1
  <2>2. host' = [host EXCEPT ![h] = own] /\ (own.draining => own.ready) /\ \A l \in Lanes : row[l] # "off" <=> own.draining
    BY <1>1, <1>2, <2>1 DEF HostOK
  <2>3. arrived' = arrived
    BY <1>2
  <2> QED
    BY <1>2, <2>1, <2>2, <2>3, LanesMove
\* A step of one lane.
<1>3. ASSUME NEW l \in Lanes, NEW place \in LanePlaces \ {"off"}, LaneStep(h, l, place), lane[h][l] # "off",
             UNCHANGED <<host, arrived>>, setbacks' \in 0..MaxSetbacks, NEW units \in Nat, due' = [due EXCEPT ![l] = units],
             units + (IF place \in BusyPlaces THEN 1 ELSE 0) <= due[l] + (IF lane[h][l] \in BusyPlaces THEN 1 ELSE 0)
      PROVE  WorkerInv'
  <2>1. PICK row : row = [lane[h] EXCEPT ![l] = place]
    OBVIOUS
  <2>2. row \in [Lanes -> LanePlaces] /\ row[l] = place /\ \A k \in Lanes : k # l => row[k] = lane[h][k]
    BY <1>1, <2>1
  <2>3. lane' = [lane EXCEPT ![h] = row]
    BY <1>3, <2>1 DEF LaneStep
  <2>4. due' \in [Lanes -> Nat] /\ due'[l] = units /\ \A k \in Lanes : k # l => due'[k] = due[k]
    BY <1>1, <1>3
  <2>5. \A k \in Lanes : row[k] # "off" <=> host[h].draining
    BY <1>1, <1>3, <2>2 DEF HostOK
  <2>6. \A k \in Lanes : due'[k] + (IF row[k] \in BusyPlaces THEN 1 ELSE 0) <= due[k] + (IF lane[h][k] \in BusyPlaces THEN 1 ELSE 0)
    <3>1. \A k \in Lanes : due[k] \in Nat
      BY <1>1
    <3> QED
      BY <1>3, <2>2, <2>4, <3>1
  <2> QED
    BY <1>2, <1>3, <2>2, <2>3, <2>4, <2>5, <2>6
<1>4. CASE NextRound(h)
  <2> DEFINE row == [l \in Lanes |->
               IF l \notin Extraction \/ lane[h][l] = "failed" THEN lane[h][l]
               ELSE IF \E m \in Extraction : lane[h][m] = "progress" THEN "trying" ELSE "stopped"]
  <2>1. host[h].draining /\ lane' = [lane EXCEPT ![h] = row] /\ UNCHANGED <<due, arrived, host, setbacks>>
    BY <1>4 DEF NextRound
  <2>2. \A l \in Lanes : row[l] \in LanePlaces /\ row[l] # "off" /\ (row[l] \in BusyPlaces => lane[h][l] \in BusyPlaces)
    BY <1>1, <2>1 DEF HostOK, LanePlaces, BusyPlaces
  <2>3. row \in [Lanes -> LanePlaces]
    BY <2>2
  <2> HIDE DEF row
  <2>4. \A l \in Lanes : due'[l] + (IF row[l] \in BusyPlaces THEN 1 ELSE 0) <= due[l] + (IF lane[h][l] \in BusyPlaces THEN 1 ELSE 0)
    BY <1>1, <2>1, <2>2
  <2> QED
    BY <1>1, <1>2, <2>1, <2>2, <2>3, <2>4
<1>5. CASE OutOfTime(h)
  <2> DEFINE row == [l \in Lanes |-> IF Busy(h, l) THEN "finishing" ELSE "stopped"]
  <2>1. host[h].draining /\ lane' = [lane EXCEPT ![h] = row] /\ UNCHANGED <<due, arrived, host>> /\ setbacks' \in 0..MaxSetbacks
    BY <1>1, <1>5 DEF OutOfTime
  <2>2. row \in [Lanes -> LanePlaces] /\ \A l \in Lanes : row[l] # "off" /\ (row[l] \in BusyPlaces => lane[h][l] \in BusyPlaces)
    BY DEF LanePlaces, BusyPlaces, Busy
  <2> HIDE DEF row
  <2>3. \A l \in Lanes : due'[l] + (IF row[l] \in BusyPlaces THEN 1 ELSE 0) <= due[l] + (IF lane[h][l] \in BusyPlaces THEN 1 ELSE 0)
    BY <1>1, <2>1, <2>2
  <2> QED
    BY <1>1, <1>2, <2>1, <2>2, <2>3
<1>6. ASSUME NEW l \in Lanes, Try(h, l) PROVE WorkerInv'
  <2>1. lane[h][l] = "trying" /\ UNCHANGED <<arrived, host, setbacks>> /\ setbacks' \in 0..MaxSetbacks /\ due[l] \in Nat
    BY <1>1, <1>6 DEF Try
  <2>2. CASE MayClaim(l)
    <3>1. due' = [due EXCEPT ![l] = due[l] - 1] /\ LaneStep(h, l, "working") /\ due[l] - 1 \in Nat
      BY <1>6, <2>1, <2>2 DEF Try, MayClaim
    <3>2. "working" \in LanePlaces \ {"off"} /\ lane[h][l] # "off"
      BY <2>1 DEF LanePlaces
    <3>3. (due[l] - 1) + (IF "working" \in BusyPlaces THEN 1 ELSE 0) <= due[l] + (IF lane[h][l] \in BusyPlaces THEN 1 ELSE 0)
      BY <2>1, <3>1 DEF BusyPlaces
    <3> QED
      BY <1>3, <2>1, <3>1, <3>2, <3>3
  <2>3. CASE ~MayClaim(l)
    <3>1. due' = [due EXCEPT ![l] = due[l]]
      BY <1>1, <1>6, <2>3 DEF Try
    <3>2. PICK place \in {"nothing", "stopped"} : LaneStep(h, l, place)
      BY <1>6, <2>3 DEF Try
    <3>3. place \in LanePlaces \ {"off"} /\ lane[h][l] # "off"
      BY <2>1, <3>2 DEF LanePlaces, BusyPlaces
    <3>4. due[l] + (IF place \in BusyPlaces THEN 1 ELSE 0) <= due[l] + (IF lane[h][l] \in BusyPlaces THEN 1 ELSE 0)
      BY <2>1, <3>2 DEF BusyPlaces
    <3> QED
      BY <1>3, <2>1, <3>1, <3>2, <3>3, <3>4
  <2> QED
    BY <2>2, <2>3
<1>7. ASSUME NEW l \in Lanes, Worked(h, l) PROVE WorkerInv'
  <2>1. lane[h][l] \in BusyPlaces /\ UNCHANGED <<arrived, host>> /\ setbacks' \in 0..MaxSetbacks /\ due[l] \in Nat
        /\ due' = [due EXCEPT ![l] = due[l]]
    BY <1>1, <1>7 DEF Worked, BusyPlaces
  <2>2. PICK place \in {"progress", "trying", "stopped"} : LaneStep(h, l, place)
    BY <1>7 DEF Worked
  <2>3. place \in LanePlaces \ {"off"} /\ lane[h][l] # "off"
    BY <2>1, <2>2 DEF LanePlaces, BusyPlaces
  <2>4. due[l] + (IF place \in BusyPlaces THEN 1 ELSE 0) <= due[l] + (IF lane[h][l] \in BusyPlaces THEN 1 ELSE 0)
    BY <2>1, <2>2 DEF BusyPlaces
  <2> QED
    BY <1>3, <2>1, <2>2, <2>3, <2>4
<1>8. ASSUME NEW l \in Lanes, Throws(h, l) PROVE WorkerInv'
  <2>1. /\ lane[h][l] # "off" /\ UNCHANGED <<arrived, host>> /\ setbacks' \in 0..MaxSetbacks /\ due[l] \in Nat
        /\ LaneStep(h, l, "failed")
    BY <1>1, <1>8 DEF Throws, Busy
  <2>2. CASE Busy(h, l)
    <3>1. due' = [due EXCEPT ![l] = due[l] + 1] /\ lane[h][l] \in BusyPlaces /\ due[l] + 1 \in Nat
      BY <1>8, <2>1, <2>2 DEF Throws, Busy, BusyPlaces
    <3>2. "failed" \in LanePlaces \ {"off"} /\ lane[h][l] # "off"
      BY <2>1, <3>1 DEF LanePlaces, BusyPlaces
    <3>3. (due[l] + 1) + (IF "failed" \in BusyPlaces THEN 1 ELSE 0) <= due[l] + (IF lane[h][l] \in BusyPlaces THEN 1 ELSE 0)
      BY <2>1, <3>1 DEF BusyPlaces
    <3> QED
      BY <1>3, <2>1, <3>1, <3>2, <3>3
  <2>3. CASE ~Busy(h, l)
    <3>1. due' = [due EXCEPT ![l] = due[l]]
      BY <1>1, <1>8, <2>3 DEF Throws
    <3>2. "failed" \in LanePlaces \ {"off"} /\ lane[h][l] # "off"
      BY <2>1, <3>1 DEF LanePlaces, BusyPlaces
    <3>3. due[l] + (IF "failed" \in BusyPlaces THEN 1 ELSE 0) <= due[l] + (IF lane[h][l] \in BusyPlaces THEN 1 ELSE 0)
      BY <2>1, <3>1 DEF BusyPlaces
    <3> QED
      BY <1>3, <2>1, <3>1, <3>2, <3>3
  <2> QED
    BY <2>2, <2>3
<1> QED
  BY <1>4, <1>5, <1>6, <1>7, <1>8 DEF LaneMoves

LEMMA WorkerStep == WorkerInv /\ [WorkerNext]_workerVars => WorkerInv'
<1> SUFFICES ASSUME WorkerInv, [WorkerNext]_workerVars PROVE WorkerInv'
  OBVIOUS
<1>1. CASE UNCHANGED workerVars
  <2>1. UNCHANGED <<due, arrived, host, lane, setbacks>>
    BY <1>1 DEF workerVars
  <2>2. ASSUME NEW h \in Hosts PROVE HostOK(h)'
    BY <2>1 DEF WorkerInv, HostOK
  <2>3. ASSUME NEW l \in Lanes PROVE Bounded(l)'
    BY <2>1, LanesRest DEF WorkerInv, Bounded
  <2> QED
    BY <2>1, <2>2, <2>3 DEF WorkerInv
<1>2. CASE WorkerNext
  BY <1>2, AdmitStep, HostStep, DrainStep DEF WorkerNext
<1> QED
  BY <1>1, <1>2

LEMMA WorkerTypesFollow == WorkerInv => WorkerTypeOK
<1> SUFFICES ASSUME WorkerInv PROVE WorkerTypeOK
  OBVIOUS
<1>1. ASSUME NEW l \in Lanes PROVE due[l] \in 0..MaxArrivals
  <2>1. IsFiniteSet(BusyIn(l)) /\ due[l] + Cardinality(BusyIn(l)) <= arrived /\ due[l] \in Nat /\ arrived \in 0..MaxArrivals
    BY DEF WorkerInv, Bounded
  <2>2. Cardinality(BusyIn(l)) \in Nat /\ MaxArrivals \in Nat
    BY <2>1, FS_CardinalityType, WorkerAssumption
  <2> QED
    BY <2>1, <2>2
<1>2. due \in [Lanes -> 0..MaxArrivals]
  BY <1>1 DEF WorkerInv
<1> QED
  BY <1>2 DEF WorkerInv, HostOK, WorkerTypeOK, HostRows, LanePlaces

-----------------------------------------------------------------------------
(***************************************************************************)
(* The components together.                                                *)
(***************************************************************************)
AccountsInv == EventsInv /\ CheckoutInv /\ AccessInv /\ InvitationInv /\ WorkerInv

\* In the run that has all five components, whichever moves, each keeps its types and what
\* its type invariant relates.
THEOREM AccountsTypes == AccountsSpec => []AccountsTypeOK
<1>1. AccountsInit => AccountsInv
  BY EventsInitial, CheckoutInitial, AccessInitial, InvitationsInitial, WorkerInitial DEF AccountsInit, AccountsInv
<1>2. AccountsInv /\ [AccountsNext]_<<part, eventsVars, checkoutVars, accessVars, inviteVars, workerVars>> => AccountsInv'
  <2> SUFFICES ASSUME AccountsInv, [AccountsNext]_<<part, eventsVars, checkoutVars, accessVars, inviteVars, workerVars>>
               PROVE  AccountsInv'
    OBVIOUS
  <2>1. [EventsNext]_eventsVars /\ [CheckoutNext]_checkoutVars /\ [AccessNext]_accessVars
        /\ [InvitationsNext]_inviteVars /\ [WorkerNext]_workerVars
    BY DEF AccountsNext
  <2> QED
    BY <2>1, EventsStep, CheckoutStep, AccessStep, InvitationsStep, WorkerStep DEF AccountsInv
<1>3. EventsInv => EventsTypeOK
  BY DEF EventsInv, EventsTyped
<1>4. CheckoutInv => CheckoutTypeOK
  BY DEF CheckoutInv
<1>5. AccessInv => AccessTypeOK
  BY DEF AccessInv, AccountInv, Accounts, Visits, Doings, MailInv, MailRows, AccessTypeOK
<1>6. InvitationInv => InvitationsTypeOK
  BY DEF InvitationInv, LettersInv
<1>7. AccountsInv => AccountsTypeOK
  BY <1>3, <1>4, <1>5, <1>6, WorkerTypesFollow DEF AccountsInv, AccountsTypeOK
<1> QED
  BY <1>1, <1>2, <1>7, PTL DEF AccountsSpec
=============================================================================
