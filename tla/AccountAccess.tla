----------------------------- MODULE AccountAccess -----------------------------
(* One account: its password, sessions, and the links mailed to its address     *)
(* (auth.ts, account-recovery.ts, email-verification.ts,                        *)
(* account-recovery-mail.ts). Passwords are verified outside every transaction, *)
(* requests are resolved and mail is sent in the background, and what was read  *)
(* or issued before a change must not count after it.                           *)
EXTENDS Naturals

CONSTANTS
  Visitors,           \* browsers: each signs in, changes the password or confirms a link
  Mailers,            \* concurrent invocations of processOneAccountEmail
  MaxPasswords,       \* bound on the passwords the account ever has
  MaxMail,            \* bound on the rows of account_email_outbox
  MaxMailAttempts     \* attempts before a mail is failed (5 in the code)

ASSUME AccessAssumption == {MaxPasswords, MaxMail, MaxMailAttempts} \subseteq Nat \ {0}

VARIABLES
  account,    \* the users row: [password, verified, required]; a password is its number
  session,    \* a visitor's session: the password it stands for, 0 when it has none
  visit,      \* what a visitor is doing: [doing, saw, link]
  requested,  \* the oldest queued request of each kind: [there, password, verified]
  mail,       \* rows of account_email_outbox, each with its token: gone, kept, or mailed
  issued,     \* rows of the outbox so far
  mailer      \* a worker: [mail, lease, sent]; mail 0 when it has none

accessVars == <<account, session, visit, requested, mail, issued, mailer>>

Links == {"reset", "verify"}
Row == 1..MaxMail
Away == [doing |-> "nothing", saw |-> 0, link |-> 0]
OffDuty == [mail |-> 0, lease |-> 0, sent |-> "no"]
NoRequest == [there |-> FALSE, password |-> 0, verified |-> FALSE]
Unwritten == [kind |-> "none", digest |-> 0, token |-> "gone", fresh |-> FALSE,
              state |-> "none", attempts |-> 0, leased |-> FALSE]

AccessInit ==
  /\ account \in [password : {1}, verified : BOOLEAN, required : BOOLEAN]
  /\ session = [v \in Visitors |-> 0] /\ visit = [v \in Visitors |-> Away]
  /\ requested = [k \in Links |-> NoRequest]
  /\ mail = [i \in Row |-> Unwritten] /\ issued = 0
  /\ mailer = [s \in Mailers |-> OffDuty]

Waiting(i) == mail[i].state \in {"pending", "sending"}

\* The outcome of a mail that will not be sent; its token goes with it.
Ended(row, state) == [row EXCEPT !.state = state, !.token = "gone", !.leased = FALSE]

\* Only the links of one kind lose their tokens and their mail.
DropsOneKind(rows, kinds) ==
  [i \in Row |-> IF rows[i].kind # "reset" THEN rows[i]
                 ELSE [rows[i] EXCEPT !.token = "gone", !.leased = FALSE,
                         !.state = IF @ \in {"pending", "sending"} THEN "cancelled" ELSE @]]

\* invalidateRecovery and invalidateEmailVerification: tokens and waiting mail of every kind.
Invalidate(rows, kinds) ==
  [i \in Row |-> IF rows[i].kind \notin kinds THEN rows[i]
                 ELSE [rows[i] EXCEPT !.token = "gone", !.leased = FALSE,
                         !.state = IF @ \in {"pending", "sending"} THEN "cancelled" ELSE @]]

Enqueued(rows, kind, digest) ==
  [rows EXCEPT ![issued + 1] = [Unwritten EXCEPT !.kind = kind, !.digest = digest,
                                 !.token = IF kind \in Links THEN "kept" ELSE "gone", !.fresh = TRUE, !.state = "pending"]]

(***************************************************************************)
(* Signing in, and out.                                                    *)
(***************************************************************************)
MayEnter == account.required => account.verified

\* The password given is checked against the hash just read.
Begin(v, doing, link) ==
  /\ visit[v] = Away /\ visit' = [visit EXCEPT ![v] = [doing |-> doing, saw |-> account.password, link |-> link]]
  /\ UNCHANGED <<account, session, requested, mail, issued, mailer>>

SignIn(v) == MayEnter /\ session[v] = 0 /\ Begin(v, "signing in", 0)

\* createSession, under the user lock.
EnterSession(v) ==
  /\ visit[v].doing = "signing in" /\ visit' = [visit EXCEPT ![v] = Away]
  /\ session' = [session EXCEPT ![v] = IF visit[v].saw = account.password /\ MayEnter THEN account.password ELSE 0]
  /\ UNCHANGED <<account, requested, mail, issued, mailer>>

SignOut(v) ==
  /\ session[v] # 0 /\ session' = [session EXCEPT ![v] = 0]
  /\ UNCHANGED <<account, visit, requested, mail, issued, mailer>>

(***************************************************************************)
(* The password.                                                           *)
(***************************************************************************)
\* A new hash, sessions but one ended, every link invalidated, the owner told.
NewPassword(kept) ==
  /\ account.password < MaxPasswords /\ issued < MaxMail
  /\ account' = [account EXCEPT !.password = @ + 1]
  /\ session' = [v \in Visitors |-> IF v \in kept /\ session[v] # 0 THEN account'.password ELSE 0]
  /\ mail' = Enqueued(Invalidate(mail, Links), "changed", 0) /\ issued' = issued + 1

AskChange(v) == session[v] # 0 /\ Begin(v, "changing", 0)

ChangePassword(v) ==
  /\ visit[v].doing = "changing" /\ visit' = [visit EXCEPT ![v] = Away]
  /\ IF session[v] # 0 /\ visit[v].saw = account.password
     THEN NewPassword({v})
     ELSE UNCHANGED <<account, session, mail, issued>>
  /\ UNCHANGED <<requested, mailer>>

Redeemable(i, kind) ==
  mail[i].kind = kind /\ mail[i].token # "gone" /\ mail[i].fresh /\ mail[i].digest = account.password

CompleteReset(i) ==
  /\ mail[i].token = "mailed" /\ Redeemable(i, "reset") /\ NewPassword({})
  /\ UNCHANGED <<visit, requested, mailer>>

(***************************************************************************)
(* The address.                                                            *)
(***************************************************************************)
AskVerify(v, i) == mail[i].kind = "verify" /\ mail[i].token = "mailed" /\ Begin(v, "verifying", i)

CompleteVerification(v) ==
  /\ visit[v].doing = "verifying" /\ visit' = [visit EXCEPT ![v] = Away]
  /\ IF ~account.verified /\ visit[v].saw = account.password /\ Redeemable(visit[v].link, "verify")
     THEN /\ account' = [account EXCEPT !.verified = TRUE]
          /\ session' = [u \in Visitors |-> 0] /\ mail' = Invalidate(mail, Links)
     ELSE UNCHANGED <<account, session, mail>>
  /\ UNCHANGED <<requested, issued, mailer>>

(***************************************************************************)
(* Requests, resolved in the background.                                   *)
(***************************************************************************)
RequestLink(k) ==
  /\ ~requested[k].there
  /\ requested' = [requested EXCEPT ![k] = [there |-> TRUE, password |-> account.password, verified |-> account.verified]]
  /\ UNCHANGED <<account, session, visit, mail, issued, mailer>>

\* Made before the password changed, or before the address was verified.
Outdated(k) ==
  \/ requested[k].password # account.password
  \/ account.verified /\ (k = "verify" \/ ~requested[k].verified)

ResolveRequest(k) ==
  /\ requested[k].there /\ requested' = [requested EXCEPT ![k] = NoRequest]
  /\ \/ UNCHANGED <<mail, issued>>     \* expired
     \/ /\ ~Outdated(k) /\ issued < MaxMail /\ issued' = issued + 1
        /\ mail' = Enqueued(mail, k, account.password)
  /\ UNCHANGED <<account, session, visit, mailer>>

(***************************************************************************)
(* The outbox.                                                             *)
(***************************************************************************)
\* Its link still stands; a verification, while there is something to verify.
Sendable(i) ==
  mail[i].fresh /\ (mail[i].kind = "reset" => Redeemable(i, "reset"))
    /\ (mail[i].kind = "verify" => ~account.verified /\ Redeemable(i, "verify"))

\* Mail that is outdated or exhausted is ended where it would have been claimed.
ClaimMail(s, i) ==
  /\ mailer[s].mail = 0 /\ Waiting(i) /\ (mail[i].state = "sending" => ~mail[i].leased)
  /\ CASE ~mail[i].fresh \/ (~Sendable(i) /\ mail[i].attempts < MaxMailAttempts) ->
            mail' = [mail EXCEPT ![i] = Ended(@, "cancelled")] /\ UNCHANGED mailer
       [] mail[i].fresh /\ mail[i].attempts >= MaxMailAttempts ->
            mail' = [mail EXCEPT ![i] = Ended(@, "failed")] /\ UNCHANGED mailer
       [] OTHER ->
            /\ mail' = [mail EXCEPT ![i].state = "sending", ![i].attempts = @ + 1, ![i].leased = TRUE]
            /\ mailer' = [mailer EXCEPT ![s] = [mail |-> i, lease |-> mail'[i].attempts, sent |-> "no"]]
  /\ UNCHANGED <<account, session, visit, requested, issued>>

\* "over": an error that no retry helps, or any at the last attempt. An error, or a timeout,
\* does not say that nothing was delivered.
SendMail(s, answer) ==
  /\ mailer[s].mail # 0 /\ mailer[s].sent = "no" /\ (answer = "again" => mailer[s].lease < MaxMailAttempts)
  /\ mailer' = [mailer EXCEPT ![s].sent = answer]
  /\ \/ mail[mailer[s].mail].token = "kept" /\ mail' = [mail EXCEPT ![mailer[s].mail].token = "mailed"]
     \/ (answer = "ok" => mail[mailer[s].mail].token # "kept") /\ UNCHANGED mail
  /\ UNCHANGED <<account, session, visit, requested, issued>>

FinishMail(s) ==
  LET i == mailer[s].mail
  IN /\ i # 0 /\ mailer[s].sent # "no" /\ mailer' = [mailer EXCEPT ![s] = OffDuty]
     /\ mail' = IF mail[i].state # "sending" \/ ~mail[i].leased \/ mail[i].attempts # mailer[s].lease THEN mail
                ELSE [mail EXCEPT ![i] =
                  CASE ~@.fresh -> Ended(@, "cancelled")
                    [] @.fresh /\ mailer[s].sent = "ok" -> [@ EXCEPT !.state = "accepted", !.leased = FALSE]
                    [] @.fresh /\ mailer[s].sent = "over" -> Ended(@, "failed")
                    [] OTHER -> [@ EXCEPT !.state = "pending", !.leased = FALSE]]
     /\ UNCHANGED <<account, session, visit, requested, issued>>

StopMailer(s) ==
  /\ mailer[s].mail # 0 /\ mailer' = [mailer EXCEPT ![s] = OffDuty]
  /\ UNCHANGED <<account, session, visit, requested, mail, issued>>

LapseMail(i) ==
  /\ mail[i].leased /\ mail' = [mail EXCEPT ![i].leased = FALSE]
  /\ UNCHANGED <<account, session, visit, requested, issued, mailer>>

\* A token and its mail expire together; cleanup then removes the one and ends the other.
ExpireMail(i) ==
  /\ mail[i].fresh /\ (Waiting(i) \/ mail[i].token # "gone") /\ mail' = [mail EXCEPT ![i].fresh = FALSE]
  /\ UNCHANGED <<account, session, visit, requested, issued, mailer>>

CleanExpired(i) ==
  /\ mail[i].state # "none" /\ ~mail[i].fresh /\ (Waiting(i) \/ mail[i].token # "gone")
  /\ mail' = [mail EXCEPT ![i] = Ended(@, IF Waiting(i) THEN "cancelled" ELSE @.state)]
  /\ UNCHANGED <<account, session, visit, requested, issued, mailer>>

AccessNext ==
  \/ \E v \in Visitors :
       \/ SignIn(v) \/ EnterSession(v) \/ SignOut(v) \/ AskChange(v) \/ ChangePassword(v)
       \/ CompleteVerification(v) \/ \E i \in Row : AskVerify(v, i)
  \/ \E k \in Links : RequestLink(k) \/ ResolveRequest(k)
  \/ \E i \in Row : CompleteReset(i) \/ LapseMail(i) \/ ExpireMail(i) \/ CleanExpired(i)
  \/ \E s \in Mailers :
       \/ FinishMail(s) \/ StopMailer(s) \/ \E i \in Row : ClaimMail(s, i)
       \/ \E answer \in {"ok", "again", "over"} : SendMail(s, answer)

AccessSpec == AccessInit /\ [][AccessNext]_accessVars

(***************************************************************************)
(* Properties.                                                             *)
(***************************************************************************)
AccessTypeOK ==
  /\ account \in [password : 1..MaxPasswords, verified : BOOLEAN, required : BOOLEAN]
  /\ session \in [Visitors -> 0..MaxPasswords] /\ issued \in 0..MaxMail
  /\ visit \in [Visitors -> [doing : {"nothing", "signing in", "changing", "verifying"},
                             saw : 0..MaxPasswords, link : 0..MaxMail]]
  /\ mail \in [Row -> [kind : Links \cup {"none", "changed"}, digest : 0..MaxPasswords, token : {"gone", "kept", "mailed"}, fresh : BOOLEAN,
                       state : {"none", "pending", "sending", "accepted", "failed", "cancelled"},
                       attempts : 0..MaxMailAttempts, leased : BOOLEAN]]

\* Whatever overlaps a change of the password or a verification - a sign-in that checked the old
\* password, a request resolved late, a mail being sent - every session stands for the present
\* password (and a verified address where one is required), every link that is still waiting or can
\* still be redeemed was issued under it, and none asks to verify what is verified.
AccessIsCurrent ==
  /\ \A v \in Visitors : session[v] # 0 => session[v] = account.password /\ MayEnter
  /\ \A i \in Row : mail[i].kind \in Links /\ (mail[i].token # "gone" \/ Waiting(i)) =>
       /\ mail[i].token # "gone" /\ mail[i].digest = account.password
       /\ mail[i].kind = "verify" => ~account.verified
=============================================================================
