------------------------------ MODULE Invitations ------------------------------
(* One invitation to a workspace and the mail that carries its link             *)
(* (invitations.ts, invitation-email.ts): created, sent again, revoked and       *)
(* accepted by different members while workers send earlier links and members    *)
(* lose the role that let them invite.                                           *)
EXTENDS Naturals, Sequences

CONSTANTS
  Owner,               \* the workspace's owner
  Members,             \* other members, who may be admins
  Postmen,             \* concurrent invocations of processOneInvitationEmail
  MaxLetters,          \* bound on the links issued
  MaxLetterAttempts    \* attempts before a mail is failed (5 in the code)

ASSUME InvitationAssumption == {MaxLetters, MaxLetterAttempts} \subseteq Nat \ {0} /\ Owner \notin Members

VARIABLES
  rank,       \* memberships of the issuers: owner, admin, editor or none
  invite,     \* the invitations row: [there, role, link, issuer, fresh, accepted]
  links,      \* links issued, each a new token; also the number of the last letter
  letter,     \* invitation_email_outbox, by link: [state, attempts, leased, fresh]
  postman,    \* a worker: [letter, lease, sent]
  guest,      \* the invitee: the link being looked at, and its issuer as first read
  joined      \* the link each membership of the invitee came from, in order of acceptance

inviteVars == <<rank, invite, links, letter, postman, guest, joined>>

Link == 1..MaxLetters
Nobody == "nobody"
Empty == [letter |-> 0, lease |-> 0, sent |-> "no"]
Unsent == [state |-> "none", attempts |-> 0, leased |-> FALSE, fresh |-> FALSE]

InvitationsInit ==
  /\ rank = [u \in Members \cup {Owner} |-> IF u = Owner THEN "owner" ELSE "admin"]
  /\ invite = [there |-> FALSE, role |-> "editor", link |-> 0, issuer |-> Nobody, fresh |-> FALSE, accepted |-> FALSE]
  /\ links = 0 /\ letter = [i \in Link |-> Unsent]
  /\ postman = [p \in Postmen |-> Empty] /\ guest = [link |-> 0, issuer |-> Nobody]
  /\ joined = <<>>

RoleAllowed(issuerRole, role) == issuerRole = "owner" \/ (issuerRole = "admin" /\ role # "admin")

\* The issuer may still invite to that role.
Authorized == invite.issuer # Nobody /\ RoleAllowed(rank[invite.issuer], invite.role)

Posted(i) == letter[i].state \in {"pending", "sending"}
Over(row, state) == [row EXCEPT !.state = state, !.leased = FALSE]

\* cancelInvitationMail.
Withdrawn == [i \in Link |-> IF Posted(i) THEN Over(letter[i], "cancelled") ELSE letter[i]]

\* The mail of earlier links is left to itself.
LeftToSend == letter

(***************************************************************************)
(* Members.                                                                *)
(***************************************************************************)
\* Created, for the link to be copied or mailed.
CreateInvitation(u, role, delivery) ==
  /\ ~invite.there /\ links < MaxLetters /\ RoleAllowed(rank[u], role)
  /\ links' = links + 1
  /\ invite' = [there |-> TRUE, role |-> role, link |-> links', issuer |-> u, fresh |-> TRUE, accepted |-> FALSE]
  /\ letter' = IF delivery = "manual" THEN letter ELSE [letter EXCEPT ![links'] = [Unsent EXCEPT !.state = "pending", !.fresh = TRUE]]
  /\ UNCHANGED <<rank, postman, guest, joined>>

Superseded == Withdrawn

\* A new token and seven more days; earlier links are dead from here on.
ResendInvitation(u) ==
  /\ invite.there /\ ~invite.accepted /\ links < MaxLetters /\ RoleAllowed(rank[u], invite.role)
  /\ links' = links + 1
  /\ invite' = [invite EXCEPT !.link = links', !.issuer = u, !.fresh = TRUE]
  /\ letter' = [Superseded EXCEPT ![links'] = [Unsent EXCEPT !.state = "pending", !.fresh = TRUE]]
  /\ UNCHANGED <<rank, postman, guest, joined>>

\* The row goes, and its mail with it.
DeleteInvitation(u) ==
  /\ invite.there /\ rank[u] \in {"owner", "admin"}
  /\ invite' = [invite EXCEPT !.there = FALSE]
  /\ letter' = [i \in Link |-> Unsent]
  /\ UNCHANGED <<rank, links, postman, guest, joined>>

\* Removal, or another role.
ChangeRole(u, role) ==
  /\ u # Owner /\ rank[u] # role /\ rank[u] # "none"
  /\ rank' = [rank EXCEPT ![u] = role]
  /\ UNCHANGED <<invite, links, letter, postman, guest, joined>>

ExpireInvitation ==
  /\ invite.there /\ invite.fresh /\ invite' = [invite EXCEPT !.fresh = FALSE]
  /\ letter' = [letter EXCEPT ![invite.link].fresh = FALSE]
  /\ UNCHANGED <<rank, links, postman, guest, joined>>

(***************************************************************************)
(* The invitee. The first lookup only says which rows to lock.             *)
(***************************************************************************)
LookUp(i) ==
  /\ guest.link = 0 /\ invite.there /\ i = invite.link /\ guest' = [link |-> i, issuer |-> invite.issuer]
  /\ UNCHANGED <<rank, invite, links, letter, postman, joined>>

\* The row as it was found is taken for the row as it is.
FoundOnce == invite.there /\ ~invite.accepted /\ invite.fresh /\ RoleAllowed(rank[guest.issuer], invite.role)

\* Decided after every wait: the row by its token, its issuer still the one whose role was locked.
StillValid ==
  /\ invite.there /\ guest.link = invite.link /\ guest.issuer = invite.issuer
  /\ RoleAllowed(rank[guest.issuer], invite.role) /\ ~invite.accepted /\ invite.fresh

AcceptInvitation ==
  /\ guest.link # 0 /\ guest' = [link |-> 0, issuer |-> Nobody]
  /\ IF StillValid
     THEN /\ invite' = [invite EXCEPT !.accepted = TRUE] /\ letter' = Withdrawn
          /\ joined' = joined \o <<[link |-> guest.link, by |-> rank[invite.issuer], role |-> invite.role, latest |-> invite.link]>>
     ELSE UNCHANGED <<invite, letter, joined>>
  /\ UNCHANGED <<rank, links, postman>>

(***************************************************************************)
(* The outbox.                                                             *)
(***************************************************************************)
\* What a letter is worth while the workspace, the issuer and the invitation are locked.
Verdict(i) ==
  CASE ~Authorized -> "unauthorized"
    [] Authorized /\ (invite.accepted \/ invite.link # i \/ ~invite.fresh \/ ~letter[i].fresh) -> "void"
    [] OTHER -> "good"

ClaimLetter(p, i) ==
  /\ postman[p].letter = 0 /\ invite.there /\ Posted(i) /\ (letter[i].state = "sending" => ~letter[i].leased)
  /\ CASE Verdict(i) = "unauthorized" -> letter' = Withdrawn /\ UNCHANGED postman
       [] Verdict(i) = "void" -> letter' = [letter EXCEPT ![i] = Over(@, "cancelled")] /\ UNCHANGED postman
       [] Verdict(i) = "good" /\ letter[i].attempts >= MaxLetterAttempts ->
            letter' = [letter EXCEPT ![i] = Over(@, "failed")] /\ UNCHANGED postman
       [] OTHER ->
            /\ letter' = [letter EXCEPT ![i].state = "sending", ![i].attempts = @ + 1, ![i].leased = TRUE]
            /\ postman' = [postman EXCEPT ![p] = [letter |-> i, lease |-> letter'[i].attempts, sent |-> "no"]]
  /\ UNCHANGED <<rank, invite, links, guest, joined>>

\* "over": an error that no retry helps, or any at the last attempt.
SendLetter(p, answer) ==
  /\ postman[p].letter # 0 /\ postman[p].sent = "no" /\ (answer = "again" => postman[p].lease < MaxLetterAttempts)
  /\ postman' = [postman EXCEPT ![p].sent = answer]
  /\ UNCHANGED <<rank, invite, links, letter, guest, joined>>

FinishLetter(p) ==
  LET i == postman[p].letter
      mine == invite.there /\ letter[i].state = "sending" /\ letter[i].leased /\ letter[i].attempts = postman[p].lease
  IN /\ postman[p].sent # "no" /\ postman' = [postman EXCEPT ![p] = Empty]
     /\ letter' =
          IF ~mine THEN letter
          ELSE IF Verdict(i) = "unauthorized" THEN Withdrawn
          ELSE [letter EXCEPT ![i] =
                  IF Verdict(i) = "void" THEN Over(@, "cancelled")
                  ELSE Over(@, CASE postman[p].sent = "ok" -> "accepted" [] postman[p].sent = "over" -> "failed" [] OTHER -> "pending")]
     /\ UNCHANGED <<rank, invite, links, guest, joined>>

StopPostman(p) ==
  /\ postman[p].letter # 0 /\ postman' = [postman EXCEPT ![p] = Empty]
  /\ UNCHANGED <<rank, invite, links, letter, guest, joined>>

LapseLetter(i) ==
  /\ letter[i].leased /\ letter' = [letter EXCEPT ![i].leased = FALSE]
  /\ UNCHANGED <<rank, invite, links, postman, guest, joined>>

\* cleanupInvitationEmail.
CleanLetter(i) ==
  /\ Posted(i) /\ ~letter[i].fresh /\ letter' = [letter EXCEPT ![i] = Over(@, "cancelled")]
  /\ UNCHANGED <<rank, invite, links, postman, guest, joined>>

InvitationsNext ==
  \/ \E u \in Members \cup {Owner} :
       \/ \E role \in {"admin", "editor"}, delivery \in {"manual", "email"} : CreateInvitation(u, role, delivery)
       \/ ResendInvitation(u) \/ DeleteInvitation(u)
       \/ \E role \in {"none", "editor", "admin"} : ChangeRole(u, role)
  \/ ExpireInvitation \/ AcceptInvitation
  \/ \E i \in Link : LookUp(i) \/ LapseLetter(i) \/ CleanLetter(i)
  \/ \E p \in Postmen :
       \/ FinishLetter(p) \/ StopPostman(p) \/ \E i \in Link : ClaimLetter(p, i)
       \/ \E answer \in {"ok", "again", "over"} : SendLetter(p, answer)

InvitationsSpec == InvitationsInit /\ [][InvitationsNext]_inviteVars

(***************************************************************************)
(* Properties.                                                             *)
(***************************************************************************)
InvitationsTypeOK ==
  /\ rank \in [Members \cup {Owner} -> {"owner", "admin", "editor", "none"}] /\ links \in 0..MaxLetters
  /\ invite \in [there : BOOLEAN, role : {"admin", "editor"}, link : 0..links,
                 issuer : Members \cup {Owner, Nobody}, fresh : BOOLEAN, accepted : BOOLEAN]
  /\ letter \in [Link -> [state : {"none", "pending", "sending", "accepted", "failed", "cancelled"},
                          attempts : 0..MaxLetterAttempts, leased : BOOLEAN, fresh : BOOLEAN]]

\* Only the latest link of an invitation that is still open is ever waiting to be sent, and only
\* that link makes a member, once, by the authority its issuer has at that moment - however often
\* it was sent again, revoked or looked up before ("Validity is decided after all waits").
InvitedByRight ==
  /\ \A i \in Link : Posted(i) => invite.there /\ ~invite.accepted /\ invite.link = i
  /\ \A n \in DOMAIN joined :
       joined[n].link = joined[n].latest /\ RoleAllowed(joined[n].by, joined[n].role)
         /\ \A m \in DOMAIN joined : joined[m].link = joined[n].link => m = n
=============================================================================
