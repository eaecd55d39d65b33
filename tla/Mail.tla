-------------------------------- MODULE Mail --------------------------------
(***************************************************************************)
(* Mails, the rows email-log.service.ts keeps of them and the events the   *)
(* provider reports to the webhook.  Every send goes through dispatch of   *)
(* mail.service.ts: it hands the mail to the provider and then, in another *)
(* statement, writes the row.  The provider's events look the row up by    *)
(* the message id, and may come before it is there, twice, in any order.   *)
(*                                                                         *)
(* A row's id is its position, which is also the order of sentAt.  Texts   *)
(* and subjects are left out; of the content a mail keeps its link.        *)
(***************************************************************************)
EXTENDS Integers, Sequences, FiniteSets, FiniteSetsExt

CONSTANTS
  Users,     \* the accounts; an email address is an account's own
  MaxMails   \* bound: mails sent and refusals recorded

ASSUME MailBoundAssumption == MaxMails \in Nat

VARIABLES
  sent,  \* mails the provider took, by message id: to whom, its link, what was last reported
  log    \* the EmailLog rows

mail == <<sent, log>>

Templates == {"USER_INVITATION", "DATA_ROOM_INVITATION", "PASSWORD_RESET",
              "WELCOME_EMAIL"}
Finals == {"DELIVERED", "BOUNCED"}

\* No message id: the provider refused the mail.
Refused == 0

MailInit == sent = <<>> /\ log = <<>>

\* resend.emails.send: an answer with an id, or one with an error, never a throw.
ProviderSend(id, to, link) ==
  /\ Len(sent) + Cardinality({i \in DOMAIN log : log[i].id = Refused}) < MaxMails
  /\ \/ id = Len(sent) + 1 /\ sent' = Append(sent, [to |-> to, link |-> link, reported |-> "SENT"])
     \/ id = Refused /\ UNCHANGED sent

\* dispatch after the answer.  link is kept for the properties; the row has none.
Record(id, to, template, link, resentFrom) ==
  log' = Append(log, [id |-> id, to |-> to, template |-> template, link |-> link,
                      status |-> IF id = Refused THEN "FAILED" ELSE "SENT",
                      resentFrom |-> resentFrom])

MarkNewest(id, status) ==  \* mutant of Mark: the newest row, whatever its id
  log' = [i \in DOMAIN log |->
            IF i = Len(log) THEN [log[i] EXCEPT !.status = status] ELSE log[i]]

\* markDelivered, markBounced: updateMany, which may match no row.
Mark(id, status) ==
  log' = [i \in DOMAIN log |->
            IF log[i].id = id THEN [log[i] EXCEPT !.status = status] ELSE log[i]]

\* handle: a verified event.  It answers 200 whether a row was found or not, so
\* the provider does not send it again; it may all the same come twice, which is
\* to repeat it with no change, or after another.
WebhookEvent(id, status) ==
  /\ sent[id].reported # status
  /\ sent' = [sent EXCEPT ![id].reported =
                IF \E i \in DOMAIN log : log[i].id = id THEN status ELSE "MISSED"]
  /\ Mark(id, status)

Webhook == \E id \in DOMAIN sent, status \in Finals : WebhookEvent(id, status)

MailTypeOK ==
  /\ sent \in Seq([to : Users, link : Nat, reported : {"SENT", "MISSED"} \cup Finals])
  /\ log \in Seq([id : Nat, to : Users, template : Templates, link : Nat,
                  status : {"SENT", "FAILED"} \cup Finals, resentFrom : Nat])

\* A row says what the provider reported last of the mail; it stays SENT only if
\* nothing was reported, or all that was came before the row, which nobody sends
\* again (resend-webhook.service.ts:40).
RowsFollowProvider ==
  \A i \in DOMAIN log : log[i].id # Refused =>
    \/ log[i].status = sent[log[i].id].reported
    \/ log[i].status = "SENT" /\ sent[log[i].id].reported = "MISSED"
=============================================================================
