-------------------------- MODULE PushNotifications ---------------------------
(***************************************************************************)
(* Push notifications of one user: registering and revoking the tokens of  *)
(* devices, the preference, and sending                                    *)
(* (application/user/usecase/push_*.go,                                    *)
(* infrastructure/repositories/user_push_notifications_repository.go,      *)
(* infrastructure/push/expo_sender.go).  A send reads the preference, then *)
(* the active tokens, posts them in batches, each retried on 429 and 5xx,  *)
(* and revokes the devices whose tokens the provider called invalid.       *)
(* Between these steps devices register again and the user opts out.  A    *)
(* token is kept as the device sent it, and reported without the blanks    *)
(* around it.                                                              *)
(***************************************************************************)
EXTENDS Integers, Sequences, FiniteSetsExt, SequencesExt

CONSTANTS
  Devices,
  Apps,        \* installed applications, each with a token of its own
  Padding,     \* those whose token a device may send with blanks around it
  NoToken,     \* the device has no row or its row is revoked
  Senders,     \* concurrent calls of Send
  BatchSize,   \* 100 in the code
  MaxRetries   \* maxRetries of the sender

\* A token as the device sends it, with or without blanks around it.
Tokens == [app : Apps, padded : {FALSE}] \cup [app : Padding, padded : {TRUE}]

ASSUME PushAssumption ==
  /\ IsFiniteSet(Devices) /\ Padding \subseteq Apps /\ NoToken \notin Tokens
  /\ BatchSize \in Nat \ {0} /\ MaxRetries \in Nat

VARIABLES
  rows,     \* device -> the token of its active row; that of a revoked one is never read
  prefs,    \* "off" for a stored preference against push, else "on"
  dead,     \* uninstalled applications (the provider's knowledge)
  send,     \* sender -> its progress
  renewed,  \* ghost: sender -> devices that registered since it listed them
  wrong     \* ghost: sender -> devices it revoked with another token than the reported

ghosts == <<renewed, wrong>>
pushVars == <<rows, prefs, dead, send, ghosts>>

-----------------------------------------------------------------------------
Ready ==
  [pc |-> "idle", msgs |-> <<>>, i |-> 1, attempt |-> 0, invalid |-> <<>>, failed |-> FALSE,
   flagged |-> {}, revoked |-> {}, missed |-> {}, copies |-> [d \in Devices |-> 0]]

PushInit ==
  /\ rows = [d \in Devices |-> NoToken]
  /\ prefs = "on"
  /\ dead = {}
  /\ send = [s \in Senders |-> Ready]
  /\ renewed = [s \in Senders |-> {}]
  /\ wrong = [s \in Senders |-> {}]

TrimSpace(t) == [app |-> t.app, padded |-> FALSE]

\* The devices a send has listed while it is not done with them.
Listed(r) ==
  IF r.pc \in {"post", "sleep", "revoke"} THEN {r.msgs[k].device : k \in DOMAIN r.msgs} ELSE {}

\* UpsertToken: a row of the device is made active again whatever its token was.
Register(d, t) ==
  /\ t.app \notin dead
  /\ rows' = [rows EXCEPT ![d] = t]
  /\ renewed' = [s \in Senders |-> renewed[s] \cup ({d} \cap Listed(send[s]))]
  /\ UNCHANGED <<prefs, dead, send, wrong>>

\* The UPDATE names the device, not the token.
Deactivated(rs, d) == [rs EXCEPT ![d] = NoToken]

Revoke(d) ==
  /\ rows[d] # NoToken
  /\ rows' = Deactivated(rows, d)
  /\ UNCHANGED <<prefs, dead, send, ghosts>>

UpsertPrefs(p) ==
  /\ prefs # p
  /\ prefs' = p
  /\ UNCHANGED <<rows, dead, send, ghosts>>

\* The application is uninstalled (external).
Uninstall(a) ==
  /\ a \notin dead
  /\ dead' = dead \cup {a}
  /\ UNCHANGED <<rows, prefs, send, ghosts>>

-----------------------------------------------------------------------------
\* The send ends; what it did is kept until the next one.
Finished(r, failed) ==
  [r EXCEPT !.pc = "done", !.failed = failed, !.i = 1, !.attempt = 0, !.invalid = <<>>]

\* Get: a stored preference against push ends the send.
Send(s) ==
  /\ send[s].pc \in {"idle", "done"}
  /\ send' = [send EXCEPT ![s] = IF prefs = "off" THEN Finished(Ready, FALSE) ELSE [Ready EXCEPT !.pc = "list"]]
  /\ UNCHANGED <<rows, prefs, dead, ghosts>>

ActiveDevices == {d \in Devices : rows[d] # NoToken}

\* ListActiveByUserID, in the order the rows were updated, which is not kept here.
List(s) ==
  /\ send[s].pc = "list"
  /\ IF ActiveDevices = {} THEN send' = [send EXCEPT ![s] = Finished(@, FALSE)]
     ELSE \E order \in SetToSeqs(ActiveDevices) :
            send' = [send EXCEPT ![s].pc = "post",
                       ![s].msgs = [k \in DOMAIN order |-> [device |-> order[k], token |-> rows[order[k]]]]]
  /\ renewed' = [renewed EXCEPT ![s] = {}]
  /\ wrong' = [wrong EXCEPT ![s] = {}]
  /\ UNCHANGED <<rows, prefs, dead>>

\* The messages of the batch that starts at the i-th.
Batch(r) == r.i..Min({r.i + BatchSize - 1, Len(r.msgs)})

\* The provider passes on the messages of the set; the ghost counts to one above what
\* the attempts allow.
Delivered(r, ks) ==
  LET reached(d) == \E k \in ks : r.msgs[k].device = d /\ r.msgs[k].token.app \notin dead
  IN [r EXCEPT !.copies = [d \in Devices |-> Min({r.copies[d] + (IF reached(d) THEN 1 ELSE 0), MaxRetries + 2})]]

\* The tickets of a batch come in the order of its messages.
InOrder(ks) == {order \in SetToSeqs(ks) : \A m, n \in DOMAIN order : m < n => order[m] < order[n]}

\* The tokens of the tickets that indicate an invalid one, trimmed.
InvalidTokens(r, order) == [n \in DOMAIN order |-> TrimSpace(r.msgs[order[n]].token)]

\* Mutant: the report of a batch replaces the reports before it.
Bug_LastReport(r, order) == InvalidTokens(r, order)

\* SendWithReport appends the report of the batch.
Appended(r, order) == r.invalid \o InvalidTokens(r, order)

Refusable(t) == t.app \in dead \/ t.padded

\* 2xx: a ticket calls a token invalid when it is dead or not well-formed, and every token
\* when the credentials of the application are wrong, which the sender takes for the same.
PostAccepted(s) ==
  /\ send[s].pc = "post"
  /\ LET r == send[s]
     IN \E bad \in (SUBSET {k \in Batch(r) : Refusable(r.msgs[k].token)}) \cup {Batch(r)} :
        \E order \in InOrder(bad) :
          LET told == [Delivered(r, Batch(r) \ bad) EXCEPT !.invalid = Appended(r, order), !.flagged = @ \cup bad]
              next == Max(Batch(r)) + 1
          IN send' = [send EXCEPT ![s] =
                        IF next <= Len(r.msgs) THEN [told EXCEPT !.i = next, !.attempt = 0]
                        ELSE [told EXCEPT !.pc = "revoke"]]
  /\ UNCHANGED <<rows, prefs, dead, ghosts>>

\* newExpoHTTPError
Retryable(status) == status \in {"429", "5xx"}

\* Mutant: the attempts are not counted.
Bug_RetryForever(r, status) == Retryable(status)

\* sendBatch goes on to another attempt.
Retries(r, status) == Retryable(status) /\ r.attempt < MaxRetries

\* Any other answer, or none: a timeout, an undecodable body, errors in the body.  The
\* provider may have passed the messages on; the report of earlier batches is dropped.
PostFails(s, status) ==
  /\ send[s].pc = "post"
  /\ \E ks \in {{}, Batch(send[s])} :
       LET r == Delivered(send[s], ks)
       IN send' = [send EXCEPT ![s] = IF Retries(r, status) THEN [r EXCEPT !.pc = "sleep"] ELSE Finished(r, TRUE)]
  /\ UNCHANGED <<rows, prefs, dead, ghosts>>

\* Mutant: every attempt is the first.
Bug_ResetAttempt(s) ==
  /\ send[s].pc = "sleep"
  /\ send' = [send EXCEPT ![s].pc = "post"]
  /\ UNCHANGED <<rows, prefs, dead, ghosts>>

\* Retry-After or the backoff has passed.
Wake(s) ==
  /\ send[s].pc = "sleep"
  /\ send' = [send EXCEPT ![s].pc = "post", ![s].attempt = @ + 1]
  /\ UNCHANGED <<rows, prefs, dead, ghosts>>

\* A query of the stores fails, or the caller's context is cancelled while the sender
\* waits.
Cancel(s) ==
  /\ send[s].pc \in {"list", "sleep"}
  /\ send' = [send EXCEPT ![s] = Finished(@, TRUE)]
  /\ UNCHANGED <<rows, prefs, dead, ghosts>>

\* byToken holds the device listed last with exactly this token, if there is one.
ByToken(r, t) ==
  LET places == {k \in DOMAIN r.msgs : r.msgs[k].token = t}
  IN IF places = {} THEN {} ELSE {r.msgs[Max(places)].device}

\* revokeInvalidTokensBestEffort, one token a step: a token that was not listed like this
\* is skipped, an UPDATE that fails is passed over.
RevokeInvalid(s) ==
  /\ send[s].pc = "revoke"
  /\ LET r == send[s]
         t == Head(r.invalid)
     IN \/ /\ r.invalid = <<>>
           /\ send' = [send EXCEPT ![s] = Finished(@, FALSE)]
           /\ UNCHANGED <<rows, wrong>>
        \/ /\ r.invalid # <<>>
           /\ ByToken(r, t) = {}
           /\ send' = [send EXCEPT ![s].invalid = Tail(@)]
           /\ UNCHANGED <<rows, wrong>>
        \/ /\ r.invalid # <<>>
           /\ \E d \in ByToken(r, t) :
                /\ rows' = Deactivated(rows, d)
                /\ send' = [send EXCEPT ![s].invalid = Tail(@), ![s].revoked = @ \cup {d}]
                /\ wrong' = [wrong EXCEPT ![s] = @ \cup {x \in {d} : rows[x] \notin {t, NoToken}}]
        \/ /\ r.invalid # <<>>
           /\ \E d \in ByToken(r, t) :
                send' = [send EXCEPT ![s].invalid = Tail(@), ![s].missed = @ \cup {d}]
           /\ UNCHANGED <<rows, wrong>>
  /\ UNCHANGED <<prefs, dead, renewed>>

Step(s) ==
  \/ List(s)
  \/ PostAccepted(s)
  \/ \E status \in {"429", "5xx", "4xx", "none"} : PostFails(s, status)
  \/ Wake(s)
  \/ RevokeInvalid(s)

PushNext ==
  \/ \E d \in Devices, t \in Tokens : Register(d, t)
  \/ \E d \in Devices : Revoke(d)
  \/ \E p \in {"on", "off"} : UpsertPrefs(p)
  \/ \E a \in Apps : Uninstall(a)
  \/ \E s \in Senders : Send(s) \/ Step(s) \/ Cancel(s)

PushSpec == PushInit /\ [][PushNext]_pushVars /\ \A s \in Senders : WF_pushVars(Step(s))

-----------------------------------------------------------------------------
Message == [device : Devices, token : Tokens]

SendRecord ==
  [pc : {"idle", "list", "post", "sleep", "revoke", "done"}, msgs : Seq(Message), i : Nat, attempt : 0..MaxRetries,
   invalid : Seq(Tokens), failed : BOOLEAN, flagged : SUBSET Nat, revoked : SUBSET Devices,
   missed : SUBSET Devices, copies : [Devices -> Nat]]

PushTypeOK ==
  /\ rows \in [Devices -> {NoToken} \cup Tokens]
  /\ prefs \in {"on", "off"}
  /\ dead \subseteq Apps
  /\ send \in [Senders -> SendRecord]

\* The tokens the provider called invalid, as the sender reports them.
Called(r) == {TrimSpace(r.msgs[k].token) : k \in r.flagged}

\* A send revokes only devices it had listed with a token that is, but for blanks, one the
\* provider called invalid in this send, and it revokes another token than that only from
\* a device that registered anew since it was listed.  One that fails revokes nothing,
\* whatever the batches before the failure reported; one that succeeds has dealt with a
\* device of every invalid token that was listed without blanks
\* (expo_sender.go:101, 220, push_send.go:97, 116).
RevokesFollowReport ==
  /\ PushTypeOK
  /\ \A s \in Senders :
       LET r == send[s]
       IN /\ \A d \in r.revoked : \E k \in DOMAIN r.msgs : r.msgs[k].device = d /\ r.msgs[k].token \in Called(r)
          /\ wrong[s] \subseteq renewed[s]
          /\ r.pc = "done" /\ r.failed => r.revoked = {}
          /\ r.pc = "done" /\ ~r.failed =>
               \A k \in r.flagged : ~r.msgs[k].token.padded =>
                 \E d \in r.revoked \cup r.missed : ByToken(r, r.msgs[k].token) = {d}

\* However the provider answers, a device gets the notification of one send at most once
\* per attempt (expo_sender.go:135).
CopiesBounded == \A s \in Senders, d \in Devices : send[s].copies[d] <= MaxRetries + 1

\* What holds of a send in between: its report is of its own messages, and every token
\* called invalid is still to be revoked or has been dealt with.
ReportSound(r) ==
  /\ r.flagged \subseteq DOMAIN r.msgs
  /\ \A n \in DOMAIN r.invalid : r.invalid[n] \in Called(r)
  /\ \A d \in r.revoked : \E k \in DOMAIN r.msgs : r.msgs[k].device = d /\ r.msgs[k].token \in Called(r)
  /\ r.pc \in {"idle", "list", "post", "sleep"} \/ (r.pc = "done" /\ r.failed) => r.revoked = {}
  /\ r.pc = "done" /\ ~r.failed => r.invalid = <<>>
  /\ \/ r.pc = "done" /\ r.failed
     \/ \A t \in Called(r) : \/ \E n \in DOMAIN r.invalid : r.invalid[n] = t
                            \/ ByToken(r, t) \subseteq r.revoked \cup r.missed

\* What a device may have got while its batch is posted, counting the attempts that ended.
AttemptsEnded(r) == r.attempt + (IF r.pc = "sleep" THEN 1 ELSE 0)

\* Every device is listed once, those of later batches have got nothing, and those of the
\* current one at most a copy per attempt.
CopiesSound(r) ==
  /\ \A k, l \in DOMAIN r.msgs : r.msgs[k].device = r.msgs[l].device => k = l
  /\ \A d \in Devices : r.copies[d] <= MaxRetries + 1
  /\ r.pc \in {"idle", "list"} => /\ r.i = 1 /\ r.attempt = 0 /\ r.flagged = {} /\ r.invalid = <<>>
                                 /\ \A d \in Devices : r.copies[d] = 0
  /\ r.pc \in {"post", "sleep"} =>
       /\ r.i \in DOMAIN r.msgs
       /\ r.pc = "sleep" => r.attempt < MaxRetries
       /\ \A k \in DOMAIN r.msgs :
            k >= r.i => r.copies[r.msgs[k].device] <= IF k \in Batch(r) THEN AttemptsEnded(r) ELSE 0

\* A device that did not register anew has the token it was listed with, or none.
RenewalSound ==
  /\ renewed \in [Senders -> SUBSET Devices]
  /\ wrong \in [Senders -> SUBSET Devices]
  /\ \A s \in Senders :
       /\ wrong[s] \subseteq renewed[s]
       /\ \A k \in DOMAIN send[s].msgs :
            LET m == send[s].msgs[k]
            IN m.device \in Listed(send[s]) \ renewed[s] => rows[m.device] \in {m.token, NoToken}

\* The inductive invariant of the proofs, and what rests on it.
PushInv == PushTypeOK /\ \A s \in Senders : ReportSound(send[s]) /\ CopiesSound(send[s])

\* A send ends: every request has a timeout, the attempts are counted and every token
\* is revoked or passed over (expo_sender.go:135, push_send.go:115).
SendsEnd == \A s \in Senders : send[s].pc = "list" ~> send[s].pc = "done"

=============================================================================
