---------------------------- MODULE AuthAttempts ----------------------------
(***************************************************************************)
(* What auth counts in Redis before it compares a password or mails a      *)
(* link: password/login-attempt.service.ts, email/email-action-attempt.    *)
(* service.ts, and the callers that read first and count later             *)
(* (password-sign-in, auth-challenge-policy, auth-email-delivery).         *)
(*                                                                         *)
(* A slot is a request under way in any instance of auth.  Redis runs a    *)
(* script or one command at a time; a request may pause for any time       *)
(* between two of its own.  Keys expire: a counter and a block are kept    *)
(* with the ticks they have left, and a count without a key is 0.          *)
(* Captchas are enabled.  What the answers say is left out.                *)
(***************************************************************************)
EXTENDS AttemptKeys

Nobody == [action |-> "none"]
Idle == [at |-> "idle", client |-> Nobody, unread |-> {}, cools |-> FALSE]

Init ==
    /\ clients \in Cases
    /\ count = [k \in Counter |-> 0] /\ window = [k \in Counter |-> 0]
    /\ block = [k \in Counter |-> 0]
    /\ cooldown = [m \in Mailbox |-> 0] /\ age = [m \in Mailbox |-> Cooldown]
    /\ attempt = [s \in Slot |-> Idle]

-----------------------------------------------------------------------------
Goto(s, l) == attempt' = [attempt EXCEPT ![s].at = l]
End(s) == attempt' = [attempt EXCEPT ![s] = Idle]

(* The commands of assertAllowed, sent together and answered one by one.   *)
BlocksReadIpOnly(c) == CounterKeys(c) \ {PairKey(c)}

BlocksRead(c) == CounterKeys(c)

Arrive(s) ==
    /\ attempt[s].at = "idle"
    /\ \E c \in clients :
         attempt' = [attempt EXCEPT ![s] =
                   [at |-> IF c.action = "register" THEN "mailing" ELSE "asserting",
                    client |-> c, unread |-> BlocksRead(c),
                    cools |-> c.action \in EmailActions]]
    /\ UNCHANGED <<clients, count, window, block, cooldown, age>>

ReadBlock(s) ==
    /\ attempt[s].at = "asserting"
    /\ \E k \in attempt[s].unread :
         IF block[k] > 0 THEN End(s)
         ELSE attempt' = [attempt EXCEPT ![s].unread = @ \ {k}]
    /\ UNCHANGED <<clients, count, window, block, cooldown, age>>

ReadCooldown(s) ==
    /\ attempt[s].at = "asserting" /\ attempt[s].cools
    /\ IF cooldown[CooldownKey(attempt[s].client)] > 0 THEN End(s)
       ELSE attempt' = [attempt EXCEPT ![s].cools = FALSE]
    /\ UNCHANGED <<clients, count, window, block, cooldown, age>>

(* isCaptchaRequired, and the captcha, which may not verify.               *)
CaptchaRequired(c) ==
    count[PairKey(c)] >= IF c.action = "login" THEN CaptchaPairFailures ELSE CaptchaAttempts

RequireCaptcha(s) ==
    /\ attempt[s].at = "asserting" /\ attempt[s].unread = {} /\ ~attempt[s].cools
    /\ LET c == attempt[s].client
       IN \/ Goto(s, IF c.action = "login" THEN "comparing" ELSE "reserving")
          \/ CaptchaRequired(c) /\ End(s)
    /\ UNCHANGED <<clients, count, window, block, cooldown, age>>

-----------------------------------------------------------------------------
(* login: the password is wrong, or was replaced before the session was    *)
(* created; it is right; or the address is not verified yet.               *)
ComparePassword(s) ==
    /\ attempt[s].at = "comparing"
    /\ Goto(s, "failing") \/ Goto(s, "clearing") \/ End(s)
    /\ UNCHANGED <<clients, count, window, block, cooldown, age>>

(* INCR, with PEXPIRE for a new key, and the block from the limit on.      *)
Incremented(K) == [k \in Counter |-> IF k \in K THEN count[k] + 1 ELSE count[k]]

WindowAfter(K) == [k \in Counter |-> IF k \in K /\ count[k] = 0 THEN Window ELSE window[k]]

BlockAfter(K) ==
    [k \in Counter |-> IF k \in K /\ count[k] + 1 >= Limit(k) THEN Block ELSE block[k]]

Count(K) ==
    count' = Incremented(K) /\ window' = WindowAfter(K) /\ block' = BlockAfter(K)

RecordFailure(s) ==
    /\ attempt[s].at = "failing"
    /\ Count(CounterKeys(attempt[s].client))
    /\ End(s)
    /\ UNCHANGED <<clients, cooldown, age>>

(* clear: one DEL of the pair's counter and block.                         *)
ClearBlock(s) ==
    /\ attempt[s].at = "clearing"
    /\ block' = [block EXCEPT ![PairKey(attempt[s].client)] = 0]
    /\ End(s)
    /\ UNCHANGED <<clients, count, window, cooldown, age>>

Clear(s) ==
    /\ attempt[s].at = "clearing"
    /\ LET k == PairKey(attempt[s].client)
       IN /\ count' = [count EXCEPT ![k] = 0] /\ window' = [window EXCEPT ![k] = 0]
          /\ block' = [block EXCEPT ![k] = 0]
    /\ End(s)
    /\ UNCHANGED <<clients, cooldown, age>>

-----------------------------------------------------------------------------
(* reserve: the script reads block and cooldown again before it counts.    *)
MayReserveUnlessBlocked(c) == block[PairKey(c)] = 0

MayReserve(c) == block[PairKey(c)] = 0 /\ cooldown[CooldownKey(c)] = 0

Reserve(s) ==
    /\ attempt[s].at = "reserving"
    /\ LET c == attempt[s].client
           m == CooldownKey(c)
       IN IF MayReserve(c)
          THEN /\ Count({PairKey(c)})
               /\ cooldown' = [cooldown EXCEPT ![m] = Cooldown]
               /\ age' = [age EXCEPT ![m] = 0]
               /\ Goto(s, "mailed")
          ELSE /\ End(s)
               /\ UNCHANGED <<count, window, block, cooldown, age>>
    /\ UNCHANGED clients

(* sendEmailVerificationAfterCommit: a registration's mail starts a        *)
(* cooldown where there is none.                                           *)
StartCooldown(s) ==
    /\ attempt[s].at = "mailing"
    /\ LET m == CooldownKey(attempt[s].client)
       IN cooldown' = [cooldown EXCEPT ![m] = IF @ = 0 THEN Cooldown ELSE @]
    /\ End(s)
    /\ UNCHANGED <<clients, count, window, block, age>>

(* The mail is on its way, or a command fails, and the request ends.       *)
Leave(s) ==
    /\ attempt[s].at # "idle"
    /\ End(s)
    /\ UNCHANGED <<clients, count, window, block, cooldown, age>>

-----------------------------------------------------------------------------
Less(n) == IF n > 0 THEN n - 1 ELSE 0

Tick ==
    /\ \/ \E k \in Counter : window[k] > 0 \/ block[k] > 0
       \/ \E m \in Mailbox : cooldown[m] > 0 \/ age[m] < Cooldown
    /\ count' = [k \in Counter |-> IF window[k] > 1 THEN count[k] ELSE 0]
    /\ window' = [k \in Counter |-> Less(window[k])]
    /\ block' = [k \in Counter |-> Less(block[k])]
    /\ cooldown' = [m \in Mailbox |-> Less(cooldown[m])]
    /\ age' = [m \in Mailbox |-> IF age[m] < Cooldown THEN age[m] + 1 ELSE age[m]]
    /\ UNCHANGED <<clients, attempt>>

Login(s) == ComparePassword(s) \/ RecordFailure(s) \/ Clear(s)

Request(s) ==
    \/ Arrive(s) \/ ReadBlock(s) \/ ReadCooldown(s) \/ RequireCaptcha(s)
    \/ Login(s) \/ Reserve(s) \/ StartCooldown(s) \/ Leave(s)

Next == Tick \/ \E s \in Slot : Request(s)

Spec == Init /\ [][Next]_attemptVars

-----------------------------------------------------------------------------
Places ==
    {"idle", "mailing", "asserting", "comparing", "failing", "clearing", "reserving", "mailed"}

(* Who may be where.                                                       *)
PlaceOf(s) ==
    /\ attempt[s].at # "idle" => attempt[s].client \in Client
    /\ attempt[s].at = "mailing" => attempt[s].client.action = "register"
    /\ attempt[s].at = "asserting" => attempt[s].client.action # "register"
    /\ attempt[s].at \in {"comparing", "failing", "clearing"} => attempt[s].client.action = "login"
    /\ attempt[s].at \in {"reserving", "mailed"} => attempt[s].client.action \in EmailActions

(* A counter never outlives its window: a key with a count expires.        *)
TypeOK ==
    /\ clients \subseteq Client
    /\ count \in [Counter -> Nat]
    /\ window \in [Counter -> 0..Window] /\ block \in [Counter -> 0..Block]
    /\ cooldown \in [Mailbox -> 0..Cooldown] /\ age \in [Mailbox -> 0..Cooldown]
    /\ \A k \in Counter : count[k] = 0 <=> window[k] = 0
    /\ attempt \in [Slot -> [at : Places, client : Client \cup {Nobody},
                       unread : SUBSET Counter, cools : BOOLEAN]]
    /\ \A s \in Slot : PlaceOf(s)

=============================================================================
