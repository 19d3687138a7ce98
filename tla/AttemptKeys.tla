----------------------------- MODULE AttemptKeys ------------------------------
(***************************************************************************)
(* The counters, blocks and cooldowns that auth keeps in Redis to limit    *)
(* sign-ins and mails, the requests that use them, and what they promise.  *)
(* AuthAttempts has the steps.                                             *)
(***************************************************************************)
EXTENDS Integers, FiniteSets

CONSTANTS
    Slot, Client, Cases,                     \* a client: [action, ip, email]
    MaxPairFailures, MaxIpFailures, MaxAttempts,
    CaptchaPairFailures, CaptchaAttempts,
    Window, Block, Cooldown                  \* in ticks

EmailActions == {"forgot_password", "resend_confirmation"}
Actions == EmailActions \cup {"login", "register"}

ASSUME AttemptsAssumption ==
    /\ IsFiniteSet(Slot)
    /\ \A c \in Client : c.action \in Actions
    /\ \A C \in Cases : C \subseteq Client
    /\ {MaxPairFailures, MaxIpFailures, MaxAttempts, CaptchaPairFailures, CaptchaAttempts}
         \subseteq Nat \ {0}
    /\ {Window, Block, Cooldown} \subseteq Nat \ {0}
    /\ Window <= Block   \* both are 15 minutes

(* The keys of a client: counters, each with its block, and the address's  *)
(* cooldown, which all clients share.                                      *)
PairKey(c) == <<c.action, c.ip, c.email>>
IpKey(c) == <<"ip", c.ip, "any">>
CooldownKey(c) ==
    <<IF c.action = "register" THEN "resend_confirmation" ELSE c.action, c.email>>

CounterKeys(c) ==
    IF c.action = "login" THEN {PairKey(c), IpKey(c)}
    ELSE IF c.action \in EmailActions THEN {PairKey(c)} ELSE {}

Counter == UNION {CounterKeys(c) : c \in Client}
Mailbox == {CooldownKey(c) : c \in {d \in Client : d.action # "login"}}

Limit(k) ==
    IF k[1] = "ip" THEN MaxIpFailures
    ELSE IF k[1] = "login" THEN MaxPairFailures ELSE MaxAttempts

VARIABLES
    clients,   \* who makes requests
    count,     \* attempts keys, and what is left of their windows
    window,
    block,     \* what is left of a block
    cooldown,  \* what is left of an address's cooldown
    age,       \* history: since the last mail reserved for an address
    attempt    \* the request in each slot

attemptVars == <<clients, count, window, block, cooldown, age, attempt>>

-----------------------------------------------------------------------------
(* Whoever has used up a limit is blocked at least until his count is      *)
(* forgotten: no order of failures, successes and ticks leaves a full      *)
(* counter open.                                                           *)
BlockedOnceCounted ==
    \A k \in Counter : count[k] >= Limit(k) => block[k] >= window[k]

(* Requests that passed assertAllowed before the block was set still       *)
(* fail and are counted; they are all a limit is exceeded by.              *)
FailuresBounded ==
    \A k \in Counter :
      k[1] \in {"ip", "login"} => count[k] <= Limit(k) - 1 + Cardinality(Slot)

(* Mails are counted when they are reserved, so their limit holds exactly. *)
ReservationsBounded ==
    \A k \in Counter : k[1] \in EmailActions => count[k] <= Limit(k)

(* Limits hold, but for the failures under way.                            *)
CountsBounded == FailuresBounded /\ ReservationsBounded

(* Mails reserved for one address are a cooldown apart, from wherever they *)
(* are asked for.                                                          *)
MailsAreApart ==
    [][\A s \in Slot :
         attempt[s].at = "reserving" /\ attempt'[s].at = "mailed" =>
           age[CooldownKey(attempt[s].client)] = Cooldown]_attemptVars
=============================================================================
