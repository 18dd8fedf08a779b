---- MODULE Cookies ----
(***************************************************************************)
(* Cookies of the receiver (libcharon/network/receiver.c): while too many     *)
(* IKE_SAs are half open, and for a while after that, an IKE_SA_INIT has to   *)
(* return the cookie it was answered with.  Nothing is kept for a cookie: its *)
(* time tells which of two secrets it was made with.  The counts of half-open *)
(* IKE_SAs (HalfOpen) are inputs.  One thread receives.                       *)
(***************************************************************************)
EXTENDS Integers, FiniteSets

CONSTANTS
    Hosts, Bucket,          \* addresses, and the hash of each, masked
    Buckets,                \* COOKIE_CALMDOWN_BUCKETS
    Modulus,                \* 2^32: times are unsigned integers below
    Lifetime,               \* COOKIE_LIFETIME
    CalmdownDelay,          \* COOKIE_CALMDOWN_DELAY
    SecretSwitch,           \* COOKIE_SECRET_SWITCH
    Global, PerIp,          \* is there a threshold for all, for one address?
    RngFails,               \* may the generation of a secret fail?
    Start, MaxOffset,       \* time at the start, and the largest random offset
    MaxTime                 \* bound

ASSUME TimesAssumption ==
    /\ {Modulus, Lifetime, CalmdownDelay, SecretSwitch, Start, MaxOffset, MaxTime} \subseteq Nat
    /\ MaxOffset < Start /\ Start <= MaxTime /\ MaxTime + CalmdownDelay < Modulus
    /\ SecretSwitch >= Lifetime
ASSUME BucketsAssumption ==
    Buckets \in Nat /\ Bucket \in [Hosts -> 1..Buckets] /\ 0 \notin Hosts
ASSUME FlagsAssumption == {Global, PerIp, RngFails} \subseteq BOOLEAN

VARIABLES
    now,
    secret_offset,
    secret, secret_old,     \* numbered as they are generated
    secret_first_use,
    last_threshold,         \* by bucket, 0 for all addresses
    cookies,                \* history: the cookies sent, and when
    reached,                \* history: when an IKE_SA_INIT was seen above a threshold
    last                    \* history: the last IKE_SA_INIT

cookieVars == <<now, secret_offset, secret, secret_old, secret_first_use, last_threshold,
                cookies, reached, last>>

Times == 0..MaxTime

CookiesTypeOK ==
    /\ now \in Times /\ secret_offset \in 0..MaxOffset
    /\ secret \in Nat /\ secret_old \in Nat /\ secret_old <= secret
    /\ secret_first_use \in Times
    /\ last_threshold \in [0..Buckets -> Times]
    /\ \A c \in cookies : /\ c.t \in 0..(Modulus - 1) /\ c.ip \in Hosts
                          /\ c.secret <= secret /\ c.at <= now
    /\ last.ip \in Hosts /\ last.required \in BOOLEAN

Minus(a, b) == (a - b) % Modulus

---------------------------------------------------------------------------
\* Mutant: the secret that was just replaced is the current one for its cookies.
SecretOfLate(t) ==
    IF (t + secret_offset) % Modulus > secret_first_use + 1 THEN secret ELSE secret_old

\* the secret a cookie of this time was made with
SecretOf(t) ==
    IF (t + secret_offset) % Modulus >= secret_first_use THEN secret ELSE secret_old

cookie_verify(ip, c) ==
    /\ c.t >= Minus(Minus(now, secret_offset), Lifetime)
    /\ c.ip = ip /\ c.secret = SecretOf(c.t)

\* Mutant: forgets the time when the count drops.
CalmBefore(idx) == FALSE

\* the threshold was reached within the last seconds
Calm(idx) == last_threshold[idx] > 0 /\ now < last_threshold[idx] + CalmdownDelay

cookie_required(idx, above) == above \/ Calm(idx)

Record(idx, above) ==
    IF above THEN [last_threshold EXCEPT ![idx] = now] ELSE last_threshold

\* The secret is first used, used on, or switched unless no new one is available.
Secrets ==
    LET same == UNCHANGED <<secret, secret_old>>
    IN \/ secret_first_use = 0 /\ secret_first_use' = now /\ same
       \/ /\ secret_first_use > 0 /\ (RngFails \/ now - secret_first_use <= SecretSwitch)
          /\ UNCHANGED secret_first_use /\ same
       \/ /\ secret_first_use > 0 /\ now - secret_first_use > SecretSwitch
          /\ secret_old' = secret /\ secret' = secret + 1
          /\ secret_first_use' = now

SendCookie(ip) ==
    /\ Secrets
    /\ cookies' = cookies \cup
          {[t |-> Minus(now, secret_offset), ip |-> ip, secret |-> secret', at |-> now]}

\* drop_ike_sa_init() of a message with the cookies it may hold, given whether the
\* counts are above the thresholds; that of the address is not looked at if cookies
\* are required of all.
ReceiveInit(ip, held, above, aboveIp) ==
    LET forAll == Global /\ cookie_required(0, above)
        forIp == PerIp /\ ~forAll /\ cookie_required(Bucket[ip], aboveIp)
    IN /\ above => Global
       /\ aboveIp => PerIp
       /\ last_threshold' = IF forAll THEN Record(0, above) ELSE Record(Bucket[ip], aboveIp)
       /\ IF (forAll \/ forIp) /\ ~\E c \in held : cookie_verify(ip, c)
          THEN SendCookie(ip)
          ELSE UNCHANGED <<secret, secret_old, secret_first_use, cookies>>
       /\ last' = [ip |-> ip, required |-> forAll \/ forIp]
       /\ reached' = [i \in {0} \cup Hosts |->
                         IF (i = 0 /\ above) \/ (i = ip /\ aboveIp /\ ~forAll)
                         THEN now ELSE reached[i]]
       /\ UNCHANGED <<now, secret_offset>>

Tick ==
    /\ now < MaxTime
    /\ now' = now + 1
    /\ UNCHANGED <<secret_offset, secret, secret_old, secret_first_use, last_threshold,
                   cookies, reached, last>>

CookiesInit ==
    /\ now = Start /\ secret_offset \in 0..MaxOffset
    /\ secret = 1 /\ secret_old = secret /\ secret_first_use = 0
    /\ last_threshold = [idx \in 0..Buckets |-> 0]
    /\ cookies = {} /\ reached = [i \in {0} \cup Hosts |-> 0]
    /\ last \in [ip : Hosts, required : {TRUE}]

CookiesNext ==
    \/ Tick
    \/ \E ip \in Hosts, held \in {{}} \cup {{c} : c \in cookies}, above, aboveIp \in BOOLEAN :
          ReceiveInit(ip, held, above, aboveIp)

CookiesSpec == CookiesInit /\ [][CookiesNext]_cookieVars

---------------------------------------------------------------------------
(* Properties                                                               *)

\* A cookie is valid for its lifetime and no longer, whenever the secrets are switched.
CookieValidity == \A c \in cookies : cookie_verify(c.ip, c) <=> now <= c.at + Lifetime

Calmed(i) == reached[i] = 0 \/ now >= reached[i] + CalmdownDelay

\* Cookies are not disabled unless the threshold for all was not reached for the delay.
CalmForAll == ~last.required => Calmed(0)

\* The same of the threshold for the address that a message comes from, which may
\* share its bucket with others; it is not looked at while cookies are required of all.
CalmForIp == ~last.required => Calmed(last.ip)

\* cookie_required() stays on until the threshold, for all or for an address, was
\* not reached for COOKIE_CALMDOWN_DELAY.
RequiredUntilCalm == CookiesTypeOK /\ CalmForAll /\ CalmForIp
====
