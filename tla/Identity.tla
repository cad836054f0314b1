------------------------------ MODULE Identity ------------------------------
(***************************************************************************)
(* One account of Identity: its credentials, its sessions (families of     *)
(* refresh tokens), the one-time links it is mailed and their delivery.    *)
(*                                                                         *)
(* A workflow is one transaction that locks the account, so it is one step *)
(* unless it reads before that lock: a password is compared outside any    *)
(* transaction (checkCredentials, checkedPassword) and a refresh token or a *)
(* reset link is looked up before the account is locked; `busy' holds what *)
(* such a request read.  A password hash is salted, so each new password   *)
(* is a number of its own.  Rate limits are left out: a link may be asked  *)
(* for at any time.                                                        *)
(***************************************************************************)
EXTENDS Naturals, FiniteSets

CONSTANTS
  Addresses,     \* e-mail addresses of the account's holder
  MaxTokens,     \* bound on refresh tokens
  MaxLinks,      \* bound on links
  MaxAttempts,   \* delivery attempts
  MaxChanges,    \* bound on changes of the credentials
  MaxFaults      \* bound on crashes and disabled accounts

Tokens == 1 .. MaxTokens
Links == 1 .. MaxLinks

VARIABLES
  account,    \* users: state, password (hash), version (auth_version), email, verified
  token,      \* refresh_tokens
  busy,       \* what a request in flight read before it locked the account
  link,       \* password_reset_tokens, email_verification_tokens and email_change_operations
              \* with the delivery of each
  worker,     \* the delivery job: its phase and link
  faults

vars == <<account, token, busy, link, worker, faults>>

NoToken == [state |-> "none", family |-> 0, since |-> 0]
Idle == [op |-> "none", id |-> 0, password |-> 0, version |-> 0, email |-> "none"]
NoJob == [phase |-> "idle", id |-> 0]

Active == account.state = "active"
Live(t) == token[t].state = "live"

-----------------------------------------------------------------------------
(* Sessions.                                                               *)

NextToken == CHOOSE t \in Tokens : token[t].state = "none" /\ \A k \in Tokens : k < t => token[k].state # "none"
TokenLeft == \E t \in Tokens : token[t].state = "none"

\* `since' records the credentials the session was opened with.
CreateToken(tokens, family, since) ==
  [tokens EXCEPT ![NextToken] = [state |-> "live", family |-> family, since |-> since]]

\* A new family is named by its first token.
issueTokens(since) == TokenLeft /\ token' = CreateToken(token, NextToken, since)

issueTokensForFamily(tokens, family, since) == TokenLeft /\ token' = CreateToken(tokens, family, since)

Revoked(t) == [token[t] EXCEPT !.state = "revoked", !.since = 0]

RevokeToken(t) == [token EXCEPT ![t] = Revoked(t)]

RevokeFamily(family) ==
  [t \in Tokens |-> IF Live(t) /\ token[t].family = family THEN Revoked(t) ELSE token[t]]

RevokeAllForUser == [t \in Tokens |-> IF Live(t) THEN Revoked(t) ELSE token[t]]

SessionActive(family) == Active /\ \E t \in Tokens : Live(t) /\ token[t].family = family

Sessions == {token[t].family : t \in {k \in Tokens : Live(k)}}

\* The signed-in person of the account screen.
actor(family) == SessionActive(family)

-----------------------------------------------------------------------------
(* Links.  `to' are the addresses a link was mailed to.  A link that was   *)
(* used, superseded or expired does nothing any more: it is forgotten, and *)
(* its number serves again.                                                *)

NoLink == [kind |-> "none", expired |-> FALSE, address |-> "none", version |-> 0,
           to |-> {}, status |-> "none", attempts |-> 0, leased |-> FALSE]

Free(n) == link[n] = NoLink /\ worker.id # n /\ ~(busy.op = "reset" /\ busy.id = n)
LinkLeft == \E n \in Links : Free(n)
NextLink == CHOOSE n \in Links : Free(n)

Queued(n) == link[n].status \in {"pending", "sending"}
Usable(n) == link[n].kind \in {"reset", "verify", "change"} /\ ~link[n].expired
Held(n) == link[n].to # {}     \* somebody received its token

\* Every link of these kinds stops working, and its delivery ends.
Invalidate(links, kinds) == [n \in Links |-> IF links[n].kind \in kinds THEN NoLink ELSE links[n]]

InvalidateForUser(links) == Invalidate(links, {"reset"})
InvalidateEmailChanges(links) == Invalidate(links, {"change"})

\* The address a reset link goes to is read when it is mailed, and only a change
\* of address records the version of the credentials.
QueueDelivery(links, n, kind, address, version) ==
  [links EXCEPT ![n] = [NoLink EXCEPT !.kind = kind, !.address = address,
                                      !.version = version, !.status = "pending"]]

IssueVerification(address) ==
  QueueDelivery(Invalidate(link, {"verify"}), NextLink, "verify", address, 0)

IssueEmailChange(address) ==
  QueueDelivery(InvalidateEmailChanges(link), NextLink, "change", address, account.version)

-----------------------------------------------------------------------------
(* Registration, login, refresh and logout.                                *)

Register(address) ==
  /\ account.state = "none" /\ LinkLeft
  /\ account' = [state |-> "active", password |-> 1, version |-> 1, email |-> address, verified |-> FALSE]
  /\ issueTokens(1)
  /\ link' = IssueVerification(address)
  /\ UNCHANGED <<busy, worker, faults>>

Snapshot(op, id, email) ==
  [op |-> op, id |-> id, password |-> account.password, version |-> account.version, email |-> email]

\* The password is compared with no lock held.
checkCredentials ==
  /\ Active /\ busy = Idle
  /\ busy' = Snapshot("login", 0, account.email)
  /\ UNCHANGED <<account, token, link, worker, faults>>

sameCredentials == account.password = busy.password /\ account.version = busy.version

LoginUnchecked ==
  /\ busy.op = "login" /\ busy' = Idle
  /\ IF Active THEN issueTokens(busy.version) ELSE UNCHANGED token
  /\ UNCHANGED <<account, link, worker, faults>>

\* The account is read again under its lock.
login ==
  /\ busy.op = "login" /\ busy' = Idle
  /\ IF Active /\ sameCredentials /\ account.email = busy.email
       THEN issueTokens(busy.version) ELSE UNCHANGED token
  /\ UNCHANGED <<account, link, worker, faults>>

\* Whoever holds a token may present it at any time, and twice.
FindActiveByHash(t) ==
  /\ busy = Idle /\ Live(t)
  /\ busy' = [Idle EXCEPT !.op = "refresh", !.id = t]
  /\ UNCHANGED <<account, token, link, worker, faults>>

RotateUnguarded ==
  /\ busy.op = "refresh" /\ busy' = Idle
  /\ IF Active THEN issueTokensForFamily(RevokeToken(busy.id), token[busy.id].family, token[busy.id].since)
               ELSE UNCHANGED token
  /\ UNCHANGED <<account, link, worker, faults>>

\* The presented token is spent and the session gets the next one.
refreshToken ==
  /\ busy.op = "refresh" /\ busy' = Idle
  /\ IF Active /\ Live(busy.id)
       THEN issueTokensForFamily(RevokeToken(busy.id), token[busy.id].family, token[busy.id].since)
       ELSE UNCHANGED token
  /\ UNCHANGED <<account, link, worker, faults>>

\* Any token of a session, spent or not, ends the session.
Logout(t) ==
  /\ token[t].state # "none"
  /\ token' = RevokeFamily(token[t].family)
  /\ UNCHANGED <<account, busy, link, worker, faults>>

Revoke(family, all) ==
  /\ actor(family)
  /\ token' = IF all THEN RevokeAllForUser ELSE RevokeFamily(family)
  /\ UNCHANGED <<account, busy, link, worker, faults>>

\* An admin; it may name a session of a disabled account too.
RevokeSession(family) ==
  /\ token' = RevokeFamily(family)
  /\ UNCHANGED <<account, busy, link, worker, faults>>

setActive(active) ==
  /\ account.state # "none" /\ (~active => faults < MaxFaults)
  /\ account' = [account EXCEPT !.state = IF active THEN "active" ELSE "disabled"]
  /\ token' = IF active THEN token ELSE RevokeAllForUser
  /\ faults' = IF active THEN faults ELSE faults + 1
  /\ UNCHANGED <<busy, link, worker>>

-----------------------------------------------------------------------------
(* Password reset and change, and the address.                             *)

UpdatePasswordHash ==
  /\ account.version <= MaxChanges
  /\ account' = [account EXCEPT !.password = account.version + 1, !.version = @ + 1]

requestPasswordReset ==
  /\ Active /\ LinkLeft
  /\ link' = QueueDelivery(InvalidateForUser(link), NextLink, "reset", "none", 0)
  /\ UNCHANGED <<account, token, busy, worker, faults>>

FindUsableByHash(n) ==
  /\ busy = Idle /\ link[n].kind = "reset" /\ Held(n) /\ Usable(n)
  /\ busy' = [Idle EXCEPT !.op = "reset", !.id = n]
  /\ UNCHANGED <<account, token, link, worker, faults>>

resetPassword ==
  /\ busy.op = "reset" /\ busy' = Idle
  /\ IF Active /\ link[busy.id].kind = "reset" /\ Usable(busy.id)
       THEN /\ UpdatePasswordHash
            /\ link' = InvalidateForUser(link) /\ token' = RevokeAllForUser
       ELSE UNCHANGED <<account, token, link>>
  /\ UNCHANGED <<worker, faults>>

checkedPassword(family, op, target) ==
  /\ busy = Idle /\ actor(family) /\ target # account.email
  /\ busy' = Snapshot(op, family, target)
  /\ UNCHANGED <<account, token, link, worker, faults>>

ChangePassword ==
  /\ busy.op = "password" /\ busy' = Idle
  /\ IF actor(busy.id) /\ sameCredentials
       THEN /\ UpdatePasswordHash /\ token' = RevokeAllForUser
            /\ link' = InvalidateForUser(InvalidateEmailChanges(link))
       ELSE UNCHANGED <<account, token, link>>
  /\ UNCHANGED <<worker, faults>>

RequestEmailChange ==
  /\ busy.op = "email" /\ busy' = Idle /\ LinkLeft
  /\ link' = IF actor(busy.id) /\ sameCredentials
               THEN IssueEmailChange(busy.email) ELSE link
  /\ UNCHANGED <<account, token, worker, faults>>

CompleteKeepingResets(n) ==
  /\ account' = [account EXCEPT !.email = link[n].address, !.verified = TRUE, !.version = @ + 1]
  /\ link' = QueueDelivery(Invalidate(link, {"change", "verify"}), n, "changed", account.email, 0)

\* Every link of the old address stops working, and the old address is told
\* by a mail without a link, in the place of the link just used.
CompleteEmailChange(n) ==
  /\ account' = [account EXCEPT !.email = link[n].address, !.verified = TRUE, !.version = @ + 1]
  /\ link' = QueueDelivery(InvalidateForUser(Invalidate(link, {"change", "verify"})), n, "changed", account.email, 0)

ConfirmEmailChange(n) ==
  /\ link[n].kind = "change" /\ Held(n) /\ account.version <= MaxChanges
  /\ Active /\ Usable(n) /\ link[n].version = account.version
  /\ CompleteEmailChange(n)
  /\ token' = RevokeAllForUser
  /\ UNCHANGED <<busy, worker, faults>>

Resend ==
  /\ Active /\ ~account.verified /\ LinkLeft
  /\ link' = IssueVerification(account.email)
  /\ UNCHANGED <<account, token, busy, worker, faults>>

\* A link for an address the account no longer has verifies nothing.
UseVerification(n) ==
  /\ link[n].kind = "verify" /\ Held(n) /\ Usable(n)
  /\ Active /\ account.email = link[n].address
  /\ link' = [link EXCEPT ![n] = NoLink]
  /\ account' = [account EXCEPT !.verified = TRUE]
  /\ UNCHANGED <<token, busy, worker, faults>>

\* Its lifetime ends; a delivery in progress is still to be closed.
Expire(n) ==
  /\ link[n].kind # "none" /\ ~link[n].expired
  /\ link' = [link EXCEPT ![n] = IF Queued(n) THEN [@ EXCEPT !.expired = TRUE] ELSE NoLink]
  /\ UNCHANGED <<account, token, busy, worker, faults>>

-----------------------------------------------------------------------------
(* Delivery: one job at a time, at most 30 seconds under a lease of 45.    *)

Delivered(l, status) == [l EXCEPT !.status = status, !.leased = FALSE, !.attempts = 0]

\* Deliveries past their time end, and those whose last attempt never finished.
SweepDeliveries(links) ==
  [n \in Links |->
     IF links[n].status \in {"pending", "sending"} /\ links[n].expired THEN NoLink
     ELSE IF links[n].status = "sending" /\ links[n].attempts >= MaxAttempts /\ ~links[n].leased
       THEN Delivered(links[n], "failed") ELSE links[n]]

Claimable(n) == Queued(n) /\ ~link[n].expired /\ link[n].attempts < MaxAttempts /\ ~link[n].leased

ClaimDelivery(n) ==
  /\ worker = NoJob /\ Claimable(n)
  /\ link' = SweepDeliveries([link EXCEPT ![n].status = "sending", ![n].attempts = @ + 1, ![n].leased = TRUE])
  /\ worker' = [NoJob EXCEPT !.phase = "claimed", !.id = n]
  /\ UNCHANGED <<account, token, busy, faults>>

\* Nothing to claim: only the sweep.
SweepOnly ==
  /\ worker = NoJob /\ ~\E n \in Links : Claimable(n)
  /\ link' = SweepDeliveries(link) /\ link' # link
  /\ UNCHANGED <<account, token, busy, worker, faults>>

\* Whether a delivery may still be read, and the address it goes to.
Readable(n) ==
  /\ link[n].status = "sending" /\ link[n].leased /\ ~link[n].expired
  /\ Active \/ link[n].kind = "changed"
  /\ link[n].kind = "verify" => link[n].address = account.email
  /\ link[n].kind = "change" => link[n].version = account.version

AddressOf(n) == IF link[n].kind = "reset" THEN account.email ELSE link[n].address

\* Notification reads the mail and sends it; the answer may be lost after it went
\* out.  A mail read before its link ended and sent after carries a dead link.
NotifyReset ==
  /\ worker.phase = "claimed"
  /\ \E outcome \in {"sent", "failed"}, arrives \in BOOLEAN :
       /\ outcome = "sent" => arrives
       /\ arrives => Readable(worker.id)
       /\ worker' = [worker EXCEPT !.phase = outcome]
       /\ link' = IF arrives THEN [link EXCEPT ![worker.id].to = @ \cup {AddressOf(worker.id)}] ELSE link
  /\ UNCHANGED <<account, token, busy, faults>>

FinishDelivery ==
  /\ worker.phase \in {"sent", "failed"} /\ worker' = NoJob
  /\ LET n == worker.id
     IN  link' = IF link[n].status # "sending" THEN link
                 ELSE IF worker.phase = "sent" /\ link[n].kind = "changed" THEN [link EXCEPT ![n] = NoLink]
                 ELSE IF worker.phase = "sent" THEN [link EXCEPT ![n] = Delivered(@, "sent")]
                 ELSE IF link[n].attempts >= MaxAttempts THEN [link EXCEPT ![n] = Delivered(@, "failed")]
                 ELSE [link EXCEPT ![n].leased = FALSE, ![n].status = "pending"]
  /\ UNCHANGED <<account, token, busy, faults>>

\* The process stops during a job.
Crash ==
  /\ worker # NoJob /\ faults < MaxFaults
  /\ worker' = NoJob /\ faults' = faults + 1
  /\ UNCHANGED <<account, token, busy, link>>

LeaseEnds(n) ==
  /\ link[n].leased /\ worker.id # n
  /\ link' = [link EXCEPT ![n].leased = FALSE]
  /\ UNCHANGED <<account, token, busy, worker, faults>>

-----------------------------------------------------------------------------
Init ==
  /\ account = [state |-> "none", password |-> 0, version |-> 0, email |-> "none", verified |-> FALSE]
  /\ token = [t \in Tokens |-> NoToken]
  /\ busy = Idle /\ worker = NoJob /\ faults = 0
  /\ link = [n \in Links |-> NoLink]

Deliver == SweepOnly \/ NotifyReset \/ FinishDelivery

Next ==
  \/ \E a \in Addresses : Register(a)
  \/ checkCredentials \/ login \/ refreshToken \/ requestPasswordReset \/ resetPassword
  \/ ChangePassword \/ RequestEmailChange \/ Resend
  \/ \E t \in Tokens : FindActiveByHash(t) \/ Logout(t)
  \/ \E family \in Sessions :
       \/ RevokeSession(family) \/ \E all \in BOOLEAN : Revoke(family, all)
       \/ checkedPassword(family, "password", "none")
       \/ \E a \in Addresses : checkedPassword(family, "email", a)
  \/ \E active \in BOOLEAN : setActive(active)
  \/ \E n \in Links : FindUsableByHash(n) \/ ConfirmEmailChange(n) \/ UseVerification(n) \/ Expire(n)
  \/ \E n \in Links : ClaimDelivery(n) \/ LeaseEnds(n)
  \/ Deliver \/ Crash

Spec == Init /\ [][Next]_vars

-----------------------------------------------------------------------------
\* A session lives only on the credentials it was opened with, and in one copy:
\* a password change, a reset, a new address or a disabled account ends every
\* session, those being opened or refreshed at that moment included, and a
\* refresh token presented twice never opens a second line.
SessionsAreCurrent ==
  /\ \A t \in Tokens : Live(t) => Active /\ token[t].since = account.version
  /\ \A t, k \in Tokens : Live(t) /\ Live(k) /\ token[t].family = token[k].family => t = k

\* A link that still works was mailed to an address the account has now: a reset
\* link sent to an address that was replaced is dead.
LinksFollowAddress ==
  \A n \in Links : (link[n].kind \in {"reset", "verify"} /\ Usable(n)) => link[n].to \subseteq {account.email}

-----------------------------------------------------------------------------
(***************************************************************************)
(* How a service admits a request: the access token is verified with the   *)
(* public keys the process was started with, its session is verified with  *)
(* Identity in a call signed with the service's own key, and an admin is   *)
(* asked for again.  Meanwhile the operators rotate the token keys or the  *)
(* service keys, restarting one process after the other in the order of    *)
(* deploy/gen-jwt-keys.sh and deploy/gen-service-keys.sh.                  *)
(***************************************************************************)
CONSTANTS Lifetime,   \* of an access token (15 minutes)
          MaxTime,    \* bound on the clock
          MaxOutages   \* bound on calls that fail

Processes == {"identity", "order"}
Kids == {"old", "new"}          \* key ids; the shared secret is "legacy"
Keys == {"k1", "k2"}            \* Order's own service keys
Roles == {"buyer", "admin"}
Routes == {"own", "seller", "admin", "public"}

VARIABLES env,       \* the deployment's .env
          running,   \* running[p]: the configuration p was started with
          rotation,  \* the operators' step
          switched,  \* when Identity last started with another signing key
          subject,   \* role and whether it is active
          session,   \* the session: its number, or 0 when it was revoked
          bearer,     \* the caller's access token
          req,       \* the request under way
          now, outages

authVars == <<env, running, rotation, switched, subject, session, bearer, req, now, outages>>

NoBearer == [kid |-> "none", session |-> 0, role |-> "buyer", until |-> 0]
NoRequest == [phase |-> "idle", route |-> "own", token |-> NoBearer, with |-> [x \in {} |-> 0],
              live |-> FALSE, result |-> "none", acts |-> "none"]

\* The legacy secret is accepted for the tokens issued before the switch.
acceptLegacy == [public |-> {"old"}, signing |-> "old", key |-> "k1", hashes |-> {"k1"},
                 legacyUntil |-> Lifetime]

AuthInit ==
    /\ env = acceptLegacy /\ running = [p \in Processes |-> acceptLegacy]
    /\ rotation \in {<<"token", 0>>, <<"service", 0>>} /\ switched = 0
    /\ subject \in [role : Roles, active : {TRUE}]
    /\ session = 1
    /\ bearer = [kid |-> "legacy", session |-> 1, role |-> subject.role, until |-> Lifetime]
    /\ req = NoRequest /\ now = 0 /\ outages = 0

-----------------------------------------------------------------------------
(* The operators. *)

\* LoadTokenIssuer, LoadInternalServices: what a process refuses to start with.
LoadTokenIssuer(c) == c.signing \in Kids
LoadInternalServices(c) == c.key \in c.hashes

Restart(p) ==
    /\ running[p] # env
    /\ LoadTokenIssuer(env) /\ LoadInternalServices(env)
    /\ running' = [running EXCEPT ![p] = env]
    /\ switched' = IF p = "identity" /\ env.signing # running[p].signing THEN now ELSE switched
    /\ UNCHANGED <<env, rotation, subject, session, bearer, req, now, outages>>

Restarted == \A p \in Processes : running[p] = env

Step(kind, n) == rotation = <<kind, n>> /\ Restarted /\ rotation' = <<kind, n + 1>>

\* gen-jwt-keys.sh: append the new public key everywhere, then sign with it,
\* then, one token lifetime later, drop the old one.
RotateTokenKeys ==
    /\ \/ Step("token", 0) /\ env' = [env EXCEPT !.public = Kids]
       \/ Step("token", 1) /\ env' = [env EXCEPT !.signing = "new"]
       \/ Step("token", 2) /\ now >= switched + Lifetime /\ env' = [env EXCEPT !.public = {"new"}]
    /\ UNCHANGED <<running, switched, subject, session, bearer, req, now, outages>>

\* gen-service-keys.sh: the new key with both hashes, then the old hash goes.
RotateServiceKeys ==
    /\ \/ Step("service", 0) /\ env' = [env EXCEPT !.key = "k2", !.hashes = Keys]
       \/ Step("service", 1) /\ env' = [env EXCEPT !.hashes = {"k2"}]
    /\ UNCHANGED <<running, switched, subject, session, bearer, req, now, outages>>

-----------------------------------------------------------------------------
(* The account. *)

IssueSessionToken(s) ==
    bearer' = [kid |-> running["identity"].signing, session |-> s, role |-> subject.role,
              until |-> now + Lifetime]

\* Login after the session ended, refresh while it lasts.
SignIn ==
    /\ subject.active /\ req.phase = "idle"
    /\ session' = IF session = 0 THEN bearer.session + 1 ELSE session
    /\ IssueSessionToken(session')
    /\ bearer' # bearer
    /\ UNCHANGED <<env, running, rotation, switched, subject, req, now, outages>>

SessionRevoked ==
    /\ session # 0 /\ bearer.session < 2 /\ session' = 0
    /\ UNCHANGED <<env, running, rotation, switched, subject, bearer, req, now, outages>>

SetActive ==
    /\ subject.active /\ subject' = [subject EXCEPT !.active = FALSE] /\ session' = 0
    /\ UNCHANGED <<env, running, rotation, switched, bearer, req, now, outages>>

Tick ==
    /\ now < MaxTime /\ now' = now + 1
    /\ UNCHANGED <<env, running, rotation, switched, subject, session, bearer, req, outages>>

-----------------------------------------------------------------------------
(* A request to Order. *)

NewVerifier(c) == c.public

Parse(c, t) ==
    /\ now < t.until
    /\ t.kid \in NewVerifier(c) \/ (t.kid = "legacy" /\ now < c.legacyUntil)

\* Whether the session the token names has been there since the request began.
SessionAnswers(t) == subject.active /\ session # 0 /\ session = t.session

Finish(result, acts) ==
    req' = [req EXCEPT !.phase = "over", !.result = result, !.acts = acts]

\* OptionalAuth lets the request go on without an identity.
Refused(route, result) == IF route = "public" THEN "anonymous" ELSE result

RequireAuth(route) ==
    /\ req.phase = "idle"
    /\ req' = [phase  |-> IF Parse(running["order"], bearer) THEN "parsed" ELSE "over",
               route  |-> route, token |-> bearer, with |-> running["order"],
               live   |-> SessionAnswers(bearer) /\ now < bearer.until,
               result |-> IF Parse(running["order"], bearer) THEN "none" ELSE Refused(route, "unauthorized"),
               acts   |-> "none"]
    /\ UNCHANGED <<env, running, rotation, switched, subject, session, bearer, now, outages>>

\* Authenticate: Identity knows Order by the hashes it was started with.
Authenticate(key) == key \in running["identity"].hashes

\* What the verifier makes of Identity's status code: 204, 401 or another.
VerifySession(called) ==
    IF ~called THEN "unavailable"
    ELSE IF SessionAnswers(req.token) THEN "valid" ELSE "invalid"

VerifyOpen(called) == IF ~called \/ SessionAnswers(req.token) THEN "valid" ELSE "invalid"
RemoteVerifier(called) == VerifySession(called)

Fault(b) == outages' = outages + IF b THEN 0 ELSE 1

\* SellerConsole: a buyer and a vendor both act as "vendor".
SellerConsole == req.token.role \in {"buyer", "vendor"}

Verified(answered) ==
    /\ req.phase = "parsed" /\ (answered \/ outages < MaxOutages)
    /\ LET answer == RemoteVerifier(answered /\ Authenticate(req.with.key))
       IN CASE answer = "unavailable" -> Finish(Refused(req.route, "unavailable"), "none")
            [] answer = "invalid" -> Finish(Refused(req.route, "unauthorized"), "none")
            [] answer = "valid" ->
                 CASE req.route = "seller" /\ SellerConsole -> Finish("admitted", "vendor")
                   [] req.route = "admin" /\ req.token.role = "admin" -> req' = [req EXCEPT !.phase = "admin"]
                   [] req.route \in {"own", "public"} -> Finish("admitted", req.token.role)
                   [] OTHER -> Finish("forbidden", "none")
    /\ Fault(answered)
    /\ UNCHANGED <<env, running, rotation, switched, subject, session, bearer, now>>

\* The use case asks Identity for the admin's account once more.
RequireRole(answered) ==
    /\ req.phase = "admin" /\ (answered \/ outages < MaxOutages)
    /\ IF ~answered \/ ~Authenticate(req.with.key) THEN Finish("unavailable", "none")
       ELSE IF subject.active /\ subject.role = "admin" THEN Finish("admitted", "admin")
       ELSE Finish("forbidden", "none")
    /\ Fault(answered)
    /\ UNCHANGED <<env, running, rotation, switched, subject, session, bearer, now>>

Done ==
    /\ req.phase = "over" /\ req' = NoRequest
    /\ UNCHANGED <<env, running, rotation, switched, subject, session, bearer, now, outages>>

AuthNext ==
    \/ \E p \in Processes : Restart(p)
    \/ RotateTokenKeys \/ RotateServiceKeys
    \/ SignIn \/ SessionRevoked \/ SetActive \/ Tick
    \/ \E r \in Routes : RequireAuth(r)
    \/ \E answered \in BOOLEAN : Verified(answered) \/ RequireRole(answered)
    \/ Done

AuthSpec == AuthInit /\ [][AuthNext]_authVars

-----------------------------------------------------------------------------
\* A request is admitted only for a session that was alive, with a token not
\* yet expired, when the request came, whatever Identity failed to answer
\* and whichever keys are being rotated (RequireAuth, RemoteVerifier).
AdmittedWasLive ==
    req.phase = "over" /\ req.result = "admitted" => req.live

\* Nobody is signed out by a rotation or by a fault: an answer of 401 means
\* that the session had ended or the token expired (deploy/gen-jwt-keys.sh:
\* "Rotation (no one is signed out)"; ErrVerificationUnavailable is 503).
NoOneIsSignedOut ==
    req.phase = "over" /\ req.result = "unauthorized" =>
        ~SessionAnswers(req.token) \/ now >= req.token.until
=============================================================================
