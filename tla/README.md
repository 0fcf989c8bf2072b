# Verification of step-ui

step-ui is a web interface in Go to a step-ca certificate authority: it logs
users in, issues, renews and revokes certificates, keeps Let's Encrypt
certificates, and administers its own users. It is one process over one
PostgreSQL database, a directory of certificate files and the CA. This directory
holds TLA+ models of the parts of it in which several requests, goroutines,
failures and restarts meet, the TLC runs that check them, and TLAPS proofs.

Contents: [the system](#the-system), [the modules](#the-modules),
[the runs](#the-runs), [fairness](#fairness), [what is proved](#what-is-proved),
[where the code disagrees](#where-the-code-disagrees-with-its-documents),
[limits of the promises](#limits-of-the-promises), [what is not
modelled](#what-is-not-modelled), [plan](#plan), [how to run](#how-to-run).

## The system

All paths are relative to `src/backend/`.

| Component | State | Operations | What is hard | What makes it correct |
|---|---|---|---|---|
| Sessions and accounts (`handlers/auth.go`, `handlers/users.go`, `handlers/oidc.go`, `db/users.go`, `middleware/`) | the `users` table; signed cookies the server does not keep | login in one or two steps, OIDC login, logout, password change and reset, role, activation, creation, deletion | a handler is a sequence of statements without a transaction; cookies can only be refused by comparing an epoch | an ended session stays ended; an account cannot be revived by accident; an administrator remains |
| Second factor (`handlers/totp.go`) | four TOTP columns, `user_recovery_codes` | enrol, confirm, disable, check a code, redeem a recovery code | the replay check reads and writes in two statements and fails open | a code opens one door once; codes of an old enrolment open none |
| Password reset links (`handlers/password_reset.go`, `db/password_reset.go`) | `password_reset_tokens` | ask for a link, use it | the password is written first, the token marked last; errors of the marks are ignored | one link, one reset; only the newest link works |
| Rate limiters (`security/security.go`, `passwordResetAllowed`) | two maps in memory | check, record, clear | check and record are apart, with a password hash in between | bounded number of attempts; a block lifts |
| Temporary users (`handlers/admin_temp.go`, `handlers/temp_creds.go`, ticker in `main.go`) | `expires_at`; a map of one-time credentials | create, show once, expire | expiry is one statement every minute, against administrators who reactivate | whoever is overdue is shut out; a credential is shown once |
| OIDC login (`handlers/oidc.go`, `oidcSession` of `handlers/handler.go`) | a round-trip cookie beside the session | begin, callback, land | two cookies with different SameSite rules; all tabs share them; the callback runs in a navigation from elsewhere | a callback is refused only when something overtook it; who was logged in is in |
| Session age and cookies (`middleware/`, `api/session.go`) | the content of the session cookie, the readable CSRF cookie | slide, expire, announce a deadline, pair the tokens | one route does not slide; the last answer wins in the browser, whichever was computed last | no session beyond its cap, an unattended tab does not keep one alive, the two cookies agree, nobody falls out |
| CSRF, flash messages, API chain (`middleware/`, `api/`) | in the same two cookies | mint, check, clear; roles of operations, JSON answers | a refused form saves a session, too | as above; every operation has a role |
| Certificates (`handlers/certs.go`, `handlers/cert_ops.go`, `db/certs.go`, `stepca/`) | `certificates`, files, the CA | issue, renew, import in three ways, revoke | files, CA and table change one after the other; requests for one name share the files | what is signed or on file is recorded; a row that says revoked is right; what is revoked is shown |
| Certificate of the UI (`tlsbootstrap.go`, `tlsreload.go`) | two files, a cached pair | bootstrap, renew, reload | two files are written one after the other while handshakes read them | a matching pair is served, finally the newest |
| Let's Encrypt (`handlers/le.go`, `handlers/le_renewer.go`, `le/lego.go`, `db/le_db.go`) | `le_certificates`, two files per domain, the ACME account | issue, renew, toggle, delete, renew daily | goroutines outlive their request; rows change while they wait for a mutex; crash in between | files match; the row tells what is on file; a due certificate is renewed |
| Notifications (`handlers/notifications.go`, `db/notifications.go`) | settings, a log with event keys | send once per key, daily check, test, save the settings | looked up, sent and logged in separate statements by three kinds of callers; the settings are read twice and merged with a stale copy | once per key, not lost; a test tells the truth; a password is not lost to a form |
| CA client, root bootstrap (`stepca/client.go`, `stepca/bootstrap.go`) | a client | health, provisioners, fetch root | retries at startup | a root is trusted by fingerprint |
| Backup (`handlers/backup.go`) | a temporary directory | dump, archive, stream | dump and files are not one snapshot; a failed part leaves its file, which is bundled, and on some error paths the directory stays | what is bundled is complete; nothing is left behind |
| Pages, audit, history, paths, addresses, configuration, OpenAPI, templates | append-only logs or none | | | |

How they interact:

- Every template route goes through `RequireLogin`, which calls
  `ValidateSession`, and many through `RequireRole`. Both are guards that are
  evaluated *once*, at the start of a request. What the handler does afterwards
  is not covered by them any more. This is the source of most interleavings.
- `users` is shared by login, profile, administration, reset, OIDC and the
  ticker. `session_epoch` is the only channel from "end the sessions of this
  user" to the cookies.
- The browser's jar is shared by everything a browser has in flight; the server
  sees one copy of it per request. So is the round-trip cookie, by all tabs.
- Failed logins and certificates start goroutines that notify; they, the daily
  worker and an administrator's test meet in the log of notifications alone.
- A backup reads tables and directories while certificates are being saved.
- The limiters stand before password and second factor and before the reset
  request; `completeLogin` clears one of them, and so does an administrator.
- Issuing, renewing, importing and revoking share the two files of a name, the
  table and the CA, without a lock or a transaction.
- TLS handshakes meet the start and the renewer of the UI's own certificate in
  two files and one mutex.
- The Let's Encrypt goroutines share the mutex `issueMu`, the account files and
  the row, and talk to the pages through the row alone.

## The modules

A module models a handler as its statements on the database: one action is one
statement together with the code that follows it up to the next statement, and
any other request may come between two actions. What a request has read is kept
in its record, so that it may be stale when it is used. Names of definitions are
those of the Go functions where there is one. `PROJECT.json` maps every
definition to its lines.

Several modules have definitions like `BumpedDown` that stand right before the
real one (`Bumped`) and are used nowhere: each is a plausible mistake in the
real one, with the same parameters. Put in its place, it makes the property
listed with it in `PROJECT.json` ("mutants") fail. That shows that the property
depends on that line of the code.

### UserSession — who is logged in, and what ends it

State: `users` is the table with the columns that decide access (`active`,
`role`, `session_epoch`, the password as a version number, whether its hash is
a legacy one, whether `expires_at` has passed). `issued` is the set of *all*
session cookies ever minted: a cookie is a bearer token in somebody else's hands,
so that any of them may come back at any time. `pending` are logins that wait
for a second factor. `request` is what every worker is doing. Three history
variables: the newest password chosen (`written`), the logins whose sessions
were meant to be ended (`revoked`), and those of them of which the code read the
epoch again, or whose bump failed (`spared`).

| Code | Actions |
|---|---|
| `LoginPost`, `loginPost2FA`, `completeLogin` | `LoginPost`, `RehashPassword`, `SavePending`, `PendingEnds`, `LoginPost2FA`, `CompleteLogin` |
| `OIDCCallback`, `UpsertOIDCUser` | `UpsertOIDCUser`, `OIDCCallback`, `CompleteLogin` |
| `Logout` | `Logout` |
| `ProfilePost`, password change | `ProfilePost`, `VerifyCurrent`, `UpdateUserPassword`, `BumpAfterPassword`, `RestampSession` |
| `ResetPasswordPost` | `ResetPasswordPost`, `UpdateUserPassword`, `BumpAfterPassword` |
| `UsersPost` behind `RequireRole` | `UsersPost`, then `CreateUser`, `UpdateUserRole`, `UpdateUserActive`, `DeleteUser`, or password and bump |
| the ticker of `main` | `Lapse` (time), `ExpireOverdueTempUsers` |
| end of the process | `Restart`: requests are lost, table and cookies are not |

A cookie names the login it descends from (`sid`). That name is the model's: it
lets a property say "this session" across the re-stamp of a password change.
Logins are drawn from `Sids` and never reused. The abstraction that matters:
`written` bounds passwords, `MaxEpoch` bounds epochs, and an action whose effect
would pass a bound is not taken.

### SessionRegistry — what the epoch stands in for

The abstract specification of sessions, in two sets: a server with a list of its
sessions adds one when it issues a cookie and strikes out all sessions of a user
in one step. UserSession defines `InForce`, the cookies with the epoch of
their row, and instantiates the registry with it (`ActsAsRegistry`). The
refinement is checked by TLC in `sessions` and proved for every value of the
constants (`ImplementsRegistry`). A row that is inactive refuses its cookies and
keeps them in force: it is the bump of a deactivation that strikes them out.

### SessionCookie — one browser and its two cookies

The content of the session is a cookie. A handler works on the copy its request
brought and its answer replaces what the browser holds by then. State: clock,
the epoch of the row, the jar (session and readable CSRF cookie), what is in
flight, the deadline announced last. A request is two steps: the handler answers
what the jar holds when it is sent; `Deliver` or `Lose` is what becomes of the
answer, at any later moment and in any order.

| Code | Actions |
|---|---|
| `base`, `csrf`, `LoginGet` | `LoginGet`, `FormRefused` |
| `completeLogin`, `Logout`, `deleteSession` | `CompleteLogin`, `Logout`, `DeleteSession` |
| `ValidateSession` behind `RequireLogin` and the chain of the API | `Refuse`, `AdmitPage`, `AdmitOperation` |
| `getSession`, the route that does not slide | `GetSession` |
| `ProfilePost`, re-stamp | `ProfilePost` |
| any other request that bumps the row | `RevokedElsewhere` |
| the CSRF cookie's own lifetime | `CSRFCookieEnds` |

A refused request whose answer has no cookies (an anonymous session at a guarded page,
`DELETE /session` without the right token) changes nothing at any time and is no action.

Each request in flight keeps what the browser was told since it was sent (`missed`):
another session or none (a "turn"), or a new epoch (a "change"). Only an answer that
comes late in that sense spoils something: the pair of tokens, or the deadline
(`raced`), until an answer that sets them again settles it. `owed` says that nothing
but age may end the session, `left` that the browser was told it is out; both end when
an answer is delivered that missed such tidings. Answers of one session and one epoch
are never excused, in whatever order they come.

### OIDCLogin — the round trip

State: session and round-trip cookie of one jar, each tab's place between the
login page, the provider, the callback and where it lands. `state`, nonce and
verifier are minted together and are one number. `cross` says that a navigation
was started by a page of the provider, and with it which cookies come along
(`SessionSent`, `RoundTripCookie`). `Authenticate`, `Deliver` and `Reload` are the
provider and the browser. The account that the callback makes or finds is in
UserSession.

### TwoFactor — TOTP, replay check, recovery codes

State: the TOTP columns, the recovery codes, time in 30-second steps, what each
request is doing. A secret is the number of the enrolment that made it, a TOTP
code is a pair of secret and step, valid within `Skew` steps of now, as the
library has it. The statements of `validateTOTPWithReplayCtx` are five actions
(`ValidateCode`, `ReadClock`, `GetTOTPLastStep` or its failure,
`SetTOTPLastStep`), so that the clock may move between any two. `ReplaceDeletes`
and `ReplaceCommits` are the transaction of `ReplaceRecoveryCodes` at PostgreSQL's
default isolation: its DELETE sees what was committed by then. `again` collects
what was accepted twice; `excused` collects the circumstances for which the code
makes no promise.

### PasswordReset — links

State: accounts, tokens, mailed links, requests. `ForgotPasswordPost` is
`ForgotPasswordPost`, `InvalidateOlder`, `CreatePasswordResetToken`, `SendMail`;
`ResetPasswordPost` is `ResetPasswordPost`, `GetUserByID`, `UpdateUserPassword`,
`MarkPasswordResetTokenUsed`, `InvalidateOthers`. Any request may be cut off
between two of them, a mark may fail unnoticed, an administrator may deactivate
or delete the user (tokens go with the row) and tokens expire. What a reset does
to sessions is in UserSession.

### LoginLimiter — the two limiters of one address

An attempt is kept as its *age*, not its time: the state space is finite without
a bound on time, and time may go on for ever, which liveness needs. One action
is one critical section. `verifying` are the requests between `IsBlocked` and
`Register` or `Clear`. Addresses do not interact, so one is enough.

### LetsEncrypt — one domain

State: row, files, account, mutex, and what each goroutine is doing.
Certificates, keys and ids are numbers in the order they came to be; the
certificate and its private key have the same number, so that "the pair matches"
is an equality; a number 0 is a file that is missing or cannot be decoded.
`LEIssuePost`, `LERenew` and `RunRenewal` start a goroutine; `Lock`,
`LoadAccount`, `CreateKey`, `Register`, `Obtain`, `WriteCert`, `WriteKey`, `Return` are
`IssueCert`; `UpdateLECert` is what follows after the mutex is released. `Crash`
ends every goroutine, at worst in the middle of a file. Domains share only the
account and the mutex; another domain's goroutine adds no other behaviour than
that of a goroutine of the same domain whose row was deleted.

### CertStore — the CA's certificates of one name

State: what the CA has signed (`ours`) and revoked, `certificate.crt` and
`private.key`, the table, what each request is doing. Certificates, keys and
serials share their numbers. Rows are named by their serial, which is unique; the
serial `''` of a file that cannot be read is 0, and there is a row for it, too,
because `IssuePost`, `Renew` and `importManual` ignore the error.

| Code | Actions |
|---|---|
| `IssuePost`, `Renew` | `IssuePost` or `Renew`, then `IssueCertificate` or `IssueFails` |
| `issueCert`, `saveUploadedFile` | `OpenCrt`, `FillCrt`, `OpenKey`, `FillKey`, `WriteFails` |
| `importUpload` | `ImportUpload`, then writing and recording |
| `scanExistingCerts`, `importScan` | `ImportScan`, `GetCertBySerial`, then recording: the file is read a second time |
| `importManual` | `ImportManual`, then recording |
| `parseCertDates`, `InsertCert` | `ParseCertDates`, `InsertCert`, `InsertFails` |
| `Revoke`, `stepca.Client.Revoke` | `Revoke`, `LoadCrt`, `LoadKey`, `RevokeAtCA` or `RevokeRefused`, `UpdateCertStatus` |
| end of the process | `Crash` |

Two history variables. `replaced` relates a certificate that was overwritten on file
to everything that came there after it. `excused` says of a certificate that something
went on after which the code makes no promise that it is recorded, or that its status
is shown; each action that adds to it is one item under
[limits](#limits-of-the-promises). A scan that goes on, since the table has not the
serial or does not answer, is of the kind "new" from then on: a request that records a
revoked serial is an excuse only if it did not ask, or asked in vain.
One name is enough, because requests for different names meet only in the table,
where rows of different serials do not interact. What this leaves out is one
certificate uploaded under two names, whose row then names the later directory.
Domain policy, durations and key types decide whether a request begins.

### UICert — the certificate the UI serves

State: two files with the pair they belong to and the time they were written,
the clock of the file system, the process (mode, client for the CA, whether it
serves HTTPS), the one writer, and `certReloader`: cached pair, the two times it
goes by, its mutex, and each handshake's place in `GetCertificate`.

| Code | Actions |
|---|---|
| `main`, `ensureUICert` | `Start`, `EnsureUICert`, `Serve` |
| `startUICertRenewer`, `renewUICertOnce` | `RenewUICertOnce` |
| `issueUICert`, `generateSelfSignedCert` | `OpenCert`, `FillCert`, `OpenKey`, `FillKey`, `WriteFails` |
| `GetCertificate` | `StatCert`, `StatKey`, `Compare` (under `RLock`), `Recheck` (after `Lock`), `ReadCert`, `ReadKey`, `Store`, `LoadFails` |
| end of the process | `Crash`: files stay |

The clock may stand still between two statements of one writing, because file
systems keep time coarsely. It moves between two writings of the renewer, which
sleeps a minute at least. How long it sleeps otherwise is not modelled: it goes by
the expiry of what is on file, so that after a fallback to the self-signed pair of
ten years it sleeps for most of them (`plans/e2e-tests.md:319` notes the same).
Files an operator replaces under `provided` are not modelled either.

### Notifications — once per event

State: the row of settings, the log by event key, which certificates are close to
their expiry, whether the database answers, and where every caller of
`sendNotification` stands: it reads the settings, looks its key up, posts, logs.
Callers are the goroutines of `notifyAsync`, the worker (`WorkerStep`, which walks
a list it read) and a test. Requests that save the settings read, merge and
write (`AdminNotificationsPost`, `SaveNotificationSettings`). `Database` lets it stop
answering and answer again, `Restart` ends all callers. `received` counts what the
receiver got, `doubted` are the keys of which the code cannot know whether they
were sent, `clobbered` that a form wrote back what it had not read as stored.

### Backup — a bundle beside saves

State: the files and rows of certificates, how far a save of each has come, and what
the bundle has by now: the parts listed, warned about, the entries found and
copied. `Names`, `Dirs` and `DirOf` say what is where. The saves are `os.WriteFile`
truncating and then writing. A part may fail before, in or after its walk, with a
warning alone (`PartFails`), or, when it cannot be read back for its checksum, with a
warning and an entry of status "error" (`addFile`: `PartUnread`, `faulty`). A deferred
close may fail with nobody looking, of a directory's archive as of the bundle or the
manifest, and `writeBundleTGZ` passes over a file that `Stat` does not find
(`swallowed`).

### TempCreds — one-time credentials

State: the store with its expiries, the requests that have inserted an account and
not put its credential yet. `Put` and `Take` hold the mutex throughout, so that each is
one step, with the eviction it begins with.

### MC modules and modules of proofs

`MCUserSession`, `MCPasswordReset`, `MCCertStore` and `MCSessionCookie` extend a
module for TLC with the symmetry that is sound for it. Three MC modules put instances
beside each other that share no state, with a variable that says which of
them moves in a behaviour, so that their states add up instead of multiplying:
`MCSessions` (three casts of UserSession), `MCConsole` (LoginLimiter, Notifications in
three parts, Backup, TempCreds, OIDCLogin) and `MCFactorAndUICert` (UICert and
TwoFactor). `UserSessionProofs`, `SessionCookieProofs`, `TwoFactorProofs`,
`PasswordResetProofs`, `LetsEncryptProofs`, `CertStoreProofs`, `FactorAndUICertProofs` and
`ConsoleProofs` have the theorems; the last two extend the MC modules, so that they
speak of what stands beside each other there (`MCFactorAndUICert` takes the second factor
with its theorems, `INSTANCE TwoFactorProofs`). The inductive invariants are not among the
invariants of the runs any more: where they are proved, a small instance of them
says nothing new, and they were checked by TLC before they were proved.

## The runs

Each `.cfg` belongs to a row. "fails" marks runs that show a disagreement and
whose one property TLC finds violated.

| Run | What it asks | Bounds, and why they are enough |
|---|---|---|
| `sessions` | Does an ended session stay out (`RevokedStaysOut`), does the epoch do what a list of sessions would (`ActsAsRegistry`), who ends the last administrator (`LastAdminFallsToStaleActor`), is the overdue temporary user shut out (`LapsedIsShutOut`)? | Three casts, each with two requests at a time, two logins and two epochs. A member with a second factor, with bumps that may fail: a session is ended by one request while another mints or re-stamps, and the second login tells "other sessions" from "this one". Two administrators who delete, demote, deactivate and reset each other: one request each is past `RequireRole`; no bump fails and a password is reset once (the member's cast has both). A temporary user, a user of the provider and an administrator with a legacy hash who reactivates: the liveness needs no bound on how often, a lasso is one reactivation against one tick. All but `LapsedIsShutOut` are proved for any number. |
| `session_second_factor` (fails) | Does no session at all outlive its revocation? | One user, one login, one reset. |
| `cookies` | Do sessions end (`LifetimeBounded`), does the pair of tokens agree (`PairAgrees`), does nobody fall out (`KeptInside`), is the deadline told in time (`DeadlineKept`), is out out (`SignedOutStaysOut`)? | Two requests in flight, so that an answer can be overtaken by one that was sent later. An idle window of one, a cap of two and a clock to three: each boundary is met, reached and passed, also the cap by a session that is used. One epoch more than the first, two tokens. All five are proved for any number. |
| `factor_and_ui_cert` | What do replay check and recovery codes promise when requests of all kinds overlap over a database that may fail, and over an enrolment, its end and another one (`OneAcceptancePerStep`, `RecoveryCodesUsedOnce`, `CodesOfThisEnrolment`, `NeverLockedOut`)? Is a matching pair served, never an earlier one than was cached when the handshake began and the one on file if the files were left alone (`HandshakeServed`), is what is cached taken for current only if it is (`CacheCoherent`), does what is served never go back (`NeverBack`), is a process that serves ready to (`ReadyToServe`)? | Two requests, two secrets, two confirmations, two steps (a code of one is valid in the other), one recovery code per batch. The constraint `FewTroubles`: in the first enrolment requests overlap and at most two kinds of trouble go on, one if it is the database; in the second requests take turns, with one kind of trouble; three codes are accepted. Two handshakes, three modes, three pairs (one of the start, two renewals), a clock to 3, one restart: two handshakes that found different times reload in either order. All are proved without these bounds. |
| `totp_skew` (fails) | Is the same code accepted only once? | One request, two steps. |
| `reset_links` | Does a link set one password (`OneResetPerLink`), is there one valid link (`OneValidLink`)? | Two requests of one user, three links: the third is asked for while two others exist. Both are proved for any number. |
| `reset_race` (fails) | Is a link used once, without condition? | Two requests, one link. |
| `lets_encrypt` | Do the files match (`PairMatches`), is the registration that of the account key (`AccountMatches`), does the row tell what is on file (`RowTellsFiles`), does `pending` end (`PendingSettles`), is a due certificate renewed (`RenewalHappens`)? | A goroutine of the pages and the renewer, two rows in succession, two keys, two certificates, one restart, files and statements that may fail. A lost update needs two goroutines; a stale id needs two rows. Two goroutines of the pages can both find no account key; for that `PairMatches` and `AccountMatches` are proved for any number, as is `RowTellsFiles`. |
| `cert_store` | Is a row that says revoked right (`RevokedRowsAreRevoked`), is what the CA has revoked shown (`RevokedIsShown`), is what is signed or on file recorded (`SignedAndOnFileAreRecorded`)? | Four requests, two at a time, for two certificates, one of which may be somebody else's, one restart, every failure. One request makes a certificate, one overwrites it, one revokes it, one scans; no property compares more than two certificates. All three are proved for any number. |
| `console` | Five questions, one component at a time. How far can the login limit be overrun, is the reset limit exact, is `RetryAfter` right, does a block lift (`FailuresBounded`, `ResetsBounded`, `RetryAfterExact`, `BlockLifts`)? Is an event sent once, does a test tell the truth, does a password survive the forms, is what is due announced (`AtMostOnce`, `TestTellsTruth`, `PasswordKept`, `DueIsAttempted`)? Is a bundle complete or warned about, and can its table be restored (`NothingMissingUntold`, `RowsHaveFiles`)? Is a credential shown once (`ShownOnce`)? Is a callback refused only when overtaken (`RefusedOnlyWhenOvertaken`)? And the types of all five (`TypesOK`). | The limits of the code (5 and 3), windows of three units of time, three logins at a time: two of them can pass the check when only one failure is left, so that the overrun happens. Three goroutines with one key; the worker with two certificates, one restart and an administrator who switches the webhook; a test beside two administrators who save. One certificate with two saves while two directories are archived. Two temporary users, the store's limit of one unit of a clock to 4. Two tabs, two round trips. All but `BlockLifts` and `DueIsAttempted` are proved without these bounds. |
| `smtp_password` (fails) | Does a form with a blank password keep the stored one? | One administrator, one password. |
| `oidc_landing` (fails) | Is whoever completed a callback logged in where the browser lands? | One tab, one round trip. |

What the passing runs show beyond a restatement of the code:

- `RevokedStaysOut` and `ActsAsRegistry`: an epoch that only grows, compared for
  equality, with every minted epoch taken from a row the request has read, is
  enough. It does not matter where in its statements a login was when the
  sessions were ended, nor how often the user is deactivated and reactivated.
  What ends one session of a user ends all of them in that step, and nothing brings
  one back. `DeadStaysDead`, which is proved, says the latter of *every* step.
- `LifetimeBounded`: in whatever order answers arrive, no copy of a cookie gains
  time by it; the route that does not slide gives none.
- `KeptInside`, `PairAgrees`, `DeadlineKept`, `SignedOutStaysOut`: answers of one
  session and one epoch may arrive in any order, none loses the session, separates the
  tokens or makes the page warn too late. An answer that was sent for before a login, an
  end or a change of the password and comes after it can do each of these (for the
  deadline: one that brings back an earlier use), which is why the four say so.
- `AtMostOnce`: the log keeps an event from being sent twice as long as two callers
  do not overlap on its key and look-up and log work; nothing is said when the
  process stops between post and log. `DueIsAttempted`: restarts, switched settings
  and a worker that walks an old list only delay an announcement.
- `RowsHaveFiles`: the dump comes first and a save writes its row last. Either order
  reversed would bundle rows without their files.
- `RefusedOnlyWhenOvertaken`: the round-trip cookie has to be Lax; with the session's
  own Strict (mutant `RoundTripCookieStrict`) every callback is refused.
- `LastAdminFallsToStaleActor`: `NotOneself` is the only protection of the last
  administrator, and it is enough for one request at a time; two requests
  past `RequireRole` can take each other's role. The property says that this is
  the only way, apart from identity provider and expiry.
- `OneAcceptancePerStep` and `NeverLockedOut`: the replay check may write an
  older step over a newer one and requests may be cut off anywhere, still within
  one step of the server one code is accepted, and no step of the future is ever
  used up.
- `CodesOfThisEnrolment`: enabling and replacing the codes are separate, so that
  codes of an old enrolment can be on file; not at rest, unless a request was
  cut off.
- `OneValidLink`: also with requests cut off, resets and deletions in between.
- `PairMatches`, `AccountMatches`: the mutex is enough; also when the row a
  goroutine works for is gone, and after a restart between making a key and
  registering it.
- `RevokedRowsAreRevoked`: although `Revoke` presents whatever is in the row's files
  by then, it marks no row before the CA has revoked something for it: the row's own
  certificate, or one that has taken its place on file since.
- `RevokedIsShown`: a scan may run beside revocations; where it finds the row it leaves
  it as it is, so that only requests that do not look, or look in vain, bring a
  revoked row back.
- `SignedAndOnFileAreRecorded`: requests for one name may take each other's files;
  each records what it reads back, and what is overwritten before that is all
  that is lost.
- `CacheCoherent`, `HandshakeServed`: the times are taken before the mutex and may
  be older than what is read; then they are not the times on file for long, and
  the next handshake reads again. It would be wrong to record the times as they
  are afterwards (mutant `RecordedAfterwards`).
- `RowTellsFiles`: renewal goes by the row's date. The row tells the date of
  what is on file as long as goroutines do not overlap.
- `RenewalHappens`: a due certificate is renewed, or the attempt ends in `error`, as
  long as the database answers and no restart strands the row: a process that ends
  between `pending` and the goroutine's last statement leaves a row that
  `GetLECertsForRenewal` does not pick again. A restart anywhere else loses nothing.

## Fairness

- `sessions` (`MCSessions!FairCastSpec`): weak fairness of `ExpireOverdueTempUsers`. The ticker of
  `main` runs every 60 seconds as long as the process does, and after a restart
  again. Nothing is assumed of requests.
- `console` (`MCConsole!MCSpec`): weak fairness of the limiter's `Tick`, time passes;
  and of `WorkerStep`, the loop of `StartNotificationWorker`, which runs once a day
  as long as the process does, and again after a restart. `DueIsAttempted` asks for
  settings and a database that stay as they should; nothing else is assumed.
- `LetsEncrypt!FairSpec`: weak fairness of the work of each goroutine, strong
  fairness of `Lock` (a `sync.Mutex` in starvation mode hands itself to whoever
  has waited longest, so that a waiter is not overtaken for ever), weak fairness
  of `RunRenewal` (the loop of `StartRenewer`). Nothing is assumed of users and
  nothing of the CA: `IssueFails` is always possible, and a call to the CA ends
  one way or the other because the library's requests have time limits.

## What is proved

`UserSessionProofs`, for any number of users, logins and requests and any bounds,
from `SessionAssumption` (the initial users, roles and kinds are subsets of each
other; bounds are naturals) alone, the last one also from `CastAssumption` (the two
users that `MCSessions` names have a row):

| Theorem | Statement |
|---|---|
| `TypeCorrect` | `Spec => []TypeOK` |
| `SessionInvariant` | `Spec => []SessionInv` |
| `RevokedSessionsStayOut` | `Spec => []RevokedStaysOut` |
| `DeadSessionsStayDead` | `Spec => DeadStaysDead` |
| `ImplementsRegistry` | `Spec => ActsAsRegistry`, the refinement of SessionRegistry |
| `LastAdminStays` | `Spec => LastAdminFallsToStaleActor` |
| `CastsKeepTheirWord` | `CastSpec => []RevokedStaysOut /\ ActsAsRegistry /\ LastAdminFallsToStaleActor` |

`RevokedStaysOut` speaks of cookies. It is not inductive, for three reasons, and
`SessionInv` has one conjunct for each:

1. A cookie could be *ahead* of the row, and a later bump would make it valid.
   `CookiesFresh`: an epoch is at most that of the row; if it is equal, then the
   login is not among the ended ones and the user is not inactive, or it was
   spared. The part about inactive users is needed because a deactivation is what
   refuses a cookie until a reactivation, which does not move the epoch.
2. A cookie is minted from a copy of the row that a login under way holds.
   `LoginsFresh`: the same for these copies.
3. A password change re-stamps its session with the epoch the row has by then.
   `OwnChangesRevoked`: such a session descends from a cookie, and once its user
   is inactive it is among the ended ones, hence spared when re-stamped.

The proofs go action by action: first type correctness, then lemmas about one
cookie or copy under a bump, a deactivation, a mint, then each conjunct under each
action, then the temporal theorems from the invariant. The refinement needs two facts of it:
between two mints a row's epoch grows or stays (`RowStep`), so that its cookies stay in
force together or end together (`RegistryEnds`; `CookiesFresh` excludes a cookie
ahead of the row, which a bump would bring in); and a mint adds one cookie
(`RegistryIssues`). `LastAdminStays` rests on `ActsOnOthers`, that no administrator's
request comes to a statement about the own row, and on what each statement leaves of
everybody's standing (`StandingStep`): whoever takes the last administrator away is
another one, who hence is none any more. `CastsKeepTheirWord` is about the specification
the run checks: every step of a cast is one of UserSession (`CastActs`), and the invariants
hold of its first states (`CastStarts`) because none of them depends on who has a row then.
The theorems are safety; liveness under fairness, and what depends on enabledness, are
checked by TLC only.

`SessionCookieProofs`, for any number of requests in flight, any idle window and cap
and any length of time, from `CookieAssumption` (all are naturals) alone:

| Theorem | Statement |
|---|---|
| `TypeCorrect` | `Spec => []TypeOK` |
| `SessionsEnd` | `Spec => []LifetimeBounded` |
| `TokensMatch` | `Spec => []PairAgrees` |
| `NobodyFallsOut` | `Spec => []KeptInside` |
| `WarnedInTime` | `Spec => []DeadlineKept` |
| `LoggedOut` | `Spec => []SignedOutStaysOut` |

The properties speak of the jar; what the jar will be is in flight. `CookieInv` says
of every answer that it does what it does completely (`AnswersInv`: who sets the
readable token saves the session that has it, who announces a deadline saves the
session it is of), of every answer that was not overtaken how it relates to the jar
(`JarInv`: same user, same token, activity no earlier), and of a session that is owed
that jar and answers have it or a change of the password is still to be answered
(`OwedInv`). `HeldInv`, no copy is younger than the last login or used later than the
last use, is all that `SessionsEnd` needs. Every handler's step is first reduced to
the answer it makes, so that each is one lemma about that answer.

`TwoFactorProofs`, for any number of requests at a time, any skew, batches of any size,
and a database that fails or not, from `BoundsOK` (bounds are naturals, time has a
first step), which the theorems assume and TLC evaluates in `factor_and_ui_cert`:

| Theorem | Statement |
|---|---|
| `TypeCorrect` | `Spec => []TypeOK` |
| `NotLockedOut` | `Spec => []NeverLockedOut` |
| `OneCodePerStep` | `Spec => []OneAcceptancePerStep` |
| `RecoveryOnce` | `Spec => []RecoveryCodesUsedOnce` |
| `CodesAreCurrent` | `Spec => []CodesOfThisEnrolment` |

`FactorInv` has one part for each promise, under the conditions of that promise, and two
without any. `AloneInv`: two requests that work on the same thing at a time are on
record, so that under the condition of a promise there is one. `BatchInv`: a batch is
inserted by one confirmation, once; whatever was accepted or is on file is of a batch
that nobody is going to insert any more (`Done`), so that a code never comes back.
`TOTPInv`: what was accepted of the row's secret is not after `lastStep`; what was
accepted of another is neither pending nor in the hand of a confirmation, because
enrolling is refused while enabled and a secret is generated once. `RecoveryInv`: an
accepted code is marked or gone. `EnrolmentInv`: how far the one change that is under way
has come. The steps that write nothing but a request's place, or begin one, are one
lemma each (`FrameStep`, `BeginStep`); the statements that write are taken one by one.
`FactorAndUICertProofs` states the last four of the specification of the run
`factor_and_ui_cert` under the same names (`MCSpec => ...`), by `BothRun`.

`ConsoleProofs`, in six parts: one for each component of `MCConsole` and one about all
of them beside each other, from `NotificationAssumption` (the constants that name
different things are different) and `ConsoleAssumption`: limits and windows are positive
numbers and the workers a finite set, the time of a credential is a positive number, the
certificates that are backed up are a finite set, each of whose files is in one of
the directories, and the directories have different names, none of them that of the dump.
`X!` is the instance of a component.

| Theorem | Statement |
|---|---|
| `TypeCorrect` | `Spec => []TypeOK`, of the notifications |
| `SentOnce` | `Spec => []AtMostOnce` |
| `TestIsHonest` | `Spec => []TestTellsTruth` |
| `PasswordSurvives` | `Spec => []PasswordKept` |
| `CredInvariant` | `T!Spec => [](T!TypeOK /\ T!CredInv)` |
| `TripInvariant` | `O!Spec => [](O!TypeOK /\ O!TripInv)` |
| `LimitInvariant` | `L!Spec => [](L!TypeOK /\ L!FailuresBounded /\ L!ResetsBounded)` |
| `BackupInvariant` | `B!Spec => [](B!TypeOK /\ B!SaveInv /\ B!BundleInv)` |
| `AllRun` | `MCSpec => Spec /\ L!Spec /\ B!Spec /\ T!Spec /\ O!Spec` |
| `TypesKept` | `MCSpec => []TypesOK` |
| `FailuresStayBounded`, `ResetsStayBounded`, `RetryIsExact` | `MCSpec => []FailuresBounded`, `[]ResetsBounded`, `[]RetryAfterExact` |
| `RowsFindFiles`, `MissingIsTold` | `MCSpec => []RowsHaveFiles`, `[]NothingMissingUntold` |
| `CredentialOnce` | `MCSpec => []ShownOnce` |
| `RefusalsAreDue` | `MCSpec => []RefusedOnlyWhenOvertaken` |

- *Notifications*, for any number of certificates, goroutines, administrators and
  restarts. `OnceFor` is the argument for one key: one caller at most is past its look-up,
  the log has no entry as long as there is one, and once the receiver has the event there
  is an entry or the caller that is to write it. `TestInv` follows a test through its two
  reads; `FormInv` says that a form that typed no password and read the row as it still is
  has the password that is stored.
- *Credentials*, for any number of requests, tokens and any length of time. A token
  is with one request or was filed (`OnePost`), and only a credential that was not shown is
  in the store, with the time it was filed with (`Unseen`): whoever takes it is the first.
- *OIDC*, for any number of tabs and round trips. `TripInv` is about a tab that nothing
  has overtaken: from the redirect to the answer of the callback the round-trip cookie is its
  own (`Returning`). Each tab is a statement of its own (`InTime`), kept by every step
  that moves another tab only if it overtakes this one.
- *Limiters*, for any limits, windows and number of requests. `clean` is a loop over the
  sequence of ages; the model has it as a recursive function. What the loop keeps, and that a
  smaller window keeps no more, would be an induction over its index; the library's
  induction theorems take an operator, which the provers cannot instantiate, and `Least` (a
  set of numbers that is not empty has a least one, from `WFMin`) takes their place: the
  least index at which the claim fails has a predecessor at which it holds. With that,
  `Register` adds one to what passed the check, which counts against the requests that
  are verifying (`LoginBounded`), and `RetryAfterExact` follows from the ages being
  in order.
- *Backup*, for any certificates, directories and number of saves. `SaveInv`: a file is cut
  only while it is being written or after a save that came half way, and no row tells of
  more than is on file, because a save writes its row last. `PartsInv`: every part is
  still to come, listed or warned about, once, and the dump is first. `DumpInv`: what a
  row of the dump tells of is on file, hence is found by the walk of its directory, which comes
  later. `FoundInv`: what was found has been copied, whole or with a note, unless it is still
  to come or its archive is not sound. When a bundle is served nothing is still to come,
  and the two properties follow (`RowsFind`, `ToldOrThere`).
- *Beside each other*: a step of `MCNext` is a step of one component and leaves the
  others' variables alone (`EachStep`), so that every theorem about a component holds in
  the run's specification.

`PasswordResetProofs`, for any number of users, requests and links, from
`PasswordResetAssumption` (the bound on links is a natural) alone:

| Theorem | Statement |
|---|---|
| `TypeCorrect` | `Spec => []TypeOK` |
| `LinkInvariant` | `Spec => []LinkInv` |
| `OneLinkWorks` | `Spec => []OneValidLink` |
| `RetiredLinksAreDead` | `Spec => RetiredLinksStayRetired` |
| `SpendInvariant` | `Spec => []SpendInv` |
| `OneResetOnly` | `Spec => []OneResetPerLink` |

`LinkInv` has four parts. `RetiredAreUsed` is all that `RetiredLinksStayRetired`
needs, and holds with every failure and overlap: an id is new when it is inserted
and a used token stays used. `OneValidLink` needs the other three, while nothing
it excludes has happened: between the invalidation and the INSERT of a request
every token of its user is used (`UsedBeforeInsert`), which no second request can
disturb (`OneAsks`), so that the INSERT leaves one unused token (`OneUnused`,
about unused rather than valid ones, because expiry is not needed for it). The
proof reduces the actions that only mark, expire or delete to two facts,
`OnlyUsed` and `NoneAsks`; three actions are left.

`SpendInv` is what `OneResetPerLink` needs, which says of the history only that no link
was spent `again`. While nothing is excused, one reset of a user is at work at most
(`OneResets`), a link that has set a password is marked, or the request that is to mark
it is at that statement (`SpentIsMarked`), and no request that has yet to write holds
one (`UnspentInHand`); the row a request loads is that of its own link in any case
(`OwnToken`).

`LetsEncryptProofs`, for any number of goroutines, rows, keys, certificates and
restarts, from `LetsEncryptAssumption` (bounds are naturals; the renewer is not one
of the goroutines of the pages, and the value for "no one" is neither) alone:

| Theorem | Statement |
|---|---|
| `TypeCorrect` | `Spec => []TypeOK` |
| `IssueInvariant` | `Spec => []IssueInv` |
| `PairAlwaysMatches` | `Spec => []PairMatches` |
| `AccountAlwaysMatches` | `Spec => []AccountMatches` |
| `RestInvariant` | `Spec => []RestInv` |
| `RowTellsTruth` | `Spec => []RowTellsFiles` |

A conjunct of `TypeOK` ties the lock to the program counters: a goroutine is inside
`IssueCert` exactly when it holds `issueMu`, so that there is one at most
(`OneInside`). Neither property about the files is inductive: between two writes
the pair does not match, and whether it will depends on what the goroutine has in
hand. `IssueInv` says so: who registers has the account key on file, who makes a
key found none (`AccountInv`); who writes has the certificate obtained last, and
has written the certificate before the key (`PairInv`). Steps outside `IssueCert`
touch neither (`KeptStep`); the others are taken one by one, with `OneInside` for
the rest of the goroutines.

`RowTellsFiles` is about rest; `RestInv` says what there is at work, while nothing has
gone on that it excepts: one goroutine, for the row there is (`OneAtWork`,
`WorksForRow`); the certificate on file is the row's (`RowIsOnFile`), unless that goroutine
has written one and is still to record it (`WrittenIsOnFile`); and a row is pending
only as long as there is one (`PendingIsWorked`).

`CertStoreProofs`, for any number of requests, certificates and restarts, from
`CertStoreAssumption` (bounds are naturals) alone:

| Theorem | Statement |
|---|---|
| `TypeCorrect` | `Spec => []TypeOK` |
| `RevokedRowsTellTheTruth` | `Spec => []RevokedRowsAreRevoked` |
| `AllIsRecorded` | `Spec => []SignedAndOnFileAreRecorded` |
| `RevokedRowsShown` | `Spec => []RevokedIsShown` |

The properties speak of rows, or of moments at which nobody works; the invariants
(`StoreInv`) say what each request has in hand.

1. `RowsInv`: a row was once read from the file, so that what is on file is its
   certificate or has replaced it (`OnFile`, `StandsFor`); a revocation takes this along
   to the CA with what it presents (`RowOf`), and from its answer to the row
   (`RevokedFor`).
2. `RecordedInv`: what is promised is recorded or in the hand of a request, which
   has yet to write it, or has written it and it is still on file, or has read it
   back (`InHand`). Overwriting takes it from others' hands, and those are what
   `Raced` excuses.
3. `ShownInv`: what is revoked is marked, or some request is about to mark it
   (`Shown`), and a scan that goes on was not told of a row (`AsksWell`).

All steps are first reduced to where they take their request (`Moved`); a step
that is none of the interesting ones keeps an invariant by one lemma each
(`RowsKeptQuietly`, `RecordedKept`, `ShownKept`).

`FactorAndUICertProofs`, about UICert, for any number of handshakes, pairs and restarts, any modes and any
length of time, from `UICertAssumption` (bounds are naturals, modes are the three,
the value for "no one" is no handshake) alone:

| Theorem | Statement |
|---|---|
| `TypeCorrect` | `Spec => []TypeOK` |
| `ReloaderInvariant` | `Spec => []ReloaderInv` |
| `CacheAlwaysCoherent` | `Spec => []CacheCoherent` |
| `HandshakesAreServed` | `Spec => []HandshakeServed` |
| `ServedNeverBack` | `Spec => NeverBack` |
| `ServeInvariant` | `Spec => []ServeInv` |
| `AlwaysReady` | `Spec => []ReadyToServe` |
| `BothRun` | `MCSpec => Spec /\ F!Spec`, with TwoFactor as `F` |

Times on file only grow (`TimesInv`), and a renewal makes them larger than any that
was found before it. Hence whoever goes by the time of a file that is not empty has
what is in it (`CacheInv`, `ReadInv`), and pairs only grow. `ServeInv`: the key that is
written is that of the certificate written before it (`PairsAreWritten`), a certificate
file that is there has its key when no writing was broken off (`NothingHalfWritten`), and
where `ensureUICert` has come to its end there is a pair, which is what `ReadyToServe`
says of the listener.

Only model-checked, because liveness under fairness is beyond the prover:
`LapsedIsShutOut`, `PendingSettles`, `RenewalHappens`, `BlockLifts` and `DueIsAttempted`.
Every other property of a passing run is the statement of a theorem.

## Where the code disagrees with its documents

Five runs show it; each has its counterexample in a few steps.

- `session_second_factor`: a login that has passed the password waits for its
  second factor in a cookie without an epoch. A password reset meanwhile ends
  "every session predating it", the login is completed all the same.
- `totp_skew`: the replay check compares the *server's* step, while a code is
  valid one step before and after its own. A code accepted in one step is
  accepted again in the next.
- `reset_race`: two posts of one link both find it valid.
- `smtp_password`: a blank password in the form keeps the stored one, says the comment on
  `parseSMTPFields`; when the settings could not be read, it is merged with the
  defaults, and the save clears it.
- `oidc_landing`: the session is SameSite=Strict and "nothing reaches this cookie by a
  cross-site navigation any more". The callback sets it in a navigation that a page of
  the provider has started and redirects to `/`, which is behind `RequireLogin` and does
  not get it; the login page saves an anonymous session over it. A provider that
  answers with a redirect of its own, with no page in between, does not show this.

## Limits of the promises

Some promises hold only under conditions; the properties name them, through
history variables. What each of them excuses is this.

- *Sessions* (`spared`): the second factor above; a re-stamp that reads the epoch
  of somebody else's bump between its own bump and its read (the session then
  survives that other revocation); a bump that fails, after which the handlers
  log the error and carry on.
- *Passwords*: the rehash of a legacy hash is an unconditional UPDATE with the
  password of a row read earlier (`RehashPassword`); a reset committed in between
  is undone. No property speaks of it.
- *Cookies* (`missed`, `raced`): an answer that was sent for before a login, an end or a
  change of the password and comes after it brings back what it copied: an old token,
  an old epoch (the browser is then out), a session that was left, an earlier use. The
  code has nothing against it. When the row cannot be read again after the bump of a
  password change (`handlers/users.go:274`) the session keeps the old epoch: the user
  has changed the password and is put out (`ProfilePost`, `RestampSession`). The
  readable CSRF cookie has eight hours of its own, which only a login and
  `GET /session` renew; `PairAgrees` speaks of a cookie that is there.
- *OIDC*: there is one round-trip cookie for all tabs, so that of two logins at a time
  the first to come back is refused, or the second.
- *Notifications* (`doubted`, `clobbered`): a delivery that failed is logged under its
  key as well and never tried again (`DueIsAttempted` says attempted). Two callers that
  both found an event new send it twice; so does one whose log entry failed. Two
  administrators who save at a time write back each other's fields.
- *Backup* (`disturbed`, `swallowed`): a certificate that is being saved while it is
  copied may be bundled in part. Errors nobody looks at lose things untold: a deferred
  `Close` of a directory's archive (`handlers/backup.go:292-296`) spoils it before its
  checksum is taken, so that it is listed as whole; one of the bundle
  (`handlers/backup.go:347-351`) or of the manifest (`handlers/backup.go:256`) cuts that
  short, and `os.Stat` with an error passes a listed file over
  (`handlers/backup.go:354-357`). `NothingMissingUntold` promises nothing of what these
  have spoilt, and nothing at all when the manifest is among it. A part that cannot be
  read back has both an entry, of status "error", and a warning; one that has failed
  before leaves its partial file, which is bundled beside the warning. When the manifest or the
  bundle itself fails the temporary directory stays (`left`).
- *TOTP* (`excused`): two checks that overlap both pass (read, then write); a
  failed read or write of `totp_last_step` lets a code pass; a confirmation that
  overlaps with a disabling may bring a disabled secret back, with its last
  step reset. *Recovery codes*: two redemptions at a time, or a failed mark. A
  pending enrolment has no age: `totpPendingTTL` is used for pending logins only.
- *Links* (`excused`): two requests for a link at a time leave two valid links; two
  posts, a cut off post or a failed mark leave a link usable.
- *Limiter*: with more failures on file than the limit, which logins that passed
  the check together leave, `RetryAfter` names the time the oldest ages out, when
  the address is still blocked. `RetryAfterExact` says so for exactly the limit.
- *Certificates* (`replaced`, `excused`). A row may say revoked while its own
  certificate is not, when that was overwritten on file: what was revoked is then what
  had taken its place. `Renew` inserts a new row and leaves the
  old one active with the same paths (`handlers/certs.go:254`), so that revoking
  the old row revokes the *new* certificate and marks the old row, while the new
  row stays active and the old certificate stays valid. Something revoked is not
  shown when it was revoked through another row, the answer of the CA or the
  UPDATE was lost (its error is dropped, `handlers/certs.go:295`), the process
  ended, or the serial is recorded again: `InsertCert` makes an existing row active
  (`db/certs.go:64`), by an upload or a manual import of a known certificate, a scan
  whose lookup failed (its error is dropped, `handlers/cert_ops.go:244`) or that
  reads another certificate the second time, or a scan that looked before a
  revocation and records after it. The message "Certificate already exists in
  database" of an upload (`handlers/certs.go:466`) is therefore never shown for
  that reason. Something signed is not recorded when the answer, a write or the
  INSERT was lost, the process ended, or another request overwrote the file before
  it was read back. A row with an empty serial appears when the file cannot be
  read back; a rejected upload has already overwritten the files.
- *Certificate of the UI* (`trouble`): a file that cannot be written may leave no
  pair. In self-signed mode a start looks at the certificate file alone
  (`tlsbootstrap.go:241`): after a process that ended in the middle of a writing, a
  certificate without its key is taken for a pair.
- *Let's Encrypt* (`trouble`): a restart leaves `pending`, because the goroutine
  that would replace it is gone, and so does an INSERT that commits while its answer is
  lost (`handlers/le.go:76-81`), after which no goroutine is started; the renewer picks
  neither up. Two goroutines record in another order than they issued; a renewal that
  fails leaves the row with status `error`, which the renewer never picks up again:
  `RenewalHappens` says "renewed, or found to be impossible". A process that ends, or a
  write that fails, between certificate and key leaves files that do not match until
  the next issue (`le/lego.go:213-228`); `PairMatches` excuses that, too. A write that
  fails may also leave an empty registration or account key (`Register`, `IssueFails`).

## What is not modelled

- The CA client and the bootstrap of its root: a client made once under a mutex and a
  download at start; requests to the CA are steps of CertStore and UICert.
- The ACME exchange, what the identity provider checks and claims, mail, the CA: their
  outcomes are choices of an action.
- The two downloads of a Let's Encrypt pair, which do not ask for the mutex.
- Profile fields, theme, settings, audit log, history: no decision depends on
  them.
- Pages, paths, addresses, templates, OpenAPI, browser code, configuration and
  schema: rendering, pure functions, or once at start.
- Hashing, tokens, codes: a password is its version, a token its number. That
  they cannot be guessed is not a subject of these models.

## Plan

What is left, in order of what it is worth:

1. A register whose value only moves forward as the abstract specification of UICert:
   `NeverBack` is the safety half of it.
2. UserSession and SessionCookie in one run, the epoch of one being the row of the other:
   today `RevokedElsewhere` stands for all of UserSession.
3. The rehash of a legacy hash against a password that is replaced, as a property of
   `written`.
4. The downloads of a Let's Encrypt pair, which do not ask for the mutex, and the list of
   certificates due as pages show it.

## How to run

    tlc -workers 2 -config sessions.cfg MCSessions
    tlc -workers 2 -config cookies.cfg MCSessionCookie
    tlapm UserSessionProofs.tla

and the other configurations and modules of proofs in the same way.
`PROJECT.json` names the module of each run. The longest run takes about
three minutes, each module of proofs up to two.
