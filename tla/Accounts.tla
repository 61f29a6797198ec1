------------------------------ MODULE Accounts ------------------------------
(***************************************************************************)
(* Users and their refresh tokens: auth-controller.ts, services/jwt, the   *)
(* users repository and the cookie of a browser, over histories of calls.  *)
(*                                                                         *)
(* A call is [browser, op, email, password]; the op "wait" is no call, a   *)
(* unit of time passes.  An access token lasts AccessLife, a refresh token *)
(* RefreshLife.  A token is [claims, until]; the claims that verify()      *)
(* returns also carry the token's own expiry, as "exp".  The form that     *)
(* registers a user is at the end.                                         *)
(***************************************************************************)
EXTENDS Absent

CONSTANTS AccessLife, RefreshLife   \* TokenExpiration

ASSUME LivesAreNumbers == AccessLife \in Nat /\ RefreshLife \in Nat

NoAccounts(browsers) == [users |-> <<>>, jar |-> [b \in browsers |-> {}], now |-> 0]

Responded(st, status, data) == [store |-> st, status |-> status, data |-> data]

-----------------------------------------------------------------------------
\* Tokens (services/jwt, shared/schemas/jwt)

\* sign() refuses a payload that already has an expiry.
signToken(claims, now, life) ==
  IF "exp" \in DOMAIN claims THEN None ELSE [claims |-> claims, until |-> now + life]

createTokens(claims, now) ==
  [accessToken |-> signToken(claims, now, AccessLife), refreshToken |-> signToken(claims, now, RefreshLife)]

\* verify(): None when it throws.
verify(token, now) ==
  IF now >= token.until THEN None
  ELSE [name \in DOMAIN token.claims \cup {"exp"} |-> IF name = "exp" THEN token.until ELSE token.claims[name]]

\* Mutant: the schema lets the other claims through.
jwtPayloadSchemaKeepsAll(decoded) == decoded

\* jwtPayloadSchema drops what it does not name.
jwtPayloadSchema(decoded) == [id |-> decoded.id, email |-> decoded.email]

-----------------------------------------------------------------------------
\* The refresh cookie (modules/auth/utils)

\* The attributes that tell one cookie from another; localhost has no Domain attribute.
getRefreshCookieOptions(domain, maxAge) ==
  [domain |-> IF domain = "localhost" THEN None ELSE domain, path |-> "/", maxAge |-> maxAge]

Same(cookie, options) == cookie.domain = options.domain /\ cookie.path = options.path

\* The browser: a cookie replaces the one with its attributes, and lasts its maxAge.
setCookie(jar, options, token, now) ==
  {c \in jar : ~Same(c, options)}
    \cup {[domain |-> options.domain, path |-> options.path, token |-> token, until |-> now + options.maxAge]}

clearCookie(jar, options) == {c \in jar : ~Same(c, options)}

SentCookies(jar, now) == {c \in jar : now < c.until}

-----------------------------------------------------------------------------
\* The users repository: the index on the email is unique.

getByEmail(st, email) == FirstOf(st.users, LAMBDA user : user.email = email)

-----------------------------------------------------------------------------
\* The handlers

\* The end of register() and login().
SignedIn(st, call, user, domain) ==
  LET tokens == createTokens([id |-> user.id, email |-> user.email], st.now) IN
  Responded([st EXCEPT !.jar[call.browser] =
              setCookie(@, getRefreshCookieOptions(domain, RefreshLife), tokens.refreshToken, st.now)],
           "ok", tokens.accessToken)

register(st, call, domain) ==
  LET user == [id |-> Len(st.users) + 1, email |-> call.email, password |-> call.password] IN
  IF getByEmail(st, call.email) # None THEN Responded(st, "ConflictException", None)
  ELSE SignedIn([st EXCEPT !.users = Append(@, user)], call, user, domain)

login(st, call, domain) ==
  LET user == getByEmail(st, call.email) IN
  IF user = None THEN Responded(st, "UnauthorizedException", None)
  ELSE IF user.password # call.password THEN Responded(st, "UnauthorizedException", None)
  ELSE SignedIn(st, call, user, domain)

\* validateRefreshToken() before both.
HasCookie(st, call) == SentCookies(st.jar[call.browser], st.now) # {}

logout(st, call, domain) ==
  IF ~HasCookie(st, call) THEN Responded(st, "TokenException", None)
  ELSE Responded([st EXCEPT !.jar[call.browser] = clearCookie(@, getRefreshCookieOptions(domain, 0))], "ok", None)

\* The cookie is not renewed with the access token.
renewAccessToken(st, call) ==
  IF ~HasCookie(st, call) THEN Responded(st, "TokenException", None)
  ELSE LET cookie == CHOOSE c \in SentCookies(st.jar[call.browser], st.now) : TRUE
           decoded == verify(cookie.token, st.now) IN
       IF decoded = None THEN Responded(st, "TokenException", None)
       ELSE LET token == createTokens(jwtPayloadSchema(decoded), st.now).accessToken IN
            IF token = None THEN Responded(st, "InternalException", None) ELSE Responded(st, "ok", token)

AccountStep(st, call, domain) ==
  CASE call.op = "register" -> register(st, call, domain)
    [] call.op = "login" -> login(st, call, domain)
    [] call.op = "logout" -> logout(st, call, domain)
    [] call.op = "refresh" -> renewAccessToken(st, call)
    [] call.op = "wait" -> Responded([st EXCEPT !.now = @ + 1], "ok", None)

\* The last answer of a history, in the store it leaves.
AccountsAfter(browsers, calls, domain) ==
  LET answered[n \in 0..Len(calls)] ==
        IF n = 0 THEN Responded(NoAccounts(browsers), "ok", None)
        ELSE AccountStep(answered[n - 1].store, calls[n], domain) IN
  answered[Len(calls)]

\* The users, the tokens and what verify() returns, over some emails and passwords.
AccountUsers(emails, passwords) == [id : Nat, email : emails, password : passwords]

AccountTokens(emails) == [claims : [id : Nat, email : emails], until : Nat]

AccountClaims(emails) == [{"id", "email", "exp"} -> Nat \cup emails]

\* None is none of them: null stands for no user, no token and no claims.
NoneIsDistinct(emails, passwords) ==
  /\ None \notin emails /\ None \notin AccountUsers(emails, passwords)
  /\ None \notin AccountTokens(emails) /\ None \notin AccountClaims(emails)

-----------------------------------------------------------------------------
\* The property of a history

\* The email a browser's session is of, said without tokens and cookies: that of its last
\* accepted registration or login, until it logs out or RefreshLife has passed.
SessionOf(browsers, calls, browser, domain) ==
  LET Begins(i) ==
        /\ calls[i].browser = browser /\ calls[i].op \in {"register", "login"}
        /\ AccountsAfter(browsers, SubSeq(calls, 1, i), domain).status = "ok"
      begun == {i \in DOMAIN calls : Begins(i)}
      last == IF begun = {} THEN 0 ELSE Max(begun)
      waited == Cardinality({i \in (last + 1)..Len(calls) : calls[i].op = "wait"})
      left == \E i \in (last + 1)..Len(calls) : calls[i].browser = browser /\ calls[i].op = "logout" IN
  IF last = 0 \/ left \/ waited >= RefreshLife THEN None ELSE calls[last].email

\* A refresh is answered with a token of the browser's session while there is one, of a user
\* that registered its email alone, for AccessLife; without one it is refused, whatever the
\* other browsers did and however a registration or login failed since.
RefreshIsOfSession(browsers, calls, domain) ==
  LET st == AccountsAfter(browsers, calls, domain).store IN
  \A browser \in browsers :
    LET email == SessionOf(browsers, calls, browser, domain)
        answer == renewAccessToken(st, [browser |-> browser]) IN
    IF email = None THEN answer.status = "TokenException"
    ELSE /\ answer.status = "ok"
         /\ answer.data.until = st.now + AccessLife
         /\ {i \in DOMAIN st.users : st.users[i].email = email} = {answer.data.claims.id}
         /\ answer.data.claims.email = email

-----------------------------------------------------------------------------
\* The registration form (Authentication.tsx, PasswordValidator.tsx) and the schema the
\* backend holds its fields to (modules/auth/schemas).  A password is [text, has], has the
\* requirements its characters meet.  /login and /register render the same component in the
\* same place, so React keeps its state when the user goes from one to the other; the
\* validator is mounted on /register only and starts anew there.

Requirements == {"lowercase", "uppercase", "number", "special", "length"}

NoPassword == [text |-> "", has |-> {}]

\* validator is PasswordValidator's isValid, None while it is not mounted.
InitialForm(isRegister) ==
  [register |-> isRegister, password |-> NoPassword, confirmation |-> NoPassword,
   isPasswordValid |-> FALSE, validator |-> IF isRegister THEN FALSE ELSE None]

passwordsMatch(form) == form.password.text # "" /\ form.password.text = form.confirmation.text

MeetsRequirements(form) == passwordsMatch(form) /\ form.password.has = Requirements

\* The effect tells the parent of a change only; on its own, each branch ends it.
Effect(form) ==
  CASE MeetsRequirements(form) /\ ~form.validator ->
         [form EXCEPT !.validator = TRUE, !.isPasswordValid = TRUE]
    [] ~MeetsRequirements(form) /\ form.validator ->
         [form EXCEPT !.validator = FALSE, !.isPasswordValid = FALSE]
    [] OTHER -> form

Rendered(form) == IF form.validator = None THEN form ELSE Effect(form)

onInputChange(form, field, value) ==
  Rendered(IF field = "password" THEN [form EXCEPT !.password = value]
           ELSE IF form.register THEN [form EXCEPT !.confirmation = value] ELSE form)

\* The link under the form.
onSwitch(form) ==
  Rendered([form EXCEPT !.register = ~form.register,
                        !.validator = IF form.register THEN None ELSE FALSE])

isSubmitDisabled(form) == form.register /\ ~form.isPasswordValid

\* registerUserInputSchema: both fields meet the policy, and they are equal.
passwordSchema(password) == password.has = Requirements

registerUserInputAccepts(form) ==
  /\ passwordSchema(form.password) /\ passwordSchema(form.confirmation)
  /\ form.password.text = form.confirmation.text

\* An event of the form: a field changes or the user goes to the other form.
FormEventStep(form, event) ==
  IF event.field = "switch" THEN onSwitch(form) ELSE onInputChange(form, event.field, event.value)

RegistrationAfter(events) == FoldLeft(FormEventStep, InitialForm(TRUE), events)

\* A registration the backend would accept is never held back, and one it would refuse
\* is let through only after a visit to the login form: the validator that comes back
\* has forgotten that it reported the password it now finds wrong.
ValidRegistrationIsOffered(events) ==
  LET form == RegistrationAfter(events) IN
  form.register =>
    /\ registerUserInputAccepts(form) => ~isSubmitDisabled(form)
    /\ ~registerUserInputAccepts(form) =>
         isSubmitDisabled(form) \/ \E i \in DOMAIN events : events[i].field = "switch"

=============================================================================
