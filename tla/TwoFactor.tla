------------------------------ MODULE TwoFactor ------------------------------
(***************************************************************************)
(* woob/browser/mfa.py, TwoFactorBrowser, with the state that StatesMixin  *)
(* and the backend keep between two programs, the browsers that            *)
(* SwitchingBrowserWithState switches, and the question that the           *)
(* application asks: one backend, used by one program after the other.     *)
(*                                                                         *)
(* A challenge of the site is numbered; the session it is asked in has the *)
(* number of its first challenge, and is what the cookies hold (0: none).  *)
(* A code answers one challenge and is right or wrong.                     *)
(***************************************************************************)
EXTENDS Integers, Sequences

CONSTANTS
  Methods,          \* keys of AUTHENTICATION_METHODS, in order
  SkipOn,           \* SKIP_LOCATE_BROWSER_ON_CONFIG_VALUES
  CredentialsOnly,  \* HAS_CREDENTIALS_ONLY
  StateDuration, TwofaDuration,
  Sites,            \* keys of BROWSERS
  MaxTime,          \* bound: the clock
  MaxAsked          \* bound: challenges and sessions

Keys  == {Methods[i] : i \in DOMAIN Methods}
Never == -1
Codes == [to : 0..MaxAsked, right : BOOLEAN]
None  == [to |-> 0, right |-> FALSE]

ASSUME TwoFactorAssumption ==
  /\ Methods \in Seq(Keys) /\ \A i, j \in DOMAIN Methods : Methods[i] = Methods[j] => i = j
  /\ Keys # {} /\ SkipOn \subseteq Keys /\ CredentialsOnly \in BOOLEAN
  /\ StateDuration \in Nat /\ TwofaDuration \in Nat
  /\ "main" \in Sites /\ "none" \notin Sites
  /\ MaxTime \in Nat /\ MaxAsked \in Nat

VARIABLES
  now,         \* the clock
  home,        \* the site of the account
  asked,       \* the session of each challenge of the site, and those it opened without one
  open,        \* sessions that are logged in
  pc,          \* the program: "off", "idle", "create", "login", "ask" or "work"
  interactive, \* does its configuration have INTERACTIVE_NAME?
  config,      \* the code in each key of its configuration
  browser,     \* its browser
  switched,    \* has the running call switched to another one?
  storage,     \* browser_state
  (* history *)
  told,        \* last challenge the user was told of, 0 once it is accepted
  field,       \* the key that takes its code
  want,        \* session that the user was last asked about or logged in with
  acceptedAt,  \* when a code was accepted in that session
  dumpedAt,    \* last time a browser was dumped
  safe,        \* was one since that session began or was accepted?
  forgotten    \* may that session be forgotten?

world   == <<now, home, asked, open>>
history == <<told, field, want, acceptedAt, dumpedAt, safe, forgotten>>
vars == <<world, pc, interactive, config, browser, switched, storage, history>>

OnlyPc == UNCHANGED <<world, interactive, config, browser, switched, storage, history>>

NoBrowser == [site |-> "none", cookie |-> 0, page |-> "none", twofa |-> Never]
NoConfig  == [k \in Keys |-> None]

Init ==
  /\ now = 0 /\ home \in Sites /\ asked = <<>> /\ open = {}
  /\ pc = "off" /\ interactive = FALSE /\ config = NoConfig
  /\ browser = NoBrowser /\ switched = FALSE
  /\ storage = [site |-> "main", cookie |-> 0, url |-> "none", twofa |-> Never,
                expire |-> MaxTime]
  /\ told = 0 /\ field = Methods[1] /\ want = 0 /\ acceptedAt = Never /\ dumpedAt = 0
  /\ safe = TRUE /\ forgotten = FALSE

-----------------------------------------------------------------------------
(* The site and the clock.                                                 *)

Tick ==
  /\ now < MaxTime /\ now' = now + 1
  /\ UNCHANGED <<home, asked, open, pc, interactive, config, browser, switched,
                 storage, history>>

SiteCloses ==
  /\ \E s \in open : open' = open \ {s}
  /\ UNCHANGED <<now, home, asked, pc, interactive, config, browser, switched,
                 storage, history>>

Room        == Len(asked) < MaxAsked
Sent(s)     == asked' = Append(asked, s)
Latest(c)   == \A i \in c + 1..Len(asked) : asked[i] # asked[c]
Accepted(c) ==   \* may the site accept this code in this browser?
  /\ c.right /\ Latest(c.to)
  /\ browser.site = home /\ browser.cookie = asked[c.to]

(* What a session is worth from now on.                                    *)
Begins(challenge, key, session, date) ==
  /\ told' = challenge /\ field' = key /\ want' = session /\ acceptedAt' = date
  /\ safe' = FALSE /\ forgotten' = FALSE
  /\ UNCHANGED dumpedAt

MayForget(why) ==
  /\ forgotten' = (forgotten \/ why)
  /\ UNCHANGED <<told, field, want, acceptedAt, dumpedAt, safe>>

-----------------------------------------------------------------------------
(* A program, its calls, and its browser.                                  *)

HasCode == \E k \in Keys : config[k] # None
FirstKey ==
  Methods[CHOOSE i \in DOMAIN Methods :
            config[Methods[i]] # None /\ \A j \in 1..i - 1 : config[Methods[j]] = None]

StartProgram ==   \* its configuration may have the code for the last question
  /\ pc = "off" /\ pc' = "idle"
  /\ interactive' \in BOOLEAN
  /\ \/ config' = NoConfig
     \/ /\ told # 0
        /\ \E right \in BOOLEAN :
             config' = [NoConfig EXCEPT ![field] = [to |-> told, right |-> right]]
  /\ UNCHANGED <<world, browser, switched, storage, history>>

Call ==
  /\ pc = "idle"
  /\ pc' = IF browser = NoBrowser THEN "create" ELSE "login"
  /\ switched' = FALSE
  /\ UNCHANGED <<world, interactive, config, browser, storage, history>>

NeverSkip == FALSE   \* mutant

ShouldSkipLocateBrowser == \E k \in SkipOn : config[k] # None

(* locate_browser(): an HTTPError is swallowed; the url of a login page may *)
(* have the site send another challenge.                                   *)
Goes == storage.url # "none" /\ ~ storage.expire < now /\ ~ ShouldSkipLocateBrowser

LoadedCookie == IF storage.expire < now THEN 0 ELSE storage.cookie

Create(page) ==
  /\ pc = "create" /\ pc' = "login"
  /\ browser' = [site |-> storage.site, cookie |-> LoadedCookie, page |-> page,
                 twofa |-> storage.twofa]
  /\ UNCHANGED <<now, home, open, interactive, config, switched, storage>>

Late ==   \* as the durations say
  /\ now > dumpedAt + StateDuration
  /\ acceptedAt = Never \/ now > acceptedAt + TwofaDuration

CreateNowhere ==
  /\ ~ Goes \/ storage.site # home
  /\ Create("none")
  /\ MayForget(Late) /\ UNCHANGED asked

CreateLocated ==
  /\ Goes /\ storage.site = home
  /\ Create(IF LoadedCookie \in open THEN "logged" ELSE "login")
  /\ MayForget(Late) /\ UNCHANGED asked

CreateSendsAgain ==
  /\ Goes /\ storage.site = home /\ Room
  /\ storage.url = "login" /\ LoadedCookie \notin open \cup {0}
  /\ Create("login")
  /\ Sent(LoadedCookie)
  /\ MayForget(Late \/ ~ HasCode \/ field \notin SkipOn)

CreateHTTPError ==
  /\ Goes /\ Create("none")
  /\ MayForget(TRUE) /\ UNCHANGED asked

CreateHalf == pc = "create" /\ Goes /\ pc' = "login" /\ OnlyPc   \* mutant: the call goes on

CreateFails == pc = "create" /\ Goes /\ pc' = "idle" /\ OnlyPc   \* any other exception

CreateBrowser ==
  CreateNowhere \/ CreateLocated \/ CreateSendsAgain \/ CreateHTTPError \/ CreateFails

-----------------------------------------------------------------------------
(* need_login and do_double_authentication().                              *)

IsLogged == pc = "login" /\ browser.page = "logged" /\ pc' = "work" /\ OnlyPc

Handling == pc = "login" /\ browser.page # "logged" /\ HasCode

HandleAccepts ==
  /\ Handling /\ Accepted(config[FirstKey]) /\ pc' = "work"
  /\ open' = open \cup {browser.cookie}
  /\ browser' = [browser EXCEPT !.page = "logged", !.twofa = now]
  /\ config' = NoConfig
  /\ Begins(0, Methods[1], browser.cookie, now)
  /\ UNCHANGED <<now, home, asked, interactive, switched, storage>>

NewSession == Len(asked) + 1

Asks(session, k) ==   \* BrowserQuestion: the session is not, or no more, logged in
  /\ Room /\ Sent(session) /\ pc' = "ask"
  /\ open' = open \ {session}
  /\ browser' = [browser EXCEPT !.page = "login", !.cookie = session]
  /\ Begins(NewSession, k, session, Never)
  /\ UNCHANGED <<now, home, interactive, switched, storage>>

MethodAsks ==   \* the code was wrong, or another one is needed too
  Handling /\ \E k \in Keys : Asks(IF browser.cookie = 0 THEN NewSession ELSE browser.cookie, k)

HandleAsksAndKeeps == MethodAsks /\ UNCHANGED config   \* mutant

HandleAsks == MethodAsks /\ config' = [config EXCEPT ![FirstKey] = None]

HandleFails == Handling /\ pc' = "idle" /\ OnlyPc   \* any other exception: the key stays

Initiating == pc = "login" /\ browser.page # "logged" /\ ~ HasCode

ClearThenCheck ==   \* mutant of CheckInteractive
  /\ Initiating /\ ~ CredentialsOnly /\ ~ interactive /\ pc' = "idle"
  /\ browser' = [browser EXCEPT !.cookie = 0]
  /\ UNCHANGED <<world, interactive, config, switched, storage, history>>

CheckInteractive ==   \* NeedInteractiveFor2FA
  /\ Initiating /\ ~ CredentialsOnly /\ ~ interactive /\ pc' = "idle" /\ OnlyPc

InitLogin == Initiating /\ (CredentialsOnly \/ interactive)

InitAsks ==
  /\ InitLogin /\ browser.site = home
  /\ \E k \in Keys : Asks(NewSession, k)
  /\ UNCHANGED config

InitOpens ==   \* without a second factor
  /\ InitLogin /\ browser.site = home /\ Room /\ pc' = "work"
  /\ Sent(NewSession)
  /\ open' = open \cup {NewSession}
  /\ browser' = [browser EXCEPT !.page = "logged", !.cookie = NewSession]
  /\ Begins(0, Methods[1], NewSession, Never)
  /\ UNCHANGED <<now, home, interactive, config, switched, storage>>

InitFails ==   \* once the cookies are cleared
  /\ InitLogin /\ pc' = "idle"
  /\ browser' = [browser EXCEPT !.cookie = 0]
  /\ MayForget(TRUE)
  /\ UNCHANGED <<world, interactive, config, switched, storage>>

InitSwitches ==   \* SiteSwitch: the call is made again, once, on the other browser
  /\ InitLogin /\ browser.site # home /\ ~ switched
  /\ browser' = [browser EXCEPT !.site = home, !.cookie = 0, !.page = "none"]
  /\ switched' = TRUE
  /\ MayForget(TRUE)
  /\ UNCHANGED <<world, pc, interactive, config, storage>>

DoLogin ==
  \/ HandleAccepts \/ HandleAsks \/ HandleFails
  \/ CheckInteractive \/ InitAsks \/ InitOpens \/ InitFails \/ InitSwitches

-----------------------------------------------------------------------------
(* The application asks the user, and calls again at once, later or never. *)

Answer ==
  /\ pc = "ask" /\ pc' \in {"login", "idle"}
  /\ \E right \in BOOLEAN :
       config' = [config EXCEPT ![field] = [to |-> told, right |-> right]]
  /\ switched' = FALSE
  /\ UNCHANGED <<world, interactive, browser, storage, history>>

NoAnswer == pc = "ask" /\ pc' = "idle" /\ OnlyPc

(* The function that needed the login.                                     *)
Work ==   \* it may end on a page that the browser does not know
  /\ pc = "work" /\ browser.cookie \in open /\ pc' = "idle"
  /\ \E page \in {"logged", "none"} :
       /\ browser' = [browser EXCEPT !.page = page]
       /\ MayForget(page = "none")
  /\ UNCHANGED <<world, interactive, config, switched, storage>>

LoggedOut ==
  /\ pc = "work" /\ browser.cookie \notin open /\ pc' = "idle"
  /\ browser' = [browser EXCEPT !.page = "login"]
  /\ UNCHANGED <<world, interactive, config, switched, storage, history>>

-----------------------------------------------------------------------------
(* The end of the program: dump_state(), or nothing.                       *)

SmallerOf(a, b) == IF a < b THEN a ELSE b
LargerOf(a, b)  == IF a < b THEN b ELSE a

SoonestExpire ==   \* mutant
  IF browser.twofa = Never THEN now + StateDuration
  ELSE SmallerOf(now + StateDuration, browser.twofa + TwofaDuration)

GetExpire ==
  IF browser.twofa = Never THEN now + StateDuration
  ELSE LargerOf(now + StateDuration, browser.twofa + TwofaDuration)

Off ==
  /\ pc' = "off" /\ browser' = NoBrowser /\ config' = NoConfig
  /\ interactive' = FALSE /\ switched' = FALSE
  /\ UNCHANGED world

Deinit ==
  /\ pc = "idle" /\ browser # NoBrowser
  /\ storage' = [site |-> browser.site, cookie |-> browser.cookie, url |-> browser.page,
                 twofa |-> browser.twofa, expire |-> GetExpire]
  /\ dumpedAt' = now /\ safe' = TRUE
  /\ Off /\ UNCHANGED <<told, field, want, acceptedAt, forgotten>>

DeinitUnused ==
  /\ pc = "idle" /\ browser = NoBrowser
  /\ Off /\ UNCHANGED <<storage, history>>

Kill ==
  /\ pc # "off"
  /\ MayForget(~ safe)
  /\ Off /\ UNCHANGED storage

Next ==
  \/ Tick \/ SiteCloses
  \/ StartProgram \/ Call \/ CreateBrowser \/ IsLogged \/ DoLogin
  \/ Answer \/ NoAnswer \/ Work \/ LoggedOut
  \/ Deinit \/ DeinitUnused \/ Kill

Spec == Init /\ [][Next]_vars
-----------------------------------------------------------------------------
(* Properties.                                                             *)

TypeOK ==
  /\ now \in 0..MaxTime /\ home \in Sites
  /\ asked \in Seq(1..MaxAsked) /\ Len(asked) <= MaxAsked
  /\ open \subseteq 1..Len(asked)
  /\ pc \in {"off", "idle", "create", "login", "ask", "work"}
  /\ interactive \in BOOLEAN /\ config \in [Keys -> Codes]
  /\ browser \in [site : Sites, cookie : 0..Len(asked), page : {"none", "login", "logged"},
                  twofa : Never..MaxTime] \cup {NoBrowser}
  /\ browser = NoBrowser => pc \in {"off", "idle", "create"}
  /\ switched \in BOOLEAN
  /\ storage \in [site : Sites, cookie : 0..Len(asked), url : {"none", "login", "logged"},
                  twofa : Never..MaxTime, expire : Nat]
  /\ told \in 0..Len(asked) /\ field \in Keys /\ want \in 0..Len(asked)
  /\ acceptedAt \in Never..MaxTime /\ dumpedAt \in 0..MaxTime
  /\ safe \in BOOLEAN /\ forgotten \in BOOLEAN

(* The code that do_login() hands to its method is the one the user gave   *)
(* for the last question, the browser is in the session where it was asked *)
(* and nothing has made the site send another: across programs that have   *)
(* no code (mfa.py:150, 197), and that have one (mfa.py:100, 179-184).     *)
(* Only a program without the code, or whose key is not one for which the  *)
(* browser skips locate_browser(), may have made the code void             *)
(* (CreateSendsAgain); with such a key nothing may.                        *)
CodeMeetsItsChallenge ==
  pc = "login" /\ browser.page # "logged" /\ HasCode /\ ~ forgotten =>
    LET c == config[FirstKey]
    IN  c.to = told /\ Latest(told) /\ browser.cookie = asked[told]

(* No login is made as long as the session that the last one opened is     *)
(* open, if its state was kept: for StateDuration since the last program   *)
(* or TwofaDuration since the code, whichever ends later (mfa.py:80-90),   *)
(* no program killed, and no page lost (browsers.py:1184, switch.py:110).  *)
LoginOnlyIfNeeded ==
  pc = "login" /\ browser.page # "logged" /\ ~ forgotten => want \notin open
=============================================================================
