---------------------------- MODULE TwoFactorProofs ----------------------------
(***************************************************************************)
(* Proofs about TwoFactor, for any methods, sites, durations and bounds:   *)
(* where codes and sessions may be (CodesInv), then what is kept of the    *)
(* last session in the storage (StoredInv) and in the browser (BrowserInv) *)
(***************************************************************************)
EXTENDS TwoFactor, TLAPS

LEMMA Constants ==
  /\ Methods \in Seq(Keys) /\ \A i, j \in DOMAIN Methods : Methods[i] = Methods[j] => i = j
  /\ Keys # {} /\ SkipOn \subseteq Keys
  /\ StateDuration \in Nat /\ TwofaDuration \in Nat
  /\ "main" \in Sites /\ "none" \notin Sites /\ MaxTime \in Nat /\ MaxAsked \in Nat
  BY TwoFactorAssumption DEF TwoFactorAssumption

LEMMA FirstMethod == Methods[1] \in Keys
  <1>1. DOMAIN Methods = 1..Len(Methods) /\ Len(Methods) \in Nat
    BY Constants
  <1>2. PICK i \in DOMAIN Methods : TRUE
    BY Constants DEF Keys
  <1> QED
    BY <1>1, <1>2 DEF Keys

-----------------------------------------------------------------------------
(* The invariant of any browser.                                           *)

Browser == [site : Sites, cookie : 0..Len(asked), page : {"none", "login", "logged"},
            twofa : Never..MaxTime]
Stored  == [site : Sites, cookie : 0..Len(asked), url : {"none", "login", "logged"},
            twofa : Never..MaxTime, expire : Nat]

(* A code answers the challenge that the user was last told of; nobody is  *)
(* logged in in the session of a question that is open.                    *)
CodesInv ==
  /\ \A k \in Keys : config[k] # None => k = field /\ config[k].to = told /\ told # 0
  /\ told # 0 => asked[told] = want
  /\ want \in open => told = 0
  /\ pc = "ask" => told # 0
  /\ pc \in {"off", "create"} => browser = NoBrowser

IInv == TypeOK /\ CodesInv

LEMMA Initial ==
  ASSUME Init
  PROVE  IInv
  <1>1. asked \in Seq(1..MaxAsked) /\ Len(asked) = 0 /\ open \subseteq 1..Len(asked)
    BY DEF Init
  <1>2. config \in [Keys -> Codes] /\ \A k \in Keys : config[k] = None
    BY Constants DEF Init, NoConfig, None, Codes
  <1>3. storage \in Stored
    BY <1>1, Constants DEF Init, Stored, Never
  <1>4. /\ now \in 0..MaxTime /\ 0 \in 0..Len(asked) /\ dumpedAt \in 0..MaxTime
        /\ acceptedAt \in Never..MaxTime
    BY <1>1, Constants DEF Init, Never
  <1>5. /\ interactive \in BOOLEAN /\ switched \in BOOLEAN /\ safe \in BOOLEAN
        /\ forgotten \in BOOLEAN
    BY DEF Init
  <1>6. /\ pc = "off" /\ home \in Sites /\ browser = NoBrowser /\ told = 0 /\ want = 0
        /\ field \in Keys /\ Len(asked) <= MaxAsked
    BY <1>1, Constants, FirstMethod DEF Init
  <1>7. TypeOK
    BY <1>1, <1>2, <1>3, <1>4, <1>5, <1>6 DEF TypeOK, Stored
  <1> QED
    BY <1>1, <1>2, <1>6, <1>7 DEF Init, IInv, CodesInv

(* The browser that is not there has a site that there is not.             *)
LEMMA ABrowser == \A n \in Nat : NoBrowser \notin [site : Sites, cookie : 0..n,
                            page : {"none", "login", "logged"}, twofa : Never..MaxTime]
  BY Constants DEF NoBrowser

LEMMA TheBrowser ==
  ASSUME TypeOK, browser # NoBrowser \/ pc \notin {"off", "idle", "create"}
  PROVE  browser \in Browser /\ browser # NoBrowser
  BY DEF TypeOK, Browser

(* The first key with a code is the only one.                              *)
LEMMA TheKey ==
  ASSUME IInv, HasCode
  PROVE  /\ FirstKey = field /\ field \in Keys /\ told \in 1..Len(asked)
         /\ config[field] # None /\ config[field].to = told
         /\ \A k \in Keys \ {field} : config[k] = None
  <1>1. \A k \in Keys : config[k] # None => k = field /\ config[k].to = told /\ told # 0
    BY DEF IInv, CodesInv
  <1>2. PICK k \in Keys : config[k] # None
    BY DEF HasCode
  <1>3. PICK i \in DOMAIN Methods : Methods[i] = field
    BY <1>1, <1>2 DEF Keys
  <1>4. i \in Nat /\ \A j \in 1..i - 1 : j \in DOMAIN Methods /\ j # i
    BY <1>3, Constants
  <1>5. \A j \in 1..i - 1 : config[Methods[j]] = None
    BY <1>1, <1>3, <1>4, Constants DEF Keys
  <1> DEFINE P(n) == config[Methods[n]] # None /\ \A j \in 1..n - 1 : config[Methods[j]] = None
  <1>6. P(CHOOSE n \in DOMAIN Methods : P(n)) /\ (CHOOSE n \in DOMAIN Methods : P(n)) \in DOMAIN Methods
    BY <1>1, <1>2, <1>3, <1>5
  <1>7. FirstKey \in Keys /\ config[FirstKey] # None
    BY <1>6 DEF FirstKey, Keys
  <1>8. told \in 1..Len(asked)
    BY <1>1, <1>2 DEF IInv, TypeOK
  <1> QED
    BY <1>1, <1>2, <1>7, <1>8

-----------------------------------------------------------------------------
(* The steps of the actions that are used more than once.                  *)

LEMMA Sending ==
  ASSUME TypeOK, Room, NEW s \in 1..NewSession, Sent(s)
  PROVE  /\ asked' \in Seq(1..MaxAsked) /\ Len(asked') = NewSession /\ NewSession <= MaxAsked
         /\ Len(asked) \in Nat
         /\ 0..Len(asked) \subseteq 0..Len(asked') /\ 1..Len(asked) \subseteq 1..Len(asked')
         /\ NewSession \in 1..Len(asked') /\ asked'[NewSession] = s
         /\ \A i \in 1..Len(asked) : asked'[i] = asked[i]
  <1>1. Len(asked) \in Nat /\ Len(asked) < MaxAsked /\ asked \in Seq(1..MaxAsked)
    BY Constants DEF TypeOK, Room
  <1>2. s \in 1..MaxAsked /\ asked' = Append(asked, s)
    BY <1>1, Constants DEF NewSession, Sent
  <1>3. asked' \in Seq(1..MaxAsked) /\ Len(asked') = Len(asked) + 1
    BY <1>1, <1>2
  <1> QED
    BY <1>1, <1>2, <1>3, Constants DEF NewSession

-----------------------------------------------------------------------------
(* Every step keeps IInv.                                                  *)

LEMMA TickStep == ASSUME IInv, Tick PROVE IInv'
  <1>1. now' \in 0..MaxTime
    BY Constants DEF Tick, IInv, TypeOK
  <1> QED
    BY <1>1 DEF Tick, history, IInv, TypeOK, CodesInv

LEMMA ClosesStep == ASSUME IInv, SiteCloses PROVE IInv'
  BY DEF SiteCloses, history, IInv, TypeOK, CodesInv

LEMMA StartStep == ASSUME IInv, StartProgram PROVE IInv'
  <1>1. /\ \A k \in Keys : config'[k] # None => k = field /\ config'[k].to = told /\ told # 0
        /\ config' \in [Keys -> Codes]
    <2>1. CASE config' = NoConfig
      BY <2>1, Constants DEF NoConfig, None, Codes
    <2>2. CASE config' # NoConfig
      <3>1. PICK right \in BOOLEAN :
              config' = [NoConfig EXCEPT ![field] = [to |-> told, right |-> right]]
        BY <2>2 DEF StartProgram
      <3>2. told # 0 /\ told \in 0..MaxAsked /\ field \in Keys
        BY <2>2, Constants DEF StartProgram, IInv, TypeOK
      <3>3. [to |-> told, right |-> right] \in Codes /\ None \in Codes
        BY <3>2, Constants DEF Codes, None
      <3> QED
        BY <3>1, <3>2, <3>3 DEF NoConfig
    <2> QED
      BY <2>1, <2>2
  <1> QED
    BY <1>1 DEF StartProgram, world, history, IInv, TypeOK, CodesInv

LEMMA OnlyPcStep ==
  ASSUME IInv, OnlyPc, pc' \in {"idle", "login", "work"},
         browser = NoBrowser => pc' = "idle"
  PROVE  IInv'
  BY DEF OnlyPc, world, history, IInv, TypeOK, CodesInv

LEMMA CallStep == ASSUME IInv, Call PROVE IInv'
  BY DEF Call, world, history, IInv, TypeOK, CodesInv

LEMMA CookieLoaded == ASSUME TypeOK PROVE LoadedCookie \in 0..Len(asked)
  <1>1. Len(asked) \in Nat
    BY DEF TypeOK
  <1> QED
    BY <1>1 DEF TypeOK, LoadedCookie

LEMMA CreateStep == ASSUME IInv, CreateBrowser, pc' # "idle" PROVE IInv'
  <1>1. /\ UNCHANGED <<now, home, open, interactive, config, switched, storage>>
        /\ UNCHANGED <<told, field, want, acceptedAt, dumpedAt, safe>>
        /\ pc' = "login" /\ forgotten' \in BOOLEAN
    BY DEF CreateBrowser, CreateNowhere, CreateLocated, CreateSendsAgain, CreateHTTPError,
           CreateFails, Create, MayForget, IInv, TypeOK
  <1>2. PICK page \in {"none", "login", "logged"} :
          browser' = [site |-> storage.site, cookie |-> LoadedCookie, page |-> page,
                      twofa |-> storage.twofa]
    BY DEF CreateBrowser, CreateNowhere, CreateLocated, CreateSendsAgain, CreateHTTPError,
           CreateFails, Create
  <1>3. browser' \in Browser /\ browser' # NoBrowser
    <2>1. browser' \in Browser /\ Len(asked) \in Nat
      BY <1>2, CookieLoaded DEF IInv, TypeOK, Browser
    <2> QED
      BY <2>1, ABrowser DEF Browser
  <1>4. CASE UNCHANGED asked
    BY <1>1, <1>3, <1>4 DEF IInv, TypeOK, CodesInv, Browser
  <1>5. CASE Room /\ LoadedCookie # 0 /\ Sent(LoadedCookie)
    <2>1. /\ asked' \in Seq(1..MaxAsked) /\ Len(asked') <= MaxAsked
          /\ 0..Len(asked) \subseteq 0..Len(asked') /\ 1..Len(asked) \subseteq 1..Len(asked')
          /\ \A i \in 1..Len(asked) : asked'[i] = asked[i]
      <3>1. LoadedCookie \in 1..NewSession
        BY <1>5, CookieLoaded DEF IInv, TypeOK, NewSession
      <3> QED
        BY <1>5, <3>1, Sending DEF IInv, NewSession
    <2>2. told # 0 => told \in 1..Len(asked)
      BY DEF IInv, TypeOK
    <2>3. storage \in Stored' /\ browser' \in Browser'
      BY <1>3, <2>1 DEF IInv, TypeOK, Stored, Browser
    <2>4. TypeOK'
      BY <1>1, <1>3, <2>1, <2>3 DEF IInv, TypeOK, Stored, Browser
    <2> QED
      BY <1>1, <1>3, <2>1, <2>2, <2>4 DEF IInv, CodesInv
  <1> QED
    BY <1>1, <1>4, <1>5 DEF CreateBrowser, CreateNowhere, CreateLocated, CreateSendsAgain,
           CreateHTTPError, CreateFails, Create

LEMMA AcceptsStep == ASSUME IInv, HandleAccepts PROVE IInv'
  <1>1. browser \in Browser /\ browser # NoBrowser /\ Len(asked) \in Nat
    BY TheBrowser DEF HandleAccepts, Handling, IInv, TypeOK
  <1>2. browser.cookie \in 1..Len(asked)
    <2>1. browser.cookie = asked[told] /\ told \in 1..Len(asked)
      BY TheKey DEF HandleAccepts, Handling, Accepted
    <2>2. asked \in Seq(1..MaxAsked)
      BY DEF IInv, TypeOK
    <2>4. asked[told] \in 1..MaxAsked
      <3> DEFINE S == 1..MaxAsked
      <3>1. asked \in Seq(S)
        BY <2>2
      <3> HIDE DEF S
      <3>2. asked[told] \in S
        BY <2>1, <3>1
      <3> QED
        BY <3>2 DEF S
    <2>3. browser.cookie \in 0..Len(asked)
      BY <1>1 DEF Browser
    <2> QED
      BY <1>1, <2>1, <2>3, <2>4, Constants
  <1>3. browser' \in Browser /\ browser' # NoBrowser
    <2>1. now \in Never..MaxTime
      BY Constants DEF IInv, TypeOK, Never
    <2>2. browser' \in Browser
      BY <1>1, <2>1 DEF HandleAccepts, Browser
    <2> QED
      BY <1>1, <2>2, ABrowser DEF Browser
  <1>4. config' \in [Keys -> Codes] /\ \A k \in Keys : config'[k] = None
    BY Constants DEF HandleAccepts, NoConfig, None, Codes
  <1>5. /\ told' = 0 /\ field' \in Keys /\ want' = browser.cookie
        /\ acceptedAt' \in Never..MaxTime /\ safe' = FALSE /\ forgotten' = FALSE
        /\ UNCHANGED <<now, home, asked, interactive, switched, storage, dumpedAt>>
        /\ pc' = "work" /\ open' = open \cup {browser.cookie}
    BY FirstMethod, Constants DEF HandleAccepts, Begins, IInv, TypeOK, Never
  <1>6. TypeOK'
    <2>1. /\ open' \subseteq 1..Len(asked') /\ told' \in 0..Len(asked')
          /\ want' \in 0..Len(asked')
      <3>1. open \subseteq 1..Len(asked) /\ Len(asked') = Len(asked)
        BY <1>5 DEF IInv, TypeOK
      <3>2. /\ Len(asked) \in Nat /\ browser.cookie \in 1..Len(asked)
            /\ told' = 0 /\ want' = browser.cookie /\ open' = open \cup {browser.cookie}
        BY <1>1, <1>2, <1>5
      <3>3. 0 \in 0..Len(asked) /\ browser.cookie \in 0..Len(asked)
        BY <3>2
      <3> QED
        BY <3>1, <3>2, <3>3, Zenon
    <2> QED
      BY <1>3, <1>4, <1>5, <2>1 DEF IInv, TypeOK, Browser
  <1> QED
    BY <1>4, <1>5, <1>6 DEF IInv, CodesInv

(* A question: its challenge is the last one of its session.               *)
LEMMA AsksStep ==
  ASSUME IInv, pc = "login", NEW s \in 1..NewSession, NEW k \in Keys, Asks(s, k),
         config' \in [Keys -> Codes], \A j \in Keys : config'[j] = None
  PROVE  /\ IInv'
         /\ told' = NewSession /\ want' = s /\ s \notin open' /\ Latest(told)'
         /\ browser'.cookie = s /\ browser' # NoBrowser
  <1>1. browser \in Browser /\ browser # NoBrowser
    BY TheBrowser DEF IInv
  <1>2. /\ asked' \in Seq(1..MaxAsked) /\ Len(asked') <= MaxAsked
        /\ Len(asked') = NewSession /\ Len(asked) \in Nat
        /\ 0..Len(asked) \subseteq 0..Len(asked') /\ 1..Len(asked) \subseteq 1..Len(asked')
        /\ NewSession \in 1..Len(asked') /\ asked'[NewSession] = s
    BY Sending DEF Asks, IInv, NewSession
  <1>3. browser' = [browser EXCEPT !.page = "login", !.cookie = s] /\ s \in 0..Len(asked')
    BY <1>2 DEF Asks
  <1>4. browser' \in Browser' /\ browser' # NoBrowser /\ browser'.cookie = s
    <2>1. browser' = [site |-> browser.site, cookie |-> s, page |-> "login",
                      twofa |-> browser.twofa]
      BY <1>1, <1>3 DEF Browser
    <2>2. browser' \in Browser' /\ browser'.cookie = s /\ Len(asked') \in Nat
      BY <1>1, <1>2, <1>3, <2>1 DEF Browser
    <2> QED
      BY <2>2, ABrowser DEF Browser
  <1>5. storage' \in Stored'
    BY <1>2 DEF Asks, IInv, TypeOK, Stored
  <1>6. /\ told' = NewSession /\ field' \in Keys /\ want' = s
        /\ acceptedAt' \in Never..MaxTime /\ safe' = FALSE /\ forgotten' = FALSE
        /\ UNCHANGED <<now, home, interactive, switched, dumpedAt>>
        /\ pc' = "ask" /\ open' = open \ {s}
    BY Constants DEF Asks, Begins, Never, IInv, TypeOK
  <1>7. TypeOK'
    <2>1. /\ open' \subseteq 1..Len(asked') /\ told' \in 0..Len(asked')
          /\ want' \in 0..Len(asked')
      BY <1>2, <1>3, <1>6 DEF IInv, TypeOK
    <2> QED
      BY <1>2, <1>4, <1>5, <1>6, <2>1 DEF IInv, TypeOK, Browser, Stored
  <1>8. Latest(told)'
    BY <1>2, <1>6 DEF Latest
  <1>9. told' # 0
    BY <1>2, <1>6
  <1> QED
    BY <1>2, <1>4, <1>6, <1>7, <1>8, <1>9 DEF IInv, CodesInv

LEMMA NoCode ==
  ASSUME IInv, ~ HasCode
  PROVE  \A k \in Keys : config[k] = None
  BY DEF HasCode

LEMMA HandleAsksIsAsks ==
  ASSUME IInv, HandleAsks
  PROVE  /\ config' \in [Keys -> Codes] /\ \A j \in Keys : config'[j] = None
         /\ pc = "login" /\ \E s \in 1..NewSession, k \in Keys : Asks(s, k)
  <1>1. HasCode /\ pc = "login" /\ config' = [config EXCEPT ![FirstKey] = None]
    BY DEF HandleAsks, MethodAsks, Handling
  <1>2. config' \in [Keys -> Codes] /\ \A j \in Keys : config'[j] = None
    <2>1. None \in Codes
      BY Constants DEF None, Codes
    <2> QED
      BY <1>1, <2>1, TheKey DEF IInv, TypeOK
  <1>3. browser \in Browser /\ Len(asked) \in Nat
    BY <1>1, TheBrowser DEF IInv, TypeOK
  <1>4. (IF browser.cookie = 0 THEN NewSession ELSE browser.cookie) \in 1..NewSession
    BY <1>3 DEF Browser, NewSession
  <1> QED
    BY <1>1, <1>2, <1>4 DEF HandleAsks, MethodAsks

LEMMA InitAsksIsAsks ==
  ASSUME IInv, InitAsks
  PROVE  /\ config' \in [Keys -> Codes] /\ \A j \in Keys : config'[j] = None
         /\ pc = "login" /\ NewSession \in 1..NewSession /\ \E k \in Keys : Asks(NewSession, k)
  <1>1. NewSession \in 1..NewSession
    BY DEF NewSession, IInv, TypeOK
  <1> QED
    BY <1>1, NoCode DEF InitAsks, InitLogin, Initiating, IInv, TypeOK

LEMMA OpensStep == ASSUME IInv, InitOpens PROVE IInv'
  <1>1. browser \in Browser /\ browser # NoBrowser
    BY TheBrowser DEF InitOpens, InitLogin, Initiating, IInv
  <1>2. NewSession \in 1..NewSession
    BY DEF NewSession, IInv, TypeOK
  <1>3. /\ asked' \in Seq(1..MaxAsked) /\ Len(asked') <= MaxAsked /\ Len(asked) \in Nat
        /\ 0..Len(asked) \subseteq 0..Len(asked') /\ 1..Len(asked) \subseteq 1..Len(asked')
        /\ NewSession \in 1..Len(asked')
    BY <1>2, Sending DEF InitOpens, IInv
  <1>4. browser' \in Browser' /\ browser' # NoBrowser
    <2>1. browser' = [site |-> browser.site, cookie |-> NewSession, page |-> "logged",
                      twofa |-> browser.twofa]
      BY <1>1 DEF InitOpens, Browser
    <2>2. browser' \in Browser' /\ Len(asked') \in Nat
      BY <1>1, <1>3, <2>1 DEF Browser
    <2> QED
      BY <2>2, ABrowser DEF Browser
  <1>5. storage' \in Stored'
    BY <1>3 DEF InitOpens, IInv, TypeOK, Stored
  <1>6. /\ told' = 0 /\ field' \in Keys /\ want' = NewSession
        /\ acceptedAt' \in Never..MaxTime /\ safe' = FALSE /\ forgotten' = FALSE
        /\ UNCHANGED <<now, home, interactive, config, switched, dumpedAt>>
        /\ pc' = "work" /\ open' = open \cup {NewSession}
    BY Constants, FirstMethod DEF InitOpens, Begins, Never
  <1>7. TypeOK'
    <2>1. /\ open' \subseteq 1..Len(asked') /\ told' \in 0..Len(asked')
          /\ want' \in 0..Len(asked')
      BY <1>3, <1>6 DEF IInv, TypeOK
    <2> QED
      BY <1>3, <1>4, <1>5, <1>6, <2>1 DEF IInv, TypeOK, Browser, Stored
  <1>8. \A k \in Keys : config[k] = None
    BY NoCode DEF InitOpens, InitLogin, Initiating
  <1> QED
    BY <1>6, <1>7, <1>8 DEF IInv, CodesInv

LEMMA FailsStep == ASSUME IInv, InitFails \/ InitSwitches PROVE IInv'
  <1>1. browser \in Browser /\ Len(asked) \in Nat
    <2>1. pc = "login"
      BY DEF InitFails, InitSwitches, InitLogin, Initiating
    <2> QED
      BY <2>1, TheBrowser DEF IInv, TypeOK
  <1>2. browser' \in Browser /\ browser' # NoBrowser
    <2>1. browser' \in Browser
      <3>1. \/ browser' = [site |-> browser.site, cookie |-> 0, page |-> browser.page,
                           twofa |-> browser.twofa]
            \/ browser' = [site |-> home, cookie |-> 0, page |-> "none",
                           twofa |-> browser.twofa]
        BY <1>1 DEF InitFails, InitSwitches, Browser
      <3>2. home \in Sites /\ 0 \in 0..Len(asked)
        BY <1>1 DEF IInv, TypeOK
      <3> QED
        BY <1>1, <3>1, <3>2 DEF Browser
    <2> QED
      BY <1>1, <2>1, ABrowser DEF Browser
  <1>3. /\ UNCHANGED <<world, interactive, config, storage>>
        /\ UNCHANGED <<told, field, want, acceptedAt, dumpedAt, safe>>
        /\ pc' \in {"idle", "login"} /\ forgotten' \in BOOLEAN /\ switched' \in BOOLEAN
    BY DEF InitFails, InitSwitches, InitLogin, Initiating, MayForget, IInv, TypeOK
  <1> QED
    BY <1>2, <1>3 DEF world, IInv, TypeOK, CodesInv, Browser

LEMMA AnswerStep == ASSUME IInv, Answer PROVE IInv'
  <1>1. PICK right \in BOOLEAN :
          config' = [config EXCEPT ![field] = [to |-> told, right |-> right]]
    BY DEF Answer
  <1>2. told # 0 /\ told \in 0..MaxAsked /\ field \in Keys
    BY Constants DEF Answer, IInv, TypeOK, CodesInv
  <1>3. config' \in [Keys -> Codes]
    BY <1>1, <1>2 DEF Codes, IInv, TypeOK
  <1>4. \A k \in Keys : config'[k] # None => k = field /\ config'[k].to = told
    BY <1>1, <1>2 DEF IInv, TypeOK, CodesInv
  <1> QED
    BY <1>2, <1>3, <1>4 DEF Answer, world, history, IInv, TypeOK, CodesInv

LEMMA WorkStep == ASSUME IInv, Work \/ LoggedOut PROVE IInv'
  <1>1. browser \in Browser /\ browser # NoBrowser /\ Len(asked) \in Nat
    BY TheBrowser DEF Work, LoggedOut, IInv, TypeOK
  <1>2. browser' \in Browser /\ browser' # NoBrowser
    <2>1. browser' \in Browser
      BY <1>1 DEF Work, LoggedOut, Browser
    <2> QED
      BY <1>1, <2>1, ABrowser DEF Browser
  <1>3. /\ UNCHANGED <<world, interactive, config, switched, storage>>
        /\ UNCHANGED <<told, field, want, acceptedAt, dumpedAt, safe>>
        /\ pc' = "idle" /\ forgotten' \in BOOLEAN
    BY DEF Work, LoggedOut, MayForget, history, IInv, TypeOK
  <1> QED
    BY <1>2, <1>3 DEF world, IInv, TypeOK, CodesInv, Browser

LEMMA Expire ==
  ASSUME TypeOK, browser \in Browser
  PROVE  /\ GetExpire \in Nat /\ GetExpire >= now + StateDuration
         /\ browser.twofa # Never => GetExpire >= browser.twofa + TwofaDuration
  <1>1. now \in Nat /\ browser.twofa \in Never..MaxTime
    BY Constants DEF TypeOK, Browser
  <1> QED
    BY <1>1, Constants DEF GetExpire, LargerOf, Never

LEMMA OffStep ==
  ASSUME IInv, Deinit \/ DeinitUnused \/ Kill
  PROVE  IInv'
  <1>1. /\ pc' = "off" /\ browser' = NoBrowser /\ config' = NoConfig
        /\ interactive' = FALSE /\ switched' = FALSE /\ UNCHANGED world
        /\ UNCHANGED <<told, field, want, acceptedAt>>
        /\ dumpedAt' \in {now, dumpedAt} /\ safe' \in BOOLEAN /\ forgotten' \in BOOLEAN
    BY DEF Deinit, DeinitUnused, Kill, Off, MayForget, history, IInv, TypeOK
  <1>2. storage' \in Stored
    <2>1. CASE Deinit
      BY <2>1, TheBrowser, Expire DEF Deinit, Browser, Stored, IInv
    <2> QED
      BY <2>1 DEF DeinitUnused, Kill, IInv, TypeOK, Stored
  <1>3. config' \in [Keys -> Codes] /\ \A k \in Keys : config'[k] = None
    BY <1>1, Constants DEF NoConfig, None, Codes
  <1> QED
    BY <1>1, <1>2, <1>3 DEF world, IInv, TypeOK, CodesInv, Stored

LEMMA Step == ASSUME IInv, [Next]_vars PROVE IInv'
  <1>1. CASE Tick \/ SiteCloses
    BY <1>1, TickStep, ClosesStep
  <1>2. CASE StartProgram \/ Call
    BY <1>2, StartStep, CallStep
  <1>3. CASE CreateBrowser
    <2>1. CASE pc' # "idle"
      BY <1>3, <2>1, CreateStep
    <2>2. CASE pc' = "idle"
      BY <1>3, <2>2, OnlyPcStep DEF CreateBrowser, CreateNowhere, CreateLocated,
         CreateSendsAgain, CreateHTTPError, CreateFails, Create
    <2> QED
      BY <2>1, <2>2
  <1>4. CASE IsLogged \/ HandleFails \/ CheckInteractive \/ NoAnswer
    <2>1. browser # NoBrowser
      BY <1>4, TheBrowser
      DEF IsLogged, HandleFails, Handling, CheckInteractive, Initiating, NoAnswer, IInv
    <2> QED
      BY <1>4, <2>1, OnlyPcStep DEF IsLogged, HandleFails, CheckInteractive, NoAnswer
  <1>5. CASE HandleAccepts \/ InitOpens \/ InitFails \/ InitSwitches
    BY <1>5, AcceptsStep, OpensStep, FailsStep
  <1>6. CASE HandleAsks \/ InitAsks
    BY <1>6, AsksStep, HandleAsksIsAsks, InitAsksIsAsks
  <1>7. CASE Answer \/ Work \/ LoggedOut
    BY <1>7, AnswerStep, WorkStep
  <1>8. CASE Deinit \/ DeinitUnused \/ Kill
    BY <1>8, OffStep
  <1>9. CASE UNCHANGED vars
    BY <1>9 DEF vars, world, history, IInv, TypeOK, CodesInv
  <1> QED
    BY <1>1, <1>2, <1>3, <1>4, <1>5, <1>6, <1>7, <1>8, <1>9 DEF Next, DoLogin

(* The invariant: a code that is not the one the user was asked for would  *)
(* be accepted in a session that the site never opened, so TypeOK needs    *)
(* CodesInv (mfa.py:164-184).                                              *)
THEOREM Invariant == Spec => []IInv
  BY Initial, Step, PTL DEF Spec

(* Cookies, pages and dates in the browser and in the storage, and codes   *)
(* in the configuration, are of what the site gave (mfa.py:80-184).        *)
THEOREM TypeCorrect == Spec => []TypeOK
  <1>1. IInv => TypeOK
    BY DEF IInv
  <1> QED
    BY <1>1, Invariant, PTL

-----------------------------------------------------------------------------
(* What is kept of the last session.                                       *)

(* A dump is good until the date that the durations say; the first state,  *)
(* which nobody dumped, for ever.                                          *)
Good(expire) ==
  \/ expire >= MaxTime
  \/ /\ expire >= dumpedAt + StateDuration
     /\ acceptedAt # Never => expire >= acceptedAt + TwofaDuration

(* If it was dumped since, the last session is in the storage.             *)
StoredInv ==
  safe /\ ~ forgotten =>
    /\ storage.cookie = want /\ (acceptedAt # Never => storage.twofa = acceptedAt)
    /\ Good(storage.expire)
    /\ want \in open => storage.url = "logged" /\ storage.site = home

(* It is in the browser too, and it can go on: at the question that is     *)
(* open, or logged in.                                                     *)
BrowserInv ==
  ~ forgotten =>
    /\ browser = NoBrowser => safe
    /\ browser # NoBrowser =>
         /\ browser.cookie = want /\ (acceptedAt # Never => browser.twofa = acceptedAt)
         /\ want \in open => browser.page = "logged" /\ browser.site = home
    /\ told # 0 => Latest(told)

KeptInv == StoredInv /\ BrowserInv

LEMMA KeptInitial == ASSUME Init PROVE KeptInv
  BY Constants DEF Init, KeptInv, StoredInv, BrowserInv, Good, Never

LEMMA QuietKeeps ==
  ASSUME KeptInv, open' \subseteq open,
         UNCHANGED <<home, asked, browser, storage, history>>
  PROVE  KeptInv'
  BY DEF KeptInv, StoredInv, BrowserInv, Good, Latest, history

(* A state that is not late is loaded.                                     *)
LEMMA Loads ==
  ASSUME IInv, KeptInv, pc = "create", ~ forgotten, ~ Late
  PROVE  ~ storage.expire < now /\ LoadedCookie = want /\ safe
  <1>1. safe
    BY DEF IInv, CodesInv, KeptInv, BrowserInv
  <1>2. Good(storage.expire) /\ storage.cookie = want
    BY <1>1 DEF KeptInv, StoredInv
  <1>3. /\ now \in 0..MaxTime /\ storage.expire \in Nat /\ dumpedAt \in Nat
        /\ acceptedAt \in Never..MaxTime
    BY Constants DEF IInv, TypeOK
  <1>4. ~ storage.expire < now
    BY <1>2, <1>3, Constants DEF Good, Late, Never
  <1> QED
    BY <1>1, <1>2, <1>4 DEF LoadedCookie

LEMMA Created ==
  ASSUME NEW page, Create(page)
  PROVE  /\ browser'.cookie = LoadedCookie /\ browser'.twofa = storage.twofa
         /\ browser'.site = storage.site /\ browser'.page = page
  BY DEF Create

LEMMA CreateKeeps ==
  ASSUME IInv, IInv', KeptInv, CreateBrowser, pc' # "idle"
  PROVE  KeptInv'
  <1> SUFFICES ASSUME ~ forgotten' PROVE KeptInv'
    BY DEF KeptInv, StoredInv, BrowserInv
  <1>1. /\ ~ forgotten /\ ~ Late /\ pc = "create" /\ pc' = "login"
        /\ UNCHANGED <<home, open, config, storage, told, want, acceptedAt, dumpedAt, safe>>
    BY DEF CreateBrowser, CreateNowhere, CreateLocated, CreateSendsAgain, CreateHTTPError,
           CreateFails, Create, MayForget
  <1>2. ~ storage.expire < now /\ LoadedCookie = want /\ safe
    BY <1>1, Loads
  <1>3. browser'.cookie = want /\ browser'.twofa = storage.twofa /\ browser'.site = storage.site
    BY <1>1, <1>2, Created DEF CreateBrowser, CreateNowhere, CreateLocated, CreateSendsAgain,
       CreateHTTPError, CreateFails
  <1>4. ~ CreateSendsAgain
    <2>1. CreateSendsAgain => HasCode /\ field \in SkipOn
      BY <1>1 DEF CreateSendsAgain, MayForget
    <2>2. HasCode /\ field \in SkipOn => ~ Goes
      BY TheKey DEF Goes, ShouldSkipLocateBrowser
    <2> QED
      BY <2>1, <2>2 DEF CreateSendsAgain
  <1>5. CreateNowhere \/ CreateLocated
    BY <1>1, <1>4 DEF CreateBrowser, CreateHTTPError, MayForget, CreateFails
  <1>6. want \in open => browser'.page = "logged"
    <2> SUFFICES ASSUME want \in open PROVE browser'.page = "logged"
      OBVIOUS
    <2>1. storage.url = "logged" /\ storage.site = home
      BY <1>1, <1>2 DEF KeptInv, StoredInv
    <2>2. ~ HasCode
      BY TheKey DEF IInv, CodesInv, TypeOK
    <2>3. Goes
      BY <1>2, <2>1, <2>2, Constants DEF Goes, ShouldSkipLocateBrowser, HasCode
    <2> QED
      BY <1>2, <1>5, <2>1, <2>3 DEF CreateNowhere, CreateLocated, Create
  <1>7. browser' # NoBrowser /\ UNCHANGED asked
    BY <1>1, <1>5, TheBrowser DEF CreateNowhere, CreateLocated, IInv, TypeOK
  <1>8. StoredInv'
    BY <1>1 DEF KeptInv, StoredInv, Good
  <1>9. BrowserInv'
    BY <1>1, <1>2, <1>3, <1>6, <1>7 DEF KeptInv, StoredInv, BrowserInv, Latest
  <1> QED
    BY <1>8, <1>9 DEF KeptInv

LEMMA LoginKeeps ==
  ASSUME IInv, IInv', KeptInv, DoLogin
  PROVE  KeptInv'
  <1>1. browser \in Browser /\ browser # NoBrowser /\ pc = "login"
    <2>1. pc = "login"
      BY DEF DoLogin, HandleAccepts, HandleAsks, MethodAsks, HandleFails, Handling,
         CheckInteractive, InitAsks, InitOpens, InitFails, InitSwitches, InitLogin, Initiating
    <2> QED
      BY <2>1, TheBrowser DEF IInv
  <1>2. CASE HandleAccepts
    <2>1. /\ told' = 0 /\ safe' = FALSE /\ want' = browser.cookie /\ acceptedAt' = now
          /\ home' = home /\ browser.site = home
          /\ browser' = [browser EXCEPT !.page = "logged", !.twofa = now]
      BY <1>2 DEF HandleAccepts, Begins, Accepted
    <2>2. /\ browser'.cookie = want' /\ browser'.twofa = acceptedAt'
          /\ browser'.page = "logged" /\ browser'.site = home' /\ browser' # NoBrowser
      BY <1>1, <2>1, Constants DEF Browser, NoBrowser
    <2> QED
      BY <2>1, <2>2 DEF KeptInv, StoredInv, BrowserInv
  <1>3. CASE HandleAsks \/ InitAsks
    <2>1. PICK s \in 1..NewSession, k \in Keys : Asks(s, k)
      BY <1>3, HandleAsksIsAsks, InitAsksIsAsks
    <2>2. /\ want' = s /\ s \notin open' /\ Latest(told)'
          /\ browser'.cookie = s /\ browser' # NoBrowser
      BY <1>1, <1>3, <2>1, AsksStep, HandleAsksIsAsks, InitAsksIsAsks
    <2>3. safe' = FALSE /\ acceptedAt' = Never
      BY <2>1 DEF Asks, Begins
    <2> QED
      BY <2>2, <2>3 DEF KeptInv, StoredInv, BrowserInv
  <1>4. CASE InitOpens
    <2>1. /\ told' = 0 /\ safe' = FALSE /\ want' = NewSession /\ acceptedAt' = Never
          /\ home' = home /\ browser.site = home
          /\ browser' = [browser EXCEPT !.page = "logged", !.cookie = NewSession]
      BY <1>4 DEF InitOpens, Begins
    <2>2. /\ browser'.cookie = want' /\ browser'.page = "logged" /\ browser'.site = home'
          /\ browser' # NoBrowser
      BY <1>1, <2>1, Constants DEF Browser, NoBrowser
    <2> QED
      BY <2>1, <2>2 DEF KeptInv, StoredInv, BrowserInv
  <1>5. CASE InitFails \/ InitSwitches
    BY <1>5 DEF InitFails, InitSwitches, MayForget, KeptInv, StoredInv, BrowserInv
  <1>6. CASE HandleFails \/ CheckInteractive
    BY <1>6, QuietKeeps DEF HandleFails, CheckInteractive, OnlyPc, world
  <1> QED
    BY <1>2, <1>3, <1>4, <1>5, <1>6 DEF DoLogin

LEMMA WorkKeeps ==
  ASSUME IInv, KeptInv, Work \/ LoggedOut
  PROVE  KeptInv'
  <1> SUFFICES ASSUME ~ forgotten' PROVE KeptInv'
    BY DEF KeptInv, StoredInv, BrowserInv
  <1>1. browser \in Browser /\ browser # NoBrowser
    BY TheBrowser DEF Work, LoggedOut, IInv
  <1>2. PICK page \in {"logged", "login"} : browser' = [browser EXCEPT !.page = page]
    BY DEF Work, LoggedOut, MayForget
  <1>3. /\ browser'.cookie = browser.cookie /\ browser'.twofa = browser.twofa
        /\ browser'.site = browser.site /\ browser'.page = page /\ browser' # NoBrowser
    BY <1>1, <1>2, Constants DEF Browser, NoBrowser
  <1>4. /\ ~ forgotten
        /\ UNCHANGED <<home, asked, open, storage, told, want, acceptedAt, dumpedAt, safe>>
    <2>1. CASE Work
      BY <2>1 DEF Work, MayForget, world
    <2>2. CASE LoggedOut
      BY <2>2 DEF LoggedOut, world, history
    <2> QED
      BY <2>1, <2>2
  <1>5. want \in open => page = "logged"
    <2>1. LoggedOut => browser.cookie \notin open
      BY DEF LoggedOut
    <2>2. Work => page = "logged"
      BY <1>1, <1>2 DEF Work, MayForget, Browser
    <2> QED
      BY <1>1, <1>4, <2>1, <2>2 DEF KeptInv, BrowserInv
  <1> QED
    BY <1>1, <1>3, <1>4, <1>5 DEF KeptInv, StoredInv, BrowserInv, Good, Latest

LEMMA OffKeeps ==
  ASSUME IInv, KeptInv, Deinit \/ DeinitUnused \/ Kill
  PROVE  KeptInv'
  <1> SUFFICES ASSUME ~ forgotten' PROVE KeptInv'
    BY DEF KeptInv, StoredInv, BrowserInv
  <1>1. /\ browser' = NoBrowser /\ ~ forgotten
        /\ UNCHANGED <<home, asked, open, told, want, acceptedAt>>
    <2>1. CASE Deinit
      BY <2>1 DEF Deinit, Off, world
    <2>2. CASE DeinitUnused
      BY <2>2 DEF DeinitUnused, Off, world, history
    <2>3. CASE Kill
      BY <2>3 DEF Kill, Off, MayForget, world
    <2> QED
      BY <2>1, <2>2, <2>3
  <1>2. CASE Deinit
    <2>1. browser \in Browser /\ browser # NoBrowser
      BY <1>2, TheBrowser DEF Deinit, IInv
    <2>2. /\ safe' = TRUE /\ dumpedAt' = now
          /\ storage'.cookie = browser.cookie /\ storage'.twofa = browser.twofa
          /\ storage'.url = browser.page /\ storage'.site = browser.site
          /\ storage'.expire = GetExpire
      BY <1>2 DEF Deinit
    <2>3. /\ browser.cookie = want /\ (acceptedAt # Never => browser.twofa = acceptedAt)
          /\ want \in open => browser.page = "logged" /\ browser.site = home
          /\ told # 0 => Latest(told)
      BY <1>1, <2>1 DEF KeptInv, BrowserInv
    <2>4. Good(storage.expire)'
      BY <1>1, <2>1, <2>2, <2>3, Expire DEF Good, IInv
    <2> QED
      BY <1>1, <2>2, <2>3, <2>4 DEF KeptInv, StoredInv, BrowserInv, Latest
  <1>3. CASE DeinitUnused \/ Kill
    <2>1. safe /\ UNCHANGED <<storage, dumpedAt, safe>>
      BY <1>1, <1>3 DEF DeinitUnused, Kill, MayForget, history, KeptInv, BrowserInv
    <2> QED
      BY <1>1, <2>1 DEF KeptInv, StoredInv, BrowserInv, Good, Latest
  <1> QED
    BY <1>2, <1>3

LEMMA KeptStep ==
  ASSUME IInv, IInv', KeptInv, [Next]_vars
  PROVE  KeptInv'
  <1>1. CASE Tick \/ SiteCloses \/ StartProgram \/ Call \/ Answer
    BY <1>1, QuietKeeps DEF Tick, SiteCloses, StartProgram, Call, Answer, world
  <1>2. CASE CreateBrowser
    <2>1. CASE pc' # "idle"
      BY <1>2, <2>1, CreateKeeps
    <2>2. CASE pc' = "idle"
      BY <1>2, <2>2, QuietKeeps DEF CreateBrowser, CreateNowhere, CreateLocated,
         CreateSendsAgain, CreateHTTPError, CreateFails, Create, OnlyPc, world
    <2> QED
      BY <2>1, <2>2
  <1>3. CASE IsLogged \/ NoAnswer \/ UNCHANGED vars
    BY <1>3, QuietKeeps DEF IsLogged, NoAnswer, OnlyPc, vars, world
  <1>4. CASE DoLogin
    BY <1>4, LoginKeeps
  <1>5. CASE Work \/ LoggedOut
    BY <1>5, WorkKeeps
  <1>6. CASE Deinit \/ DeinitUnused \/ Kill
    BY <1>6, OffKeeps
  <1> QED
    BY <1>1, <1>2, <1>3, <1>4, <1>5, <1>6 DEF Next

LEMMA Kept == Spec => [](IInv /\ KeptInv)
  <1>1. Init => IInv /\ KeptInv
    BY Initial, KeptInitial
  <1>2. IInv /\ KeptInv /\ [Next]_vars => (IInv /\ KeptInv)'
    BY Step, KeptStep
  <1> QED
    BY <1>1, <1>2, PTL DEF Spec

(* The code that a method gets is for the challenge that the site will     *)
(* compare it with, in its session, however many programs came in between  *)
(* and whichever keys locate_browser() is skipped for (mfa.py:100, 150,    *)
(* 179-197), unless a program that was not to skip it for its key, or had  *)
(* no code, made the site send another code.                               *)
THEOREM CodeMeets == Spec => []CodeMeetsItsChallenge
  <1>1. IInv /\ KeptInv => CodeMeetsItsChallenge
    <2> SUFFICES ASSUME IInv, KeptInv, pc = "login", HasCode, ~ forgotten
                 PROVE  /\ config[FirstKey].to = told /\ Latest(told)
                        /\ browser.cookie = asked[told]
      BY DEF CodeMeetsItsChallenge
    <2>1. FirstKey = field /\ config[field].to = told /\ told # 0 /\ asked[told] = want
      BY TheKey DEF IInv, CodesInv, TypeOK
    <2>2. browser # NoBrowser
      BY TheBrowser DEF IInv
    <2> QED
      BY <2>1, <2>2 DEF KeptInv, BrowserInv
  <1> QED
    BY <1>1, Kept, PTL

(* While the session of the last login is open, its state unexpired and    *)
(* nothing lost on the way, no program logs in again, whatever the two     *)
(* durations are (mfa.py:80-90, browsers.py:1184, switch.py:110).          *)
THEOREM LoginNeeded == Spec => []LoginOnlyIfNeeded
  <1>1. IInv /\ KeptInv => LoginOnlyIfNeeded
    BY TheBrowser DEF IInv, KeptInv, BrowserInv, LoginOnlyIfNeeded
  <1> QED
    BY <1>1, Kept, PTL

=============================================================================
