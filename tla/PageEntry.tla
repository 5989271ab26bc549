------------------------------ MODULE PageEntry ------------------------------
(***************************************************************************)
(* How a page gets to its workspace: a pairing link in its address is      *)
(* redeemed (web/src/main.tsx), the workspace is loaded (boot of           *)
(* web/src/state.ts), again when the page becomes visible after it failed  *)
(* (web/src/app.tsx), and after a login (web/src/ui/Login.tsx) -- while    *)
(* answers are lost and the page's device is removed or let in elsewhere.  *)
(*                                                                         *)
(* A call is one step: the gateway answers by the cookie the page has by   *)
(* then, or the call fails; a GET is tried twice before (web/src/api.ts).  *)
(***************************************************************************)
EXTENDS Naturals, FiniteSets

VARIABLES
  known,     \* the gateway knows the device of the cookie
  link,      \* the key in the page's address: "none", "good", "bad"
  signedIn,  \* authStatus: "unknown", "yes", "no"
  failed,    \* bootError
  booting,   \* what loadWorkspace awaits: "no", "status", "reads", "first"
  afterBoot, \* who awaits boot: "app", "visible", "login"
  loaded,    \* preferences, keymap, sessions and layout have been taken over
  focused,   \* a session is shown
  stream,    \* startEventStream was called
  entering   \* what else is awaited: "no", "pair", "login"

entryVars == <<known, link, signedIn, failed, booting, afterBoot, loaded, focused, stream, entering>>

pageVars == <<link, signedIn, failed, booting, afterBoot, loaded, focused, stream, entering>>

Boots == {"app", "visible", "login"}

EntryTypeOK ==
  /\ {known, failed, loaded, focused, stream} \subseteq BOOLEAN
  /\ link \in {"none", "good", "bad"} /\ signedIn \in {"unknown", "yes", "no"}
  /\ booting \in {"no", "status", "reads", "first"} /\ afterBoot \subseteq Boots
  /\ entering \in {"no", "pair", "login"}

EntryInit ==
  /\ known = FALSE
  /\ link = "none" /\ entering = "no"
  /\ booting = "status" /\ afterBoot = {"app"}
  /\ signedIn = "unknown" /\ failed = FALSE /\ loaded = FALSE /\ focused = FALSE /\ stream = FALSE

-----------------------------------------------------------------------------
(* What the gateway makes of a call (handleRequest), or it does not get it. *)
Served == {"lost", IF known THEN "ok" ELSE "refused"}

(* boot: who calls it while it runs awaits the one that runs. *)
Boot(who) ==
  /\ afterBoot' = afterBoot \cup {who}
  /\ IF booting = "no" THEN booting' = "status" /\ failed' = FALSE
     ELSE UNCHANGED <<booting, failed>>

(* Fault: a page that comes back only loads. *)
StartsUnlessBack(who) == who # "visible" /\ (who = "login" \/ signedIn' = "yes")

(* The event stream is started by who awaited boot. *)
Starts(who) ==
  CASE who = "app"     -> signedIn' = "yes"
    [] who = "visible" -> signedIn' = "yes" /\ ~failed'
    [] who = "login"   -> TRUE

(* loadWorkspace comes to its end. *)
Ends ==
  /\ booting' = "no" /\ afterBoot' = {}
  /\ stream' = (stream \/ \E who \in afterBoot : Starts(who))

(* api.authStatus has settled. *)
Status ==
  /\ booting = "status"
  /\ \E answer \in {"lost", IF known THEN "yes" ELSE "no"} :
       /\ signedIn' = IF answer = "lost" THEN signedIn ELSE answer
       /\ failed' = (answer = "lost")
       /\ IF answer = "yes" THEN booting' = "reads" /\ UNCHANGED <<afterBoot, stream>> ELSE Ends
  /\ UNCHANGED <<known, link, loaded, focused, entering>>

(* reportError *)
SignsOut(answer) == signedIn' = IF answer = "refused" THEN "no" ELSE signedIn

(* The four reads have.  Whether the restored layout shows a session is the *)
(* matter of Panes.                                                         *)
Reads ==
  /\ booting = "reads"
  /\ \E answer \in Served, shows \in BOOLEAN :
       /\ SignsOut(answer) /\ failed' = (answer = "lost")
       /\ loaded' = (loaded \/ answer = "ok")
       /\ focused' = IF answer = "ok" THEN shows ELSE focused
       /\ IF answer = "ok" /\ ~shows THEN booting' = "first" /\ UNCHANGED <<afterBoot, stream>> ELSE Ends
  /\ UNCHANGED <<known, link, entering>>

(* ensureFirstSession: autoCreateFirstSession may be off, and a failure is  *)
(* only reported.                                                           *)
First ==
  /\ booting = "first"
  /\ \E answer \in Served, session \in BOOLEAN :
       /\ SignsOut(answer)
       /\ focused' = (answer = "ok" /\ session)
  /\ UNCHANGED failed
  /\ Ends
  /\ UNCHANGED <<known, link, loaded, entering>>

-----------------------------------------------------------------------------
(* The page is reloaded, or opened by a pairing link: start. *)
Open ==
  /\ \/ link' = "none" /\ entering' = "no" /\ booting' = "status" /\ afterBoot' = {"app"}
     \/ link' \in {"good", "bad"} /\ entering' = "pair" /\ booting' = "no" /\ afterBoot' = {}
  /\ signedIn' = "unknown"
  /\ failed' = FALSE /\ loaded' = FALSE /\ focused' = FALSE /\ stream' = FALSE
  /\ UNCHANGED known

(* redeemPairingLink, whose answer may be lost with the cookie in it.  Then *)
(* App is mounted.                                                          *)
Redeemed ==
  /\ entering = "pair"
  /\ entering' = "no" /\ link' = "none"
  /\ known' \in {known, known \/ link = "good"}
  /\ Boot("app")
  /\ UNCHANGED <<signedIn, loaded, focused, stream>>

(* onVisible; without an error the stream and the terminals are nudged.     *)
Visible ==
  /\ entering # "pair" /\ failed
  /\ Boot("visible")
  /\ UNCHANGED <<known, link, signedIn, loaded, focused, stream, entering>>

(* The login form, which is shown when nobody is signed in. *)
Submit ==
  /\ signedIn = "no" /\ ~failed /\ entering = "no"
  /\ entering' = "login"
  /\ UNCHANGED <<known, link, signedIn, failed, booting, afterBoot, loaded, focused, stream>>

SubmitSettles ==
  /\ entering = "login"
  /\ entering' = "no"
  /\ \/ /\ known' = TRUE /\ signedIn' = "yes"
        /\ Boot("login")
     \/ /\ known' \in {known, TRUE}
        /\ UNCHANGED <<signedIn, booting, failed, afterBoot>>
  /\ UNCHANGED <<link, loaded, focused, stream>>

(* Any other call of the page is refused. *)
Rejected ==
  /\ ~known /\ signedIn = "yes" /\ loaded
  /\ signedIn' = "no"
  /\ UNCHANGED <<known, link, failed, booting, afterBoot, loaded, focused, stream, entering>>

(* The device is removed or expires; another tab of the browser lets it in. *)
Elsewhere == known' = ~known /\ UNCHANGED pageVars

EntryNext ==
  \/ Status \/ Reads \/ First \/ Redeemed \/ SubmitSettles
  \/ Open \/ Visible \/ Submit \/ Rejected \/ Elsewhere

EntrySpec == EntryInit /\ [][EntryNext]_entryVars

-----------------------------------------------------------------------------
(* A page that shows the workspace, and no error, has loaded it and hears   *)
(* of what happens in it, whichever way it came and however often it failed *)
(* before.                                                                  *)
WorkspaceLive ==
  signedIn = "yes" /\ booting = "no" /\ ~failed => loaded /\ stream
=============================================================================
