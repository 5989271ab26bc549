----------------------------- MODULE GatewayLogin -----------------------------
(***************************************************************************)
(* The ways in to the gateway (src/web/auth.ts): a password, with the      *)
(* lockout of an address that guesses; the standing access token, while    *)
(* there is no password; and pairing links, which every `ptyhub link`      *)
(* mints into a file while the gateway redeems from it: each of them reads *)
(* the file, and writes it as a whole.                                     *)
(*                                                                         *)
(* One tick is the step in which the lifetimes of links and lockouts are   *)
(* counted.                                                                *)
(***************************************************************************)
EXTENDS Integers, Sequences, FiniteSets, Functions

CONSTANTS
  Address,   \* remote addresses
  Link,      \* keys of pairing links
  Token,     \* the standing access token
  Threshold, \* LOCKOUT_THRESHOLD
  Lockout,   \* LOCKOUT_MS
  LinkTtl,   \* PAIRING_TTL_MS
  Minter     \* processes of `ptyhub link`

ASSUME GatewayLoginAssumption ==
  /\ Token \notin Link
  /\ {Threshold, Lockout, LinkTtl} \subseteq Nat \ {0}

VARIABLES
  password,  \* the auth file has a user
  token,     \* the token file: there is one
  pairings,  \* the pairing file: of each link, what is left of its time and whether it was used
  minting,   \* what each `ptyhub link` that runs has read of it
  redeeming, \* what pair() has read of it, for the key it has found there
  failures,  \* Auth.failures
  wrong,     \* history: how long ago the address's wrong passwords were judged, in this run of the gateway
  shown,     \* history: links that were shown, and what is left of their time
  redeemed,  \* history: which of them were redeemed
  beside     \* history: which were minted or redeemed while another held what it had read

linkVars  == <<pairings, minting, redeeming, shown, redeemed, beside>>
loginVars == <<password, token, failures, wrong, linkVars>>

NoFailures == [count |-> 0, locked |-> 0]
File(known) == [known -> [left : 0..LinkTtl, used : BOOLEAN]]
IsFile(file) == \E known \in SUBSET Link : file \in File(known)

LoginTypeOK ==
  /\ {password, token} \subseteq BOOLEAN
  /\ IsFile(pairings)
  /\ DOMAIN minting \subseteq Minter /\ \A m \in DOMAIN minting : IsFile(minting[m])
  /\ DOMAIN redeeming \subseteq Link /\ \A k \in DOMAIN redeeming : IsFile(redeeming[k])
  /\ failures \in [Address -> [count : 0..Threshold, locked : 0..Lockout]]
  /\ wrong \in [Address -> Seq(0..Lockout)]
  /\ \E known \in SUBSET Link : shown \in [known -> 1..LinkTtl]
  /\ redeemed \subseteq DOMAIN shown
  /\ beside \subseteq {"minted", "redeemed"} \X DOMAIN shown

LoginInit ==
  /\ password = FALSE /\ token = FALSE
  /\ pairings = <<>> /\ minting = <<>> /\ redeeming = <<>>
  /\ failures = [a \in Address |-> NoFailures]
  /\ wrong = [a \in Address |-> <<>>]
  /\ shown = <<>> /\ redeemed = {} /\ beside = {}

-----------------------------------------------------------------------------
(* Fault: one failure too many is allowed. *)
LockedBehind(count) == count > Threshold

Locks(count) == count >= Threshold

(* recordFailure *)
RecordFailure(a) ==
  failures' = [failures EXCEPT ![a] =
    IF Locks(@.count + 1) THEN [count |-> 0, locked |-> Lockout]
    ELSE [count |-> @.count + 1, locked |-> @.locked]]

(* The gateway has one thread: nothing else of it runs inside pair(). *)
BetweenCalls == redeeming = <<>>

(* login: nothing is judged while the address is locked out. *)
Login(a, right) ==
  /\ BetweenCalls /\ failures[a].locked = 0
  /\ IF right /\ password
     THEN /\ failures' = [failures EXCEPT ![a] = NoFailures]
          /\ wrong' = [wrong EXCEPT ![a] = <<>>]
     ELSE /\ RecordFailure(a)
          /\ wrong' = [wrong EXCEPT ![a] = Append(@, 0)]
  /\ UNCHANGED <<password, token, linkVars>>

-----------------------------------------------------------------------------
(* Fault: a link counts until it expires. *)
UsableUntilExpired(p) == p.left > 0

Usable(p) == p.left > 0 /\ ~p.used

Young(file) == Restrict(file, {k \in DOMAIN file : file[k].left > 0})

Redeemable(file) == {k \in DOMAIN file : Usable(file[k])}

(* serverToken makes a token where there is none, unless a password is set. *)
TokenAfter == token \/ ~password

(* pair, up to what it finds in the file. *)
Pair(a, key) ==
  /\ BetweenCalls
  /\ token' = TokenAfter
  /\ \/ /\ key = Token /\ token /\ ~password
        /\ UNCHANGED <<failures, redeeming>>
     \/ /\ key \in Redeemable(pairings)
        /\ redeeming' = [k \in {key} |-> pairings]
        /\ UNCHANGED failures
     \/ /\ ~(key = Token /\ token /\ ~password)
        /\ key \notin Redeemable(pairings)
        /\ RecordFailure(a)
        /\ UNCHANGED redeeming
  /\ UNCHANGED <<password, wrong, pairings, minting, shown, redeemed, beside>>

(* The rest of it, in the same turn: the write may fail. *)
PairWrites(key, written) ==
  /\ key \in DOMAIN redeeming
  /\ redeeming' = <<>>
  /\ IF written
     THEN /\ pairings' = Young([redeeming[key] EXCEPT ![key].used = TRUE])
          /\ redeemed' = redeemed \cup ({key} \cap DOMAIN shown)
          /\ beside' = beside \cup
               (IF minting = <<>> THEN {} ELSE {"redeemed"} \X ({key} \cap DOMAIN shown))
     ELSE UNCHANGED <<pairings, redeemed, beside>>
  /\ UNCHANGED <<password, token, failures, wrong, minting, shown>>

(* `ptyhub link` without a password: the token is shown. *)
ShowToken ==
  /\ ~password
  /\ token' = TRUE
  /\ UNCHANGED <<password, failures, wrong, linkVars>>

(* createPairing reads the file, and writes it with the new link.           *)
LinkReads(m) ==
  /\ password /\ m \notin DOMAIN minting
  /\ minting' = [n \in DOMAIN minting \cup {m} |-> IF n = m THEN pairings ELSE minting[n]]
  /\ UNCHANGED <<password, token, failures, wrong, pairings, redeeming, shown, redeemed, beside>>

(* Nobody has seen a new key before. *)
NewKey(key) ==
  /\ key \notin DOMAIN shown \cup DOMAIN pairings
  /\ \A m \in DOMAIN minting : key \notin DOMAIN minting[m]
  /\ \A k \in DOMAIN redeeming : key \notin DOMAIN redeeming[k]

LinkWrites(m, key) ==
  /\ m \in DOMAIN minting /\ NewKey(key)
  /\ minting' = Restrict(minting, DOMAIN minting \ {m})
  /\ pairings' = [k \in Redeemable(minting[m]) \cup {key} |->
                    IF k = key THEN [left |-> LinkTtl, used |-> FALSE] ELSE minting[m][k]]
  /\ shown' = [k \in DOMAIN shown \cup {key} |-> IF k = key THEN LinkTtl ELSE shown[k]]
  /\ beside' = beside \cup
       (IF minting' = <<>> /\ redeeming = <<>> THEN {} ELSE {<<"minted", key>>})
  /\ UNCHANGED <<password, token, failures, wrong, redeeming, redeemed>>

(* cmdPasswd: the token is retired. *)
Passwd ==
  /\ password' = TRUE /\ token' = FALSE
  /\ UNCHANGED <<failures, wrong, linkVars>>

(* Failures are in memory: a restart forgets them, and what it was about. *)
GatewayRestarts ==
  /\ failures' = [a \in Address |-> NoFailures]
  /\ wrong' = [a \in Address |-> <<>>]
  /\ redeeming' = <<>>
  /\ UNCHANGED <<password, token, pairings, minting, shown, redeemed, beside>>

-----------------------------------------------------------------------------
Less(n) == IF n = 0 THEN 0 ELSE n - 1

(* What is as old as a lockout is forgotten; the oldest come first. *)
Aged(ages) ==
  LET past == Cardinality({i \in DOMAIN ages : ages[i] + 1 >= Lockout})
  IN [i \in 1..Len(ages) - past |-> ages[i + past] + 1]

AgedFile(file) == [k \in DOMAIN file |-> [file[k] EXCEPT !.left = Less(@)]]

LoginTick ==
  /\ pairings' = AgedFile(pairings)
  /\ minting' = [m \in DOMAIN minting |-> AgedFile(minting[m])]
  /\ redeeming' = [k \in DOMAIN redeeming |-> AgedFile(redeeming[k])]
  /\ failures' = [a \in Address |-> [failures[a] EXCEPT !.locked = Less(@)]]
  /\ wrong' = [a \in Address |-> Aged(wrong[a])]
  /\ shown' = [k \in {l \in DOMAIN shown : shown[l] > 1} |-> shown[k] - 1]
  /\ redeemed' = redeemed \cap DOMAIN shown'
  /\ beside' = {e \in beside : e[2] \in DOMAIN shown'}
  /\ UNCHANGED <<password, token>>

LoginNext ==
  \/ \E a \in Address :
       \/ \E right \in BOOLEAN : Login(a, right)
       \/ \E key \in Link \cup {Token} : Pair(a, key)
  \/ \E key \in Link, written \in BOOLEAN : PairWrites(key, written)
  \/ \E m \in Minter : LinkReads(m) \/ \E key \in Link : LinkWrites(m, key)
  \/ ShowToken \/ Passwd \/ GatewayRestarts \/ LoginTick

LoginSpec == LoginInit /\ [][LoginNext]_loginVars

-----------------------------------------------------------------------------
(* A pairing link lets one device in until its time is over ("mint a        *)
(* one-shot key", auth.ts), whatever the gateway and every `ptyhub link`    *)
(* write over one another: one that is too old, or was never shown, is not  *)
(* accepted; one that was redeemed is accepted again only if some           *)
(* `ptyhub link` held then what it had read before; and one that was not is *)
(* accepted unless another held what it had read when it was minted.        *)
LinksExact ==
  /\ Redeemable(pairings) \subseteq DOMAIN shown
  /\ \A k \in Redeemable(pairings) \cap redeemed : <<"redeemed", k>> \in beside
  /\ \A k \in DOMAIN shown \ redeemed : k \in Redeemable(pairings) \/ <<"minted", k>> \in beside

(* However wrong passwords, pairing keys that do not exist and waiting are  *)
(* mixed, one run of the gateway judges no more wrong passwords of an       *)
(* address within the time of a lockout than the threshold, unless the      *)
(* address knows the right one.                                             *)
GuessesBounded == \A a \in Address : Len(wrong[a]) <= Threshold
=============================================================================
