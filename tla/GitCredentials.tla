--------------------------- MODULE GitCredentials ---------------------------
(***************************************************************************)
(* How git gets a password from the browser (internal/git: credential.go,  *)
(* askpass.go, ws.go, runWithCreds).  A push or pull runs git with the     *)
(* program itself as GIT_ASKPASS; that proxy connects to the command's     *)
(* listener, whose loop (serveOnce) registers the prompt with the broker   *)
(* and waits; the broker tells the latest page, whose one popup the user   *)
(* fills in or cancels by a request of its own.  The token of a command is *)
(* the command; an answer holds user name and password, and is a number;   *)
(* 0 is the blank one that a cancelled prompt returns.                     *)
(***************************************************************************)
EXTENDS Naturals, Sequences, FiniteSets

CONSTANTS GitCommands, Pages, MaxTyped, MaxConnects, MaxHalfOpen

VARIABLES
  gitAt,    \* [GitCommands -> "none", "runs", "asks" or "gone"]
  given,    \* [GitCommands -> what the proxy printed: user name, password]
  server,   \* [GitCommands -> "accept", "await" or "over"]: serveOnce
  pending,  \* tokens in the broker's map
  reply,    \* [GitCommands -> {} or {answer}]: of the entry that is awaited
  handler,  \* {} or {page}: onAsk
  link,     \* [Pages -> "off", "on", "dead" (half open) or "closing"]
  popup,    \* [Pages -> {} or {command}]: askToken of the open popup
  typed,    \* the command each answer was typed for
  fate,     \* [GitCommands -> what a property excuses]
  connects, halfOpen

credVars == <<gitAt, given, server, pending, reply, handler, link, popup, typed, fate, connects, halfOpen>>
git  == <<gitAt, given, server>>
page == <<handler, link, connects, halfOpen>>

CredInit ==
  /\ gitAt = [g \in GitCommands |-> "none"] /\ given = [g \in GitCommands |-> <<>>]
  /\ server = [g \in GitCommands |-> "over"] /\ reply = [g \in GitCommands |-> {}]
  /\ pending = {} /\ handler = {} /\ typed = <<>>
  /\ link = [b \in Pages |-> "off"] /\ popup = [b \in Pages |-> {}]
  /\ fate = [g \in GitCommands |-> {}] /\ connects = 0 /\ halfOpen = 0

Unseen == {"no page", "half open", "overwritten", "silenced"}
Befalls(S, what) == fate' = [g \in GitCommands |-> fate[g] \cup (IF g \in S THEN {what} ELSE {})]

(***************************************************************************)
(* The command and its proxy.                                              *)
(***************************************************************************)
RunWithCreds(g) ==
  /\ gitAt[g] = "none"
  /\ gitAt' = [gitAt EXCEPT ![g] = "runs"] /\ server' = [server EXCEPT ![g] = "accept"]
  /\ UNCHANGED <<given, pending, reply, popup, typed, fate, page>>

\* await makes an entry for the first prompt and shares it with the second.  The
\* first operator makes one each time.
RegisteredAnew(g) == [reply EXCEPT ![g] = {}]
Registered(g) == IF g \in pending THEN reply ELSE [reply EXCEPT ![g] = {}]

\* onAsk: the popup of the page that connected last is for this prompt now.  A
\* half-open connection swallows it.
Tell(g) ==
  LET seen == {b \in handler : link[b] = "on"}
  IN /\ popup' = [b \in Pages |-> IF b \in seen THEN {g} ELSE popup[b]]
     /\ fate' = [h \in GitCommands |->
          IF h # g THEN fate[h] \cup (IF \E b \in seen : h \in popup[b] THEN {"overwritten"} ELSE {})
          ELSE (fate[h] \ Unseen) \cup
               (IF seen # {} THEN {}
                ELSE IF handler # {} THEN {"half open"}
                ELSE IF \E b \in Pages : link[b] = "on" THEN {"silenced"} ELSE {"no page"})]

\* git asks for the user name, then for the password: the broker tells the page
\* both times, the answer known or not.
Ask(g) ==
  /\ gitAt[g] = "runs" /\ server[g] = "accept" /\ Len(given[g]) < 2
  /\ gitAt' = [gitAt EXCEPT ![g] = "asks"] /\ server' = [server EXCEPT ![g] = "await"]
  /\ pending' = pending \cup {g} /\ reply' = Registered(g)
  /\ Tell(g)
  /\ UNCHANGED <<given, typed, page>>

\* The answer is written to the proxy, if it is still there.
AwaitReturns(g) ==
  /\ server[g] = "await" /\ reply[g] # {}
  /\ IF gitAt[g] = "asks"
     THEN /\ gitAt' = [gitAt EXCEPT ![g] = "runs"] /\ server' = [server EXCEPT ![g] = "accept"]
          /\ \E n \in reply[g] : given' = [given EXCEPT ![g] = Append(@, n)]
     ELSE /\ server' = [server EXCEPT ![g] = "over"] /\ UNCHANGED <<gitAt, given>>
  /\ UNCHANGED <<pending, reply, popup, typed, fate, page>>

\* git is done, or its proxy has waited 15 seconds, or 10 minutes are over.  The
\* listener is closed; an await goes on.
GitEnds(g) ==
  /\ gitAt[g] \in {"runs", "asks"} /\ gitAt' = [gitAt EXCEPT ![g] = "gone"]
  /\ server' = [server EXCEPT ![g] = IF @ = "accept" THEN "over" ELSE @]
  /\ UNCHANGED <<given, pending, reply, popup, typed, fate, page>>

(***************************************************************************)
(* The broker.                                                             *)
(***************************************************************************)
\* answerError and cancelAll take entries out and wake who waits; what was
\* answered stays answered.
Dismiss(S) ==
  /\ pending' = pending \ S
  /\ reply' = [g \in GitCommands |-> IF g \in S \cap pending /\ reply[g] = {} THEN {0} ELSE reply[g]]

\* The fallback timer of an entry, or of await itself, both as long as the
\* command may run: the command is gone before.
TimesOut(g) ==
  /\ gitAt[g] = "gone" /\ g \in pending /\ reply[g] = {}
  /\ Dismiss({g}) /\ UNCHANGED <<popup, typed, fate, git, page>>

\* POST /api/git/auth/answer: the first answer counts, a late one is ignored.
Submit(b) ==
  /\ popup[b] # {} /\ Len(typed) < MaxTyped
  /\ popup' = [popup EXCEPT ![b] = {}]
  /\ \E g \in popup[b] :
       /\ typed' = Append(typed, g)
       /\ reply' = IF g \in pending /\ reply[g] = {} THEN [reply EXCEPT ![g] = {Len(typed')}] ELSE reply
  /\ UNCHANGED <<pending, fate, git, page>>

\* The same with nothing in it.
Cancel(b) ==
  /\ popup[b] # {} /\ popup' = [popup EXCEPT ![b] = {}]
  /\ Dismiss(popup[b]) /\ Befalls(popup[b], "cancelled")
  /\ UNCHANGED <<typed, git, page>>

\* Begin (ws.go): the page that connects takes the handler ...
Connect(b) ==
  /\ link[b] = "off" /\ connects < MaxConnects /\ connects' = connects + 1
  /\ link' = [link EXCEPT ![b] = "on"] /\ handler' = {b}
  /\ UNCHANGED <<popup, pending, reply, typed, fate, git, halfOpen>>
\* ... and one that goes, reloaded or only disconnected, clears it, whoever has it,
Drop(b) ==
  /\ link[b] \in {"on", "dead"}
  /\ link' = [link EXCEPT ![b] = "closing"] /\ handler' = {}
  /\ \E keep \in {popup[b], {}} : popup' = [popup EXCEPT ![b] = keep]
  /\ UNCHANGED <<pending, reply, typed, fate, git, connects, halfOpen>>
\* and cancels every prompt.
CancelAll(b) ==
  /\ link[b] = "closing" /\ link' = [link EXCEPT ![b] = "off"]
  /\ Dismiss(pending) /\ Befalls(pending, "disconnected")
  /\ UNCHANGED <<popup, typed, git, handler, connects, halfOpen>>
HalfOpen(b) ==
  /\ link[b] = "on" /\ halfOpen < MaxHalfOpen /\ halfOpen' = halfOpen + 1
  /\ link' = [link EXCEPT ![b] = "dead"]
  /\ UNCHANGED <<popup, pending, reply, typed, fate, git, handler, connects>>

CredNext ==
  \/ \E g \in GitCommands : RunWithCreds(g) \/ Ask(g) \/ AwaitReturns(g) \/ GitEnds(g) \/ TimesOut(g)
  \/ \E b \in Pages : Submit(b) \/ Cancel(b) \/ Connect(b) \/ Drop(b) \/ CancelAll(b) \/ HalfOpen(b)

CredSpec == CredInit /\ [][CredNext]_credVars

(***************************************************************************)
(* Properties.                                                             *)
(***************************************************************************)
\* A command gets what was typed for it, and a blank only when the user has
\* cancelled or a page has gone (answer, answerError, cancelAll).
OwnAnswers ==
  \A g \in GitCommands : \A i \in 1..Len(given[g]) :
    IF given[g][i] = 0 THEN fate[g] \cap {"cancelled", "disconnected"} # {} ELSE typed[given[g][i]] = g

\* User name and password are from one answer, unless the entry was forgotten
\* between the two (the entry that both prompts share).
OnePair ==
  \A g \in GitCommands : Len(given[g]) = 2 /\ given[g][1] # given[g][2] =>
    fate[g] \cap {"cancelled", "disconnected"} # {}

\* While git waits, some page has a popup for it, unless there was no page, the
\* latest was half open, another command's prompt took the popup, or an earlier
\* page, in going, had silenced the latest (SetAskHandler).
PromptSeen ==
  \A g \in GitCommands : gitAt[g] = "asks" /\ reply[g] = {} =>
    \/ \E b \in Pages : g \in popup[b] \/ link[b] = "closing"
    \/ fate[g] \cap Unseen # {}

CredentialsSound == OwnAnswers /\ OnePair /\ PromptSeen
=============================================================================
