----------------------------- MODULE ProcessStart -----------------------------
(***************************************************************************)
(* From the operator's files to a process that serves                      *)
(* (cmd/orka-gateway-telegram/main.go): config.Load, the database as in    *)
(* SchemaMigration, getMe, setWebhook (internal/telegram/client.go), and   *)
(* then Telegram's updates, which carry the secret of the registration.    *)
(*                                                                         *)
(* Processes die and are replaced, also by ones with other files.  A       *)
(* setWebhook call that its process did not wait for is late: Telegram may *)
(* act on it whenever it likes.                                            *)
(***************************************************************************)
EXTENDS SchemaMigration

CONSTANTS
  Bots,      \* a token is one bot's
  Secrets,   \* TELEGRAM_WEBHOOK_SECRET
  Files,     \* what the operator may configure, see Configs
  Unlimited  \* max_connections of a webhook registered by somebody else

Configs == [bot : Bots, secret : Secrets,
            url : BOOLEAN,    \* TELEGRAM_WEBHOOK_URL is set
            drop : BOOLEAN]   \* TELEGRAM_DROP_PENDING_UPDATES

ASSUME FilesAssumption == Files \subseteq Configs
ASSUME ConnectionsAssumption == Unlimited \in Nat \ {1}

VARIABLES
  files,   \* the operator's
  config,  \* the process's
  stage,   \* of the process: off, token, getMe, register, waiting, serving
  calls,   \* setWebhook calls that Telegram has not acted on
  hook,    \* of each bot, Telegram's registration
  queue    \* bots that Telegram has an update for

startVars == <<config, stage, calls, hook>>
allVars == <<vars, files, startVars, queue>>

\* By whom: this process, another, or one that did not wait.
Registration(secret, connections, by) ==
  [secret |-> secret, connections |-> connections, by |-> by]
SetWebhook(own) == [bot |-> config.bot, secret |-> config.secret,
                    drop |-> config.drop, own |-> own]
Late(call) == [call EXCEPT !.own = FALSE]

InitStart ==
  /\ Init
  /\ files \in Files /\ config = files /\ stage = "off"
  /\ calls = {} /\ queue = {}
  /\ \E secret \in Secrets :
       hook = [b \in Bots |-> Registration(secret, Unlimited, "other")]

-----------------------------------------------------------------------------
\* The operator replaces the files, at any time.
Configure(f) ==
  /\ files' = f
  /\ UNCHANGED <<vars, startVars, queue>>

\* config.Load reads the token first,
ReadToken ==
  /\ phase = "down" /\ stage = "off"
  /\ stage' = "token" /\ config' = [config EXCEPT !.bot = files.bot]
  /\ UNCHANGED <<vars, files, calls, hook, queue>>

\* and what is left; then the database is opened.
ReadSecret(r) ==
  /\ stage = "token" /\ Start(r)
  /\ config' = [files EXCEPT !.bot = config.bot]
  /\ stage' = "off"
  /\ UNCHANGED <<files, calls, hook, queue>>

\* store.Open, up to its return.
OpenStore ==
  /\ Migrate
  /\ stage' = IF phase' = "run" THEN "getMe" ELSE stage
  /\ UNCHANGED <<files, config, calls, hook, queue>>

\* Fault: the registration of the last process is taken to do.
GetMeOnly ==
  /\ stage = "getMe"
  /\ stage' = IF config.url /\ hook[config.bot].connections # 1
              THEN "register" ELSE "serving"
  /\ UNCHANGED <<vars, files, config, calls, hook, queue>>

\* The bot's ID is known; without a URL nothing is registered.
GetMe ==
  /\ stage = "getMe"
  /\ stage' = IF config.url THEN "register" ELSE "serving"
  /\ UNCHANGED <<vars, files, config, calls, hook, queue>>

\* Fault: the process serves without waiting for the answer.
RegisterAndServe ==
  /\ stage = "register"
  /\ calls' = calls \cup {SetWebhook(TRUE)}
  /\ stage' = "serving"
  /\ UNCHANGED <<vars, files, config, hook, queue>>

Register ==
  /\ stage = "register"
  /\ calls' = calls \cup {SetWebhook(TRUE)}
  /\ stage' = "waiting"
  /\ UNCHANGED <<vars, files, config, hook, queue>>

\* Telegram registers; one connection is what setWebhookWire asks for.
TelegramApplies(call) ==
  /\ call \in calls
  /\ hook' = [hook EXCEPT ![call.bot] =
                Registration(call.secret, 1, IF call.own THEN "own" ELSE "late")]
  /\ queue' = IF call.drop THEN queue \ {call.bot} ELSE queue
  /\ calls' \in {calls \ {call}} \cup (IF call.own THEN {} ELSE {calls})
  /\ UNCHANGED <<vars, files, config, stage>>

\* SetWebhook returns nil, and the listener starts.
Registered ==
  /\ stage = "waiting" /\ SetWebhook(TRUE) \notin calls
  /\ stage' = "serving"
  /\ UNCHANGED <<vars, files, config, calls, hook, queue>>

\* The process is gone: what it registered is another's from now on, and a
\* call on its way is late.
Gone ==
  /\ stage' = "off"
  /\ calls' = {Late(call) : call \in calls}
  /\ hook' = [b \in Bots |-> IF hook[b].by = "own"
                             THEN [hook[b] EXCEPT !.by = "other"] ELSE hook[b]]
  /\ UNCHANGED <<files, config, queue>>

\* It is killed, or getMe or setWebhook fails.
Die == Crash /\ Gone

\* The database could not be opened.
GiveUp == Exit /\ Gone

Store(d) ==
  /\ stage = "serving" /\ AddDelivery(d)
  /\ UNCHANGED <<files, startVars, queue>>

\* Somebody writes to a bot.
Write(b) ==
  /\ b \notin queue
  /\ queue' = queue \cup {b}
  /\ UNCHANGED <<vars, files, startVars>>

\* An update with the process's secret is let in; any other is answered 401
\* and stays with Telegram.
Accept(b) ==
  /\ b \in queue /\ stage = "serving"
  /\ hook[b].secret = config.secret
  /\ queue' = queue \ {b}
  /\ UNCHANGED <<vars, files, startVars>>

Starting ==
  \/ ReadToken \/ OpenStore \/ GetMe \/ Register \/ Registered
  \/ \E r \in Releases : ReadSecret(r)
  \/ \E call \in calls : call.own /\ TelegramApplies(call)

NextStart ==
  \/ Starting \/ Die \/ GiveUp
  \/ \E call \in calls : TelegramApplies(call)
  \/ \E f \in Files : Configure(f)
  \/ \E d \in IDs : Store(d)
  \/ \E b \in Bots : Write(b) \/ Accept(b)

StartSpec == InitStart /\ [][NextStart]_allVars

\* A start goes on, with Telegram's help, or ends; Telegram offers what it has.
FairStart ==
  /\ StartSpec
  /\ WF_allVars(Starting) /\ WF_allVars(GiveUp)
  /\ WF_allVars(Accept(config.bot))

-----------------------------------------------------------------------------
(* Properties.                                                             *)

\* Telegram's updates for the bot of a serving process carry its secret, one at
\* a time (which the order of admission rests on), whatever processes with
\* other files ran before and wherever they died; only a call that its process
\* did not wait for can have come between (run, Client.SetWebhook).
Reachable ==
  stage = "serving" /\ config.url =>
    \/ hook[config.bot] = Registration(config.secret, 1, "own")
    \/ hook[config.bot].by = "late"

\* From some time on no process ends, no late call comes through, and none has.
Settled ==
  /\ <>[][~(Die \/ GiveUp) /\ \A call \in calls : TelegramApplies(call) => call.own]_allVars
  /\ <>[](hook[config.bot].by # "late")

\* Then an update reaches the process, whatever has been rotated, migrated and
\* interrupted before (main.go: setWebhook at every start).
UpdatesFlow ==
  Settled =>
    \A b \in Bots :
      b \in queue /\ b = config.bot ~> b \notin queue \/ b # config.bot \/ ~config.url

=============================================================================
