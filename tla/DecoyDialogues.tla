--------------------------- MODULE DecoyDialogues ---------------------------
(***************************************************************************)
(* The handlers of every decoy but ssh (internal/decoys): those that hold  *)
(* a dialogue, Telnet, SMTP, MQTT, Modbus, PostgreSQL and Redis, and those *)
(* of one exchange, Docker, HTTP, Kubernetes, AWS IMDS, Elasticsearch,     *)
(* MongoDB, DNS and SMB.  A handler keeps nothing between connections and  *)
(* shares nothing with other handlers but the events channel, so one       *)
(* connection is all there is to it.  The handler is the only reader and   *)
(* its reads block until an item is whole: a line, a packet or a message.  *)
(* How TCP cut them is seen only where the code makes a single Read; that  *)
(* the connection ends or its deadline passes in the middle always is.     *)
(*                                                                         *)
(* Offering an event to the channel, where there may be no room, is the    *)
(* business of EventPipeline.  Hashes stand for what they are made of, and *)
(* scores and severities, constants of an action, for the action.          *)
(***************************************************************************)
EXTENDS Integers, Sequences, FiniteSets, SequencesExt

CONSTANTS
  Word,        \* lines of a terminal: commands other than exit (and quit)
  Verb,        \* SMTP verbs
  MaxItems     \* bound on what a peer sends

Items == [telnet   |-> Word \union {"", "exit"},
          smtp     |-> Verb \union {"", ".", "DATA", "QUIT"},
          mqtt     |-> {"CONNECT", "PUBLISH 0", "PUBLISH 1", "PUBLISH short", "SUBSCRIBE",
                        "PINGREQ", "DISCONNECT", "other", "malformed"},
          modbus   |-> {"read", "write", "short", "malformed"},
          postgres |-> {"ssl", "startup", "cut", "bare", "password", "noise"},
          redis    |-> Word \union {"", "EVAL"},
          docker   |-> {"get", "create", "empty create", "body", "part", "rest", "malformed"},
          http     |-> {"get", "post", "rest", "malformed"},
          k8s      |-> {"get", "authorized", "post", "rest", "malformed"},
          aws      |-> {"get", "post", "rest", "malformed"},
          elastic  |-> {"get", "post", "rest", "malformed"},
          mongo    |-> {"message", "bare", "body"},
          dns      |-> {"query", "short"},
          smb      |-> {"header", "negotiate"}]

ASSUME DialogueAssumption ==
  /\ {"", "exit", "EVAL"} \intersect Word = {} /\ {"", ".", "DATA", "QUIT"} \intersect Verb = {}
  /\ MaxItems \in Nat

VARIABLES
  proto,     \* the decoy
  pc,        \* what the handler waits for, or "done"
  broken,    \* the connection has ended or its deadline has passed
  input,     \* the items read
  user, body, \* local variables of the handlers
  out        \* events offered and replies written, in order

vars == <<proto, pc, broken, input, user, body, out>>

\* An event: what it is about, the user named in it, and the lines hashed into it.
Report(what, who, lines) == [report |-> TRUE, what |-> what, who |-> who, lines |-> lines]
Reply(what) == [report |-> FALSE, what |-> what, who |-> "", lines |-> <<>>]

-----------------------------------------------------------------------------
Init ==
  /\ proto \in DOMAIN Items
  /\ broken = FALSE /\ input = <<>> /\ user = "" /\ body = <<>>
  /\ pc = [telnet |-> "user", smtp |-> "command", mqtt |-> "packet",
           modbus |-> "request", postgres |-> "startup", redis |-> "command",
           docker |-> "request", http |-> "request", k8s |-> "request", aws |-> "request",
           elastic |-> "request", mongo |-> "message", dns |-> "query",
           smb |-> "header"][proto]
  /\ out = CASE proto = "telnet" -> <<Reply("login:")>>
             [] proto = "smtp" -> <<Reply("220")>>
             [] OTHER -> <<>>

\* The handler puts out `s` and goes on at `next`.
Goes(s, next) == out' = out \o s /\ pc' = next

-----------------------------------------------------------------------------
\* Telnet: a login, whatever it is, and a shell that ends with exit.
TelnetLogin(line) ==
  \/ /\ pc = "user"
     /\ user' = line
     /\ Goes(<<Reply("Password:")>>, "password")
  \/ /\ pc = "password"
     /\ Goes(<<Report("login", user, <<line>>), Reply("#")>>, "shell")
     /\ UNCHANGED user

TelnetShell(line) ==
  /\ pc = "shell"
  /\ CASE line = "" -> Goes(<<Reply("#")>>, "shell")
       [] line = "exit" -> Goes(<<Report("exec", user, <<line>>)>>, "done")
       [] OTHER -> Goes(<<Report("exec", user, <<line>>), Reply("#")>>, "shell")
  /\ UNCHANGED user

Telnet(line) == /\ TelnetLogin(line) \/ TelnetShell(line)
                /\ UNCHANGED body

\* SMTP: a verb is answered, then reported; DATA is reported when its mail has been
\* read; QUIT is not reported.
SmtpCommand(line) ==
  /\ pc = "command"
  /\ body' = <<>>
  /\ CASE line = "" -> Goes(<<>>, "command")
       [] line = "QUIT" -> Goes(<<Reply("221")>>, "done")
       [] line = "DATA" -> Goes(<<Reply("354")>>, "body")
       [] OTHER -> Goes(<<Reply(IF line \in Verb THEN "250" ELSE "502"),
                          Report("verb", "", <<line>>)>>, "command")

SmtpBody_VerbsRun(line) ==
  /\ pc = "body"
  /\ IF line \in {".", "QUIT"}
     THEN Goes(<<Reply("250"), Report("mail", "", body)>>, "command") /\ UNCHANGED body
     ELSE Goes(<<>>, "body") /\ body' = Append(body, line)

SmtpBody(line) ==
  /\ pc = "body"
  /\ IF line = "."
     THEN Goes(<<Reply("250"), Report("mail", "", body)>>, "command") /\ UNCHANGED body
     ELSE Goes(<<>>, "body") /\ body' = Append(body, line)

Smtp(line) == /\ SmtpCommand(line) \/ SmtpBody(line)
              /\ UNCHANGED user

\* MQTT: packets in any order; an acknowledgement is for a publication with a QoS,
\* unless it has less than the two bytes of a topic's length.
MqttReply == [x \in {"CONNECT", "PUBLISH 1", "SUBSCRIBE", "PINGREQ"} |->
  CASE x = "CONNECT" -> "CONNACK" [] x = "PUBLISH 1" -> "PUBACK"
    [] x = "SUBSCRIBE" -> "SUBACK" [] x = "PINGREQ" -> "PINGRESP"]
MqttReported == {"CONNECT", "PUBLISH 0", "PUBLISH 1", "PUBLISH short", "SUBSCRIBE"}

Mqtt(packet) ==
  /\ pc = "packet"
  /\ Goes((IF packet \in MqttReported THEN <<Report(packet, "", <<>>)>> ELSE <<>>)
            \o (IF packet \in DOMAIN MqttReply THEN <<Reply(MqttReply[packet])>> ELSE <<>>),
          IF packet \in {"malformed", "DISCONNECT"} THEN "done" ELSE "packet")
  /\ UNCHANGED <<user, body>>

\* Modbus: reported, then answered, unless it is too short to echo.
Modbus(request) ==
  /\ pc = "request"
  /\ CASE request = "malformed" -> Goes(<<>>, "done")
       [] request = "short" -> Goes(<<Report(request, "", <<>>)>>, "request")
       [] OTHER -> Goes(<<Report(request, "", <<>>), Reply(request)>>, "request")
  /\ UNCHANGED <<user, body>>

\* PostgreSQL: the header of a startup message, after a refused SSLRequest or not,
\* with a body that names a user, or none that is read.
PostgresStartup(message) ==
  /\ message \in {"ssl", "startup", "bare"}
  /\ \/ /\ pc = "startup" /\ message = "ssl"
        /\ Goes(<<Reply("N")>>, "after SSL") /\ UNCHANGED user
     \/ /\ pc = "after SSL" \/ (pc = "startup" /\ message # "ssl")
        /\ user' = IF message = "startup" THEN "u" ELSE ""
        /\ Goes(<<Reply("R")>>, "auth")

PostgresEnd(password) == <<Reply("E"), Report("auth", user, password)>>

PostgresPassword(message) ==
  /\ pc = "auth" /\ message \in {"password", "noise"}
  /\ Goes(PostgresEnd(IF message = "password" THEN <<message>> ELSE <<>>), "done")
  /\ UNCHANGED user

Postgres(message) == /\ PostgresStartup(message) \/ PostgresPassword(message)
                     /\ UNCHANGED body

-----------------------------------------------------------------------------
\* Redis: every line that is not blank is a command, answered and then reported.
Redis(line) ==
  /\ pc = "command"
  /\ Goes(IF line = "" THEN <<>>
          ELSE <<Reply(line), Report(line, "", IF line = "EVAL" THEN <<line>> ELSE <<>>)>>,
          "command")
  /\ UNCHANGED <<user, body>>

\* One HTTP request, answered and then reported with what was hashed.  The deferred
\* Close of a body that is not all there yet waits for the rest.
HttpEnd(request, hashed) == <<Reply("HTTP"), Report(request, "", hashed)>>

HttpOnce(request, hashed) ==
  /\ \/ /\ pc = "request" /\ request # "rest"
        /\ CASE request = "malformed" -> Goes(<<>>, "done")
             [] request = "post" -> Goes(HttpEnd(request, hashed), "drain")
             [] OTHER -> Goes(HttpEnd(request, hashed), "done")
     \/ pc = "drain" /\ request = "rest" /\ Goes(<<>>, "done")
  /\ UNCHANGED <<user, body>>

Http(request) == HttpOnce(request, <<>>)
K8s(request) == HttpOnce(request, IF request = "authorized" THEN <<request>> ELSE <<>>)
Imds(request) == HttpOnce(request, <<request>>)
Elastic(request) == HttpOnce(request, <<request>>)

\* Docker: creating a container takes a body, or as much of it as one Read returns,
\* which is nothing at once if the request announces none.
Docker(request) ==
  \/ request \in {"get", "empty create", "rest", "malformed"} /\ HttpOnce(request, <<>>)
  \/ /\ \/ pc = "request" /\ request = "create" /\ Goes(<<>>, "payload")
        \/ /\ pc = "payload" /\ request \in {"body", "part"}
           /\ Goes(HttpEnd("create", <<request>>), IF request = "part" THEN "drain" ELSE "done")
     /\ UNCHANGED <<user, body>>

\* MongoDB: a message has a body of less than 8192 bytes, or one that is not read.
MongoEnd(hashed) == <<Report("message", "", hashed), Reply("OP_MSG")>>

Mongo(message) ==
  /\ \/ pc = "message" /\ message = "message" /\ Goes(<<>>, "payload")
     \/ pc = "message" /\ message = "bare" /\ Goes(MongoEnd(<<>>), "done")
     \/ pc = "payload" /\ message = "body" /\ Goes(MongoEnd(<<message>>), "done")
  /\ UNCHANGED <<user, body>>

\* DNS: reported and not answered.
Dns(query) ==
  /\ pc = "query"
  /\ Goes(IF query = "short" THEN <<>> ELSE <<Report(query, "", <<>>)>>, "done")
  /\ UNCHANGED <<user, body>>

\* SMB: reported on its header, before there is anything to hash, and answered after
\* what follows, if anything does.
Smb(message) ==
  /\ \/ pc = "header" /\ message = "header" /\ Goes(<<Report(message, "", <<>>)>>, "payload")
     \/ pc = "payload" /\ message = "negotiate" /\ Goes(<<Reply("SMB2")>>, "done")
  /\ UNCHANGED <<user, body>>

-----------------------------------------------------------------------------
\* A read succeeds.
Read ==
  /\ ~broken /\ pc # "done" /\ Len(input) < MaxItems
  /\ \E item \in Items[proto] :
       /\ input' = Append(input, item)
       /\ CASE proto = "telnet" -> Telnet(item)
            [] proto = "smtp" -> Smtp(item)
            [] proto = "mqtt" -> Mqtt(item)
            [] proto = "modbus" -> Modbus(item)
            [] proto = "postgres" -> Postgres(item)
            [] proto = "redis" -> Redis(item)
            [] proto = "docker" -> Docker(item)
            [] proto = "http" -> Http(item)
            [] proto = "k8s" -> K8s(item)
            [] proto = "aws" -> Imds(item)
            [] proto = "elastic" -> Elastic(item)
            [] proto = "mongo" -> Mongo(item)
            [] proto = "dns" -> Dns(item)
            [] proto = "smb" -> Smb(item)
  /\ UNCHANGED <<proto, broken>>

ReadFails_NothingMore ==
  /\ pc # "done"
  /\ broken' = TRUE
  /\ Goes(<<>>, "done")
  /\ UNCHANGED <<proto, input, user, body>>

\* A read fails, and with it every later one: the peer is gone or the deadline has
\* passed.  A mail, a PostgreSQL login and a request whose body does not come are
\* finished with what there is.
ReadFails ==
  /\ pc # "done"
  /\ broken' = TRUE
  /\ \/ pc = "body" /\ Goes(<<Reply("250"), Report("mail", "", body)>>, "command")
     \/ pc = "auth" /\ Goes(PostgresEnd(<<>>), "done")
     \/ pc = "payload" /\ Goes(CASE proto = "docker" -> HttpEnd("create", <<>>)
                                  [] proto = "mongo" -> MongoEnd(<<>>)
                                  [] proto = "smb" -> <<Reply("SMB2")>>, "done")
     \/ pc \notin {"body", "auth", "payload"} /\ Goes(<<>>, "done")
  /\ UNCHANGED <<proto, input, user, body>>

\* The body of a PostgreSQL startup message fails to come: no user, and on.
BodyFails ==
  /\ ~broken /\ pc \in {"startup", "after SSL"} /\ Len(input) < MaxItems
  /\ input' = Append(input, "cut")
  /\ broken' = TRUE
  /\ Goes(<<Reply("R")>>, "auth")
  /\ UNCHANGED <<proto, user, body>>

Next == Read \/ ReadFails \/ BodyFails

Spec == Init /\ [][Next]_vars

-----------------------------------------------------------------------------
Reports == SelectSeq(out, LAMBDA o : o.report)
Replies == SelectSeq(out, LAMBDA o : ~o.report)

\* SMTP as the peer sees it: a line is a command unless it is in the mail of an
\* earlier command DATA, which the next "." line ends.
Dot(d) == SelectInSubSeq(input, d + 1, Len(input), LAMBDA line : line = ".")   \* or 0
Commands ==
  CHOOSE C \in SUBSET DOMAIN input :
    \A i \in DOMAIN input :
      i \in C <=> \A d \in C : d < i /\ input[d] = "DATA" => Dot(d) \in 1..(i - 1)

Ended(d) == Dot(d) # 0 \/ broken
Mail(d) == SubSeq(input, d + 1, IF Dot(d) = 0 THEN Len(input) ELSE Dot(d) - 1)

\* What the code reports nothing of, although the telemetry specification asks for
\* events of "Every session interaction across all decoys" (openspec/changes/
\* shinkiro-ephemeral-honeynet/specs/threat-telemetry/spec.md:9): a user name with no
\* password after it (telnet.go:46-51), QUIT (smtp.go:93-95), the packets of MQTT that
\* ask for no service (mqtt.go:144-151), an SSLRequest alone (postgres.go:44-49).  What
\* a handler cannot parse it drops without a report as well.
PassedOver ==
  CASE proto = "telnet" -> {i \in DOMAIN input : i = 1 /\ Len(input) = 1}
    [] proto = "smtp" -> {i \in Commands : input[i] = "QUIT"}
    [] proto = "mqtt" -> {i \in DOMAIN input : input[i] \in {"PINGREQ", "DISCONNECT", "other"}}
    [] proto = "postgres" -> {i \in DOMAIN input : input = <<"ssl">>}
    [] OTHER -> {}

\* The items that call for a report: what a peer asks for or gives away, a login with
\* its last line, a mail with its first, a request when it is as complete as it gets.
Called ==
  CASE proto = "telnet" -> {i \in DOMAIN input : \/ i = 1 /\ Len(input) = 1
                                                 \/ i = 2
                                                 \/ i > 2 /\ input[i] # ""}
    [] proto = "smtp" -> {i \in Commands : input[i] # "" /\ (input[i] = "DATA" => Ended(i))}
    [] proto = "mqtt" -> {i \in DOMAIN input : input[i] # "malformed"}
    [] proto = "modbus" -> {i \in DOMAIN input : input[i] # "malformed"}
    [] proto = "postgres" -> {i \in DOMAIN input : /\ pc = "done"
                                                   /\ input[i] # "ssl" \/ i = Len(input) \/ i = 2
                                                   /\ input[i] \notin {"password", "noise"}}
    [] proto = "redis" -> {i \in DOMAIN input : input[i] # ""}
    [] proto = "dns" -> {i \in DOMAIN input : input[i] = "query"}
    [] proto = "smb" -> {i \in DOMAIN input : i = 1}
    [] OTHER -> {i \in DOMAIN input :
                   i = 1 /\ CASE input[1] = "malformed" -> FALSE
                              [] input[1] \in {"create", "message"} -> Len(input) > 1 \/ broken
                              [] OTHER -> TRUE}

Reportable == Called \ PassedOver

\* Lines that a report holds the hash of.
Hashed(i) ==
  CASE proto = "redis" /\ input[i] = "EVAL" -> <<input[i]>>
    [] proto = "k8s" /\ input[i] = "authorized" -> <<input[i]>>
    [] proto \in {"aws", "elastic"} -> <<input[i]>>
    [] input[i] \in {"create", "message"} -> SubSeq(input, 2, IF Len(input) > 1 THEN 2 ELSE 1)
    [] OTHER -> <<>>

Due(i) ==
  CASE proto = "telnet" -> Report(IF i = 2 THEN "login" ELSE "exec", input[1], <<input[i]>>)
    [] proto = "smtp" -> IF input[i] = "DATA" THEN Report("mail", "", Mail(i))
                         ELSE Report("verb", "", <<input[i]>>)
    [] proto \in {"mqtt", "modbus"} -> Report(input[i], "", <<>>)
    [] proto = "postgres" -> Report("auth", IF input[i] = "startup" THEN "u" ELSE "",
                                    SelectSeq(input, LAMBDA x : x = "password"))
    [] proto = "mongo" -> Report("message", "", Hashed(i))
    [] OTHER -> Report(input[i], "", Hashed(i))

\* What a peer asks for or gives away is reported once, in order, with its user and its
\* lines, however the dialogue ends: a mail that breaks off with what came of it, a login
\* or a body that never came without it (smtp.go:72-103, postgres.go:52-116, docker.go:66).
\* PassedOver is where the code falls short of the specification.
ReportsMatchInput ==
  LET at == SetToSortSeq(Reportable, <)
  IN  Reports = [k \in DOMAIN at |-> Due(at[k])]

\* What a handler answers it answers once, however the dialogue is cut: a verb within
\* a mail is no command, and a mail gets its answer even if its end never comes.  No
\* answer is due to a blank line, to telnet's exit, to a DNS query, to a PUBLISH
\* without QoS or too short (mqtt.go:116) and to a Modbus request too short to echo;
\* each line of a redis array is answered.  Answers are counted here and not
\* measured: those of Modbus are a byte short of the length they announce
\* (modbus.go:133, 141, 151), and a peer that goes by the length loses its place.
AnsweredOnce ==
  Len(Replies) =
    CASE proto = "telnet" -> 1 + Cardinality({i \in DOMAIN input : i < 3 \/ input[i] # "exit"})
      [] proto = "smtp" -> 1 + Cardinality({i \in Commands : input[i] # ""})
                             + Cardinality({i \in Commands : input[i] = "DATA" /\ Ended(i)})
      [] proto = "mqtt" -> Cardinality({i \in DOMAIN input : input[i] \in DOMAIN MqttReply})
      [] proto = "modbus" -> Cardinality({i \in DOMAIN input : input[i] \in {"read", "write"}})
      [] proto = "postgres" -> Len(input) + (IF /\ broken /\ pc = "done"
                                                /\ input \notin {<<>>, <<"ssl">>}
                                             THEN 1 ELSE 0)
      [] proto = "redis" -> Cardinality(Reportable)
      [] proto = "dns" -> 0
      [] proto = "smb" -> IF Len(input) = 2 \/ (broken /\ input # <<>>) THEN 1 ELSE 0
      [] OTHER -> Cardinality(Reportable)
=============================================================================
