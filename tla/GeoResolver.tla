---------------------------- MODULE GeoResolver ----------------------------
(***************************************************************************)
(* The optional MaxMind lookup of the Score stage (internal/intel/geoip):  *)
(* a record is put together from one to three calls on the reader, which   *)
(* main closes without asking whether a lookup is under way.  A record is  *)
(* the set of the fields that are filled in; what the library's reader     *)
(* answers is what the database it was opened on supports and knows.       *)
(***************************************************************************)
EXTENDS Naturals, Sequences

CONSTANTS
  IP,          \* remote addresses
  LocalIP,     \* the private, loopback and link-local ones
  Unparsed,    \* those net.ParseIP refuses (IPv6 with a zone)
  Database,    \* what the path may lead to: databases, see Fields, or
  NoDatabase,  \* nothing: path unset, file missing, or not a database
  Idle         \* no lookup is under way

VARIABLES
  db,          \* what the resolver was opened on
  reader,      \* Resolver.reader, and with it Resolver.enabled: "open", "closed", "nil"
  asking,      \* Idle, or the calls lookupPublic has still to make
  found        \* the record so far

geoVars == <<db, reader, asking, found>>

\* A database: [type, supports: the methods it answers, knows: address -> fields].
Fields(method) == CASE method = "City" -> {"country", "city"}
                    [] method = "Country" -> {"country"}
                    [] method = "ASN" -> {"asn", "org"}

Init ==
  /\ db \in Database
  /\ reader = (IF db = NoDatabase THEN "nil" ELSE "open")
  /\ asking = Idle /\ found = {}

Calls_IspLikeCity(type) ==
  CASE type \in {"city", "isp"} -> <<"City">>
    [] type = "country" -> <<"Country">>
    [] type = "asn"     -> <<"ASN">>
    [] type = "other"   -> <<"City", "Country", "ASN">>

\* The calls by type of database; of the last list, Country only if City fails.
Calls(type) ==
  CASE type = "city"    -> <<"City">>
    [] type = "country" -> <<"Country">>
    [] type = "asn"     -> <<"ASN">>
    [] type = "isp"     -> <<"City", "ASN">>
    [] type = "other"   -> <<"City", "Country", "ASN">>

Lookup(ip) ==
  /\ asking = Idle
  /\ LET public == reader # "nil" /\ ip \notin LocalIP \cup Unparsed
     IN  asking' = IF public THEN Calls(db.type) ELSE <<>>
  /\ found' = IF reader # "nil" /\ ip \in LocalIP \ Unparsed THEN {"local"} ELSE {}
  /\ UNCHANGED <<db, reader>>

\* One call on r.reader; on a closed reader every method fails.
Ask(ip) ==
  /\ asking \notin {Idle, <<>>} /\ reader # "nil"
  /\ LET method == Head(asking)
         answers == reader = "open" /\ method \in db.supports
     IN  /\ found' = IF answers THEN found \cup (Fields(method) \cap db.knows[ip]) ELSE found
         /\ asking' = IF answers /\ Len(asking) = 3 THEN <<"ASN">> ELSE Tail(asking)
  /\ UNCHANGED <<db, reader>>

\* The same call after Close has set r.reader to nil.
AskOfNil == asking \notin {Idle, <<>>} /\ reader = "nil" /\ UNCHANGED geoVars

Finish ==
  /\ asking = <<>>
  /\ asking' = Idle /\ found' = {}
  /\ UNCHANGED <<db, reader>>

\* Resolver.Close: the reader's own Close, then the field is cleared.
CloseReader ==
  /\ reader' = IF reader = "open" THEN "closed" ELSE reader
  /\ UNCHANGED <<db, asking, found>>

ForgetReader == reader' = "nil" /\ UNCHANGED <<db, asking, found>>

-----------------------------------------------------------------------------
\* All that the database can say of an address, and nothing else.
Says(ip) ==
  IF db = NoDatabase \/ ip \in Unparsed THEN {}
  ELSE IF ip \in LocalIP THEN {"local"}
  ELSE db.knows[ip] \cap UNION {Fields(m) : m \in db.supports}
=============================================================================
