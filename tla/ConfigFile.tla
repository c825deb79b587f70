----------------------------- MODULE ConfigFile -----------------------------
(***************************************************************************)
(* The settings of a configuration file: how a YAML file of schema 1 or 2  *)
(* becomes the document the daemon runs with, and how each listener takes  *)
(* its limits from that document (internal/config parse, normalize,        *)
(* defaults and validate; the settings of the TACACS+ and RADIUS           *)
(* listeners).                                                             *)
(*                                                                         *)
(* A section of the file is a mapping: a sequence of entries, each with a  *)
(* key, a mark (an anchor or an alias is refused) and a value, which may   *)
(* be blank.  The keys of a nested mapping are written with a dot.  Times  *)
(* are in milliseconds and sizes in octets, as large as in the code.  The  *)
(* clients of a document are in ClientEndpoints.                           *)
(***************************************************************************)
EXTENDS Integers, Sequences, FiniteSets, TLC

Refused == [refused |-> TRUE]
KiB == 1024
MiB == 1024 * KiB
Second == 1000
Minute == 60 * Second
Hour == 60 * Minute

-----------------------------------------------------------------------------
(* Defaults                                                                *)

defaultSharedSecretPolicy == "minimum_length_characters" :> 16 @@ "minimum_character_classes" :> 3

defaultTLS ==
  "tls.minimum_version" :> "TLS1.3" @@ "tls.client_authentication" :> "require_and_verify_certificate"
  @@ "tls.revocation.mode" :> "configured_crl" @@ "tls.session_resumption.enabled" :> TRUE
  @@ "tls.session_resumption.ticket_lifetime" :> 168 * Hour
  @@ "tls.session_resumption.recheck_client_revocation" :> TRUE @@ "tls.reject_early_data" :> TRUE
  @@ "tls.identities.default_id" :> "" @@ "tls.identities.profiles" :> <<>>
  @@ "tls.client_ca_bundle" :> "" @@ "tls.revocation.crl_bundle" :> ""

defaultTACACSListener(bind) ==
  "enabled" :> TRUE @@ "bind" :> bind @@ "read_timeout" :> 15 * Second @@ "write_timeout" :> 15 * Second
  @@ "idle_timeout" :> 60 * Second @@ "handshake_timeout" :> 10 * Second @@ "max_connections" :> 4096
  @@ "max_sessions_per_connection" :> 1024 @@ "max_packet_body_bytes" :> 64 * KiB
  @@ "single_connect.enabled" :> TRUE @@ "single_connect.max_lifetime" :> 10 * Minute
  @@ "single_connect.idle_timeout" :> 60 * Second

defaultHTTP == "enabled" :> TRUE @@ "bind" :> "http" @@ "max_request_body_bytes" :> 2 * MiB @@ "tls.enabled" :> FALSE

defaultRADIUS(bind, queue, workers, entries, bytes, ttl) ==
  "enabled" :> FALSE @@ "required" :> FALSE @@ "bind" :> bind @@ "transport" :> "udp"
  @@ "max_packet_bytes" :> 4096 @@ "queue_capacity" :> queue @@ "workers" :> workers
  @@ "worker_deadline" :> 5 * Second @@ "retransmission_cache_entries" :> entries
  @@ "retransmission_cache_bytes" :> bytes @@ "retransmission_ttl" :> ttl
  @@ "per_source_rate" :> 100 @@ "per_source_burst" :> 200

Challenged ==
  "message_authenticator" :> "required" @@ "challenge_ttl" :> 30 * Second
  @@ "challenge_entries" :> 4096 @@ "challenge_bytes" :> MiB

defaultRADIUSAccess ==
  defaultRADIUS("access", 2048, 32, 10000, 4 * MiB, 15 * Second) @@ Challenged @@ "limit_proxy_state" :> TRUE

defaultRADIUSDynAuth == defaultRADIUS("dynauth", 256, 8, 10000, 4 * MiB, 15 * Second) @@ Challenged

defaultRADIUSAccounting ==
  defaultRADIUS("accounting", 2048, 16, 20000, 8 * MiB, 60 * Second)
  @@ "journal_entries" :> 20000 @@ "journal_bytes" :> 8 * MiB @@ "ambiguous_accounting_per_minute" :> 60
  @@ "session_index_entries" :> 20000 @@ "session_index_bytes" :> 8 * MiB
  @@ "session_ttl" :> 24 * Hour @@ "coa_timeout" :> 3 * Second

defaultRADIUSRadSec ==
  "enabled" :> FALSE @@ "required" :> FALSE @@ "bind" :> "radsec" @@ "transport" :> "tls"
  @@ "max_packet_bytes" :> 4096 @@ "max_connections" :> 256 @@ "idle_timeout" :> 60 * Second
  @@ "handshake_timeout" :> 10 * Second @@ "retransmission_cache_entries" :> 10000
  @@ "retransmission_cache_bytes" :> 4 * MiB @@ "retransmission_ttl" :> 15 * Second @@ defaultTLS

(* The sections of a document, under one name in both schemas.             *)
defaultDocument ==
  [server |-> "admin_only" :> FALSE @@ "startup_failure_mode" :> "fail_closed" @@ "shutdown_grace" :> 15 * Second,
   security |-> "allow_environment_secrets" :> FALSE @@ "strict_secret_files" :> TRUE,
   legacySecrets |-> defaultSharedSecretPolicy, radiusSecrets |-> defaultSharedSecretPolicy,
   legacy |-> defaultTACACSListener("legacy"), secure |-> defaultTACACSListener("secure") @@ defaultTLS,
   http |-> defaultHTTP, access |-> defaultRADIUSAccess, accounting |-> defaultRADIUSAccounting,
   radsec |-> defaultRADIUSRadSec, dynauth |-> defaultRADIUSDynAuth]

-----------------------------------------------------------------------------
(* Reading a file                                                          *)

(* Where each schema keeps a section.                                      *)
Shared == ("server" :> "server") @@ ("security" :> "security") @@ ("http" :> "http")
          @@ ("security.legacy_shared_secrets" :> "legacySecrets")
Names(schema) ==
  IF schema = 1 THEN Shared @@ ("legacy_tacacs" :> "legacy") @@ ("secure_tacacs" :> "secure")
  ELSE Shared @@ ("tacacs.legacy" :> "legacy") @@ ("tacacs.tls" :> "secure")
       @@ ("security.radius_shared_secrets" :> "radiusSecrets") @@ ("radius.access" :> "access")
       @@ ("radius.accounting" :> "accounting") @@ ("radius.radsec" :> "radsec")
       @@ ("radius.dynamic_authorization" :> "dynauth")

(* The keys a section may have.                                            *)
yamlFields(schema, section) ==
  LET all == DOMAIN defaultDocument[section]
  IN CASE section = "server" /\ schema = 1 -> all \ {"admin_only"}
       [] section = "dynauth" -> (all \ DOMAIN Challenged) \cup {"require_message_authenticator"}
       [] OTHER -> all

inspectMapping(schema, section, mapping) ==
  /\ \A i \in DOMAIN mapping : mapping[i].mark = "plain" /\ mapping[i].key \in yamlFields(schema, section)
  /\ \A i, j \in DOMAIN mapping : mapping[i].key = mapping[j].key => i = j

peekSchemaVersion(file) == file.schema \in {1, 2}

(* What the file itself must look like: one document of a known schema,    *)
(* with the sections of that schema only, and no key twice or unknown.     *)
Readable(file) ==
  /\ file.documents = 1 /\ peekSchemaVersion(file)
  /\ \A name \in DOMAIN file.sections :
       /\ name \in DOMAIN Names(file.schema)
       /\ inspectMapping(file.schema, Names(file.schema)[name], file.sections[name])

(* What is written for a section, a blank value being no value.            *)
Written(file, section) ==
  LET names == {n \in DOMAIN file.sections : Names(file.schema)[n] = section}
      lines == IF names = {} THEN <<>> ELSE file.sections[CHOOSE n \in names : TRUE]
      set == {i \in DOMAIN lines : ~lines[i].blank}
  IN [k \in {lines[i].key : i \in set} |-> lines[CHOOSE i \in set : lines[i].key = k].value]

Over(written, default) == [k \in DOMAIN default |-> IF k \in DOMAIN written THEN written[k] ELSE default[k]]

-----------------------------------------------------------------------------
(* Normalising                                                             *)

(* The values a key may be given at all.                                   *)
Fixed(section) ==
  "startup_failure_mode" :> {"fail_closed"} @@ "require_message_authenticator" :> {TRUE}
  @@ "transport" :> (IF section = "radsec" THEN {"tls"} ELSE {"udp"})
  @@ "message_authenticator" :> {"required", "allow_missing"}
  @@ "tls.minimum_version" :> {"TLS1.3"} @@ "tls.client_authentication" :> {"require_and_verify_certificate"}
  @@ "tls.revocation.mode" :> {"configured_crl"}
Admissible(section, written) ==
  \A k \in DOMAIN written \cap DOMAIN Fixed(section) : written[k] \in Fixed(section)[k]

(* A reference to a private key is a file or, where the security section   *)
(* allows it, an environment variable.                                     *)
normalizeSecretRef(ref, allowEnv) == ref \in {"none", "file"} \/ (ref = "environment" /\ allowEnv)

normalizeSecureTLS(section, allowEnv) ==
  LET profiles == section["tls.identities.profiles"]
  IN /\ \A i \in DOMAIN profiles : profiles[i].id # "" /\ normalizeSecretRef(profiles[i].key, allowEnv)
     /\ \A i, j \in DOMAIN profiles : profiles[i].id = profiles[j].id => i = j

applySharedSecretPolicy(policy) ==
  policy["minimum_character_classes"] \in 0..4 /\ policy["minimum_length_characters"] >= 0

clampInt(n, min, max) == IF n < min THEN min ELSE IF n > max THEN max ELSE n

normalizeServer(file) == Over(Written(file, "server"), defaultDocument.server)
normalizeSecurity(file) == Over(Written(file, "security"), defaultDocument.security)
normalizeTACACS(file, s) == Over(Written(file, s), defaultDocument[s])
normalizeHTTP(file) == Over(Written(file, "http"), defaultDocument.http)
normalizeRADIUSCommon(file, s) == Over(Written(file, s), defaultDocument[s])
normalizeRADIUSAccess(file) == normalizeRADIUSCommon(file, "access")
normalizeRADIUSDynAuth(file) == normalizeRADIUSCommon(file, "dynauth")
normalizeRADIUSRadSec(file) == Over(Written(file, "radsec"), defaultDocument.radsec)

normalizeRADIUSAccounting(file) ==
  LET section == normalizeRADIUSCommon(file, "accounting")
      coa == section["coa_timeout"]
  IN [section EXCEPT !["session_index_entries"] = clampInt(@, 16, 100000),
                     !["session_index_bytes"] = clampInt(@, 64 * KiB, 64 * MiB),
                     !["session_ttl"] = clampInt(@, Minute, 24 * Hour),
                     !["coa_timeout"] = clampInt(IF coa <= 0 THEN 3 * Second ELSE coa, 500, 30 * Second)]

(* Schema 1 cannot express what came later: RADIUS is off, and its secrets *)
(* follow the policy of the legacy ones.                                   *)
migrateV1ToNormalized(doc) ==
  [s \in DOMAIN doc |->
     CASE s = "server" -> [doc[s] EXCEPT !["admin_only"] = FALSE]
       [] s = "radiusSecrets" -> doc.legacySecrets
       [] s \in {"access", "accounting", "radsec", "dynauth"} -> [doc[s] EXCEPT !["enabled"] = FALSE]
       [] OTHER -> doc[s]]

(* Schema 2 lays the policy of the RADIUS secrets over the effective       *)
(* policy of the legacy ones.                                              *)
RadiusSecrets_Default(file, legacy) == Over(Written(file, "radiusSecrets"), defaultSharedSecretPolicy)
RadiusSecrets(file, legacy) == Over(Written(file, "radiusSecrets"), legacy)

(* The sections schema 2 alone has; schema 1 leaves them at their defaults.*)
normalizeV2(file, doc) ==
  [doc EXCEPT !.radiusSecrets = RadiusSecrets(file, doc.legacySecrets),
              !.access = normalizeRADIUSAccess(file), !.accounting = normalizeRADIUSAccounting(file),
              !.radsec = normalizeRADIUSRadSec(file), !.dynauth = normalizeRADIUSDynAuth(file)]

normalizeCommon(file) ==
  [defaultDocument EXCEPT !.server = normalizeServer(file), !.security = normalizeSecurity(file),
     !.legacySecrets = Over(Written(file, "legacySecrets"), @),
     !.legacy = normalizeTACACS(file, "legacy"), !.secure = normalizeTACACS(file, "secure"),
     !.http = normalizeHTTP(file)]

(* What normalising refuses on its way.                                    *)
Sound(file, doc) ==
  /\ \A s \in DOMAIN doc : Admissible(s, Written(file, s))
  /\ \A s \in {"legacySecrets", "radiusSecrets"} : applySharedSecretPolicy(doc[s])
  /\ \A s \in {"secure", "radsec"} :
       normalizeSecureTLS(doc[s], doc.security["allow_environment_secrets"])

normalizeDocument(file, common) ==
  IF file.schema = 1 THEN migrateV1ToNormalized(common) ELSE normalizeV2(file, common)

(* The document of a file, or nothing.                                     *)
Accepted(file, doc) == IF Readable(file) /\ Sound(file, doc) THEN doc ELSE Refused
ParseWithOptions(file) == Accepted(file, normalizeDocument(file, normalizeCommon(file)))

-----------------------------------------------------------------------------
(* Validating                                                              *)

(* A bind address is host:port; here it is a name, "" when it is not one.  *)
validateBind(bind) == bind # ""

validateSecureTLS(l) ==
  LET profiles == l["tls.identities.profiles"]
  IN /\ Len(profiles) > 0
     /\ l["tls.identities.default_id"] \in {""} \cup {profiles[i].id : i \in DOMAIN profiles}
     /\ \A i \in DOMAIN profiles : profiles[i].chain /\ profiles[i].key # "none" /\ profiles[i].names
     /\ l["tls.client_ca_bundle"] # "" /\ l["tls.revocation.crl_bundle"] # ""
     /\ l["tls.reject_early_data"] /\ l["tls.session_resumption.recheck_client_revocation"]
     /\ l["tls.session_resumption.enabled"] => l["tls.session_resumption.ticket_lifetime"] \in {0, 168 * Hour}

validateRADIUSListener(l, accounting) ==
  /\ validateBind(l["bind"]) /\ l["max_packet_bytes"] \in 20..4096
  /\ \A k \in {"queue_capacity", "workers", "worker_deadline", "retransmission_cache_entries",
               "retransmission_cache_bytes", "per_source_rate", "per_source_burst"} : l[k] > 0
  /\ IF accounting
     THEN /\ l["retransmission_ttl"] \in 1..(300 * Second)
          /\ l["journal_entries"] > 0 /\ l["journal_bytes"] > 0 /\ l["ambiguous_accounting_per_minute"] >= 0
          /\ l["session_index_entries"] \in 16..100000 /\ l["session_index_bytes"] \in (64 * KiB)..(64 * MiB)
          /\ l["session_ttl"] \in Minute..(24 * Hour) /\ l["coa_timeout"] \in 500..(30 * Second)
     ELSE /\ l["retransmission_ttl"] \in (5 * Second)..(30 * Second)
          /\ l["challenge_ttl"] \in (5 * Second)..Minute
          /\ l["challenge_entries"] \in 16..65536 /\ l["challenge_bytes"] \in (64 * KiB)..(8 * MiB)

validateRADIUSRadSecListener(l) ==
  /\ validateBind(l["bind"]) /\ l["max_packet_bytes"] \in 20..4096
  /\ \A k \in {"max_connections", "idle_timeout", "handshake_timeout", "retransmission_cache_entries",
               "retransmission_cache_bytes"} : l[k] > 0
  /\ l["retransmission_ttl"] \in (5 * Second)..(30 * Second)
  /\ l["enabled"] => validateSecureTLS(l)

validateDistinctRADIUSBinds(doc) ==
  \A a, b \in {"access", "accounting", "dynauth"} :
    a # b /\ doc[a]["enabled"] /\ doc[b]["enabled"] => doc[a]["bind"] # doc[b]["bind"]

validateListeners(doc) ==
  /\ ~doc.http["tls.enabled"]
  /\ \A s \in {"legacy", "secure", "http"} : validateBind(doc[s]["bind"])
  /\ validateRADIUSListener(doc.access, FALSE) /\ validateRADIUSListener(doc.accounting, TRUE)
  /\ validateRADIUSRadSecListener(doc.radsec) /\ validateRADIUSListener(doc.dynauth, FALSE)
  /\ validateDistinctRADIUSBinds(doc)
  /\ doc.legacy["enabled"] /\ doc.secure["enabled"] => doc.legacy["bind"] # doc.secure["bind"]
  /\ doc.secure["enabled"] => validateSecureTLS(doc.secure)

(* What the daemon starts or reloads from the file.                        *)
Validated(doc) == IF doc = Refused THEN Refused ELSE IF validateListeners(doc) THEN doc ELSE Refused
Load(file) == Validated(ParseWithOptions(file))

-----------------------------------------------------------------------------
(* What a listener makes of its section                                    *)

Positive(l, fallback) == [k \in DOMAIN l |-> IF k \in DOMAIN fallback /\ l[k] <= 0 THEN fallback[k] ELSE l[k]]

(* A TACACS+ listener.  The idle timeout of single connections, when there *)
(* is one, is the idle timeout of every connection.                        *)
limitsFrom(l) ==
  LET single == l["single_connect.idle_timeout"]
  IN [l EXCEPT !["idle_timeout"] = IF single > 0 THEN single ELSE @]
(* A body limit is narrowed to 32 bits, where a negative one is huge, and  *)
(* held under the limit of the protocol.                                   *)
ClampMaxBody(max) == IF max <= 0 \/ max > 64 * KiB THEN 64 * KiB ELSE max
TacacsLimits(l) ==
  LET kept == Positive(limitsFrom(l),
                       "max_sessions_per_connection" :> 1024 @@ "read_timeout" :> 15 * Second
                       @@ "write_timeout" :> 15 * Second @@ "idle_timeout" :> 60 * Second
                       @@ "handshake_timeout" :> 10 * Second)
  IN [kept EXCEPT !["max_connections"] = IF @ < 0 THEN 0 ELSE @,
                  !["max_packet_body_bytes"] = ClampMaxBody(@)]

normalizeSettings(l, role) ==
  LET acct == role = "accounting"
      own == "max_packet_bytes" :> 4096 @@ "queue_capacity" :> (IF role = "dynauth" THEN 256 ELSE 2048)
             @@ "workers" :> (CASE acct -> 16 [] role = "dynauth" -> 8 [] OTHER -> 32)
             @@ "worker_deadline" :> 5 * Second
             @@ "retransmission_cache_entries" :> (IF acct THEN 20000 ELSE 10000)
             @@ "retransmission_cache_bytes" :> (IF acct THEN 8 * MiB ELSE 4 * MiB)
             @@ "retransmission_ttl" :> (IF acct THEN 60 * Second ELSE 15 * Second)
             @@ "per_source_rate" :> 100 @@ "per_source_burst" :> 200
  IN IF ~acct THEN Positive(l, own)
     ELSE LET kept == Positive(l, own @@ "journal_entries" :> 20000 @@ "journal_bytes" :> 8 * MiB)
          IN [kept EXCEPT !["ambiguous_accounting_per_minute"] = IF @ < 0 THEN 60 ELSE @]

normalizeRadSec(l) ==
  Positive(l, "max_packet_bytes" :> 4096 @@ "max_connections" :> 256 @@ "idle_timeout" :> 60 * Second
              @@ "handshake_timeout" :> 10 * Second @@ "retransmission_cache_entries" :> 10000
              @@ "retransmission_cache_bytes" :> 4 * MiB @@ "retransmission_ttl" :> 15 * Second)

(* The settings in force once the daemon runs with a document.             *)
Running(doc) ==
  [s \in DOMAIN doc |->
     CASE s \in {"legacy", "secure"} -> TacacsLimits(doc[s])
       [] s \in {"access", "accounting", "dynauth"} -> normalizeSettings(doc[s], s)
       [] s = "radsec" -> normalizeRadSec(doc[s])
       [] OTHER -> doc[s]]

-----------------------------------------------------------------------------
(* Properties                                                              *)

(* A file of schema 1 under the names of schema 2.                         *)
InV2(file) ==
  LET new(name) == CHOOSE n \in DOMAIN Names(2) : Names(2)[n] = Names(1)[name]
      old == DOMAIN file.sections
  IN [file EXCEPT !.schema = 2,
                  !.sections = [n \in {new(o) : o \in old} |-> file.sections[CHOOSE o \in old : new(o) = n]]]

(* The file a reader of the documentation gets by leaving a line out.      *)
Without(file, section, key) ==
  [file EXCEPT !.sections =
     [n \in DOMAIN file.sections |->
        IF Names(file.schema)[n] = section
        THEN SelectSeq(file.sections[n], LAMBDA e : e.key # key) ELSE file.sections[n]]]

(* A file of schema 1 and the same file written in schema 2 are both       *)
(* refused or give the same daemon (migrateV1ToNormalized against          *)
(* normalizeV2).                                                           *)
SchemasAgree(file) ==
  file.schema = 1 /\ Readable(file) => Load(file) = Load(InV2(file))

Cap == {"session_index_entries", "session_index_bytes", "session_ttl", "coa_timeout"}

InForce(file, doc, run) ==
  \A s \in DOMAIN doc : \A k \in DOMAIN Written(file, s) \cap DOMAIN doc[s] :
    \/ run[s][k] = Written(file, s)[k]
    \/ s = "accounting" /\ k \in Cap /\ run[s][k] = doc[s][k]
    \/ s \in {"legacy", "secure"} /\ k = "idle_timeout" /\ run[s][k] = doc[s]["single_connect.idle_timeout"]
    \/ s \in {"legacy", "secure"} /\ k = "max_connections" /\ Written(file, s)[k] < 0 /\ run[s][k] = 0
    \/ s \in {"legacy", "secure"} /\ run[s][k] = Running(Load(Without(file, s, k)))[s][k]

(* A listener runs with what the file says: what is written in an accepted *)
(* file is in force, and a value that is replaced, because it is zero or   *)
(* negative or too large, gives what leaving the line out gives.  Not so:  *)
(* the clamped limits of accounting, the two idle timeouts of a TACACS+    *)
(* listener, of which one overrides the other, and a negative cap on       *)
(* connections, which is no cap.  The tables of defaults.go and of the     *)
(* listeners must agree for this.                                          *)
RunsAsWritten(file) ==
  \A doc \in {Load(file)} \ {Refused} : InForce(file, doc, Running(doc))

(* A configuration is what its file says: see the parts.                   *)
FileHolds(file) == SchemasAgree(file) /\ RunsAsWritten(file)

=============================================================================
