----------------------------- MODULE AuthHandler -----------------------------
(***************************************************************************)
(* AuthHandler of src/src/auth/auth.rs: the S3 access gate (check_access   *)
(* and its root, bucket and object handlers) and the JWT check of inbound  *)
(* gRPC calls (get_token_from_md, check_permissions, extract_claims),      *)
(* together with the three token shapes the proxy mints (sign_ calls).   *)
(*                                                                         *)
(* The handler keeps no state of its own: it answers one call at a time   *)
(* from the cache.  A call therefore carries the cache contents it reads:  *)
(* the resources its path resolves to, the user's permission on each,     *)
(* what the credentials resolve to, the rule engine's verdict and, for a   *)
(* token, which keys the cache holds.  ResourceStates, the rule engine     *)
(* and the cache are not in this repository; their behaviour is taken     *)
(* from the spec (sections 3, 4.1 to 4.5).                                 *)
(***************************************************************************)
EXTENDS Naturals, Sequences, FiniteSets

CONSTANTS
    Self,          \* self_id of this proxy
    Other,         \* a peer proxy that mints DpExchange tokens
    Third,         \* a third proxy, only ever a token's target
    KnownSerials   \* key serials whose public key the cache holds

Proxies == {Self, Other, Third}

-----------------------------------------------------------------------------
(* The cache as the gate reads it.                                        *)

\* DbPermissionLevel: None < Read < Append < Write < Admin.
Levels == 0 .. 4
\* DbPermissionLevel::from(method): reads need Read, writes need Write.
Methods == {"GET", "PUT"}
IsMethodRead(m) == m = "GET"
Required(m) == IF IsMethodRead(m) THEN 1 ELSE 3

\* What get_full_resource_by_path returns for one prefix of the path.
\* Collections and datasets play the same part and are one kind here.
Missing == [type |-> "missing", cls |-> "-", loc |-> "-"]
Proj    == [type |-> "project", cls |-> "-", loc |-> "-"]
Dset    == [type |-> "dataset", cls |-> "-", loc |-> "-"]
\* An object: its data_class and its Location on this proxy: none, a
\* complete one, or a partial one owned by another endpoint.
Objs == [type : {"object"}, cls : {"Public", "Private"},
         loc : {"none", "here", "partial"}]

\* A resource of another ObjectType (Unspecified), which the match of
\* prefix_into_resource_states refuses.
Unspec  == [type |-> "other", cls |-> "-", loc |-> "-"]

\* The resources of a path as a cache can hold them: a project, then
\* collections or datasets, possibly an object last, and nothing below a
\* prefix that does not exist; and two contents the resolver must refuse,
\* a resource of another type and an object above a dataset.
BadContents ==
    {<<Proj, Unspec>>,
     <<Proj, [type |-> "object", cls |-> "Private", loc |-> "here"], Dset>>}
Hierarchies ==
    {<<>>, <<Proj>>, <<Proj, Dset>>, <<Proj, Dset, Dset>>}
        \cup {<<Proj>> \o <<o>> : o \in Objs} \cup {<<Proj, Dset, o>> : o \in Objs}
        \cup BadContents

Pad(h, n) == h \o [i \in 1 .. n - Len(h) |-> Missing]

\* extract_access_key_perms (lines 444-457): creds absent, an access key
\* the cache does not know, a key whose user has no attributes, or a key
\* that resolves.  Only the last yields the user.
Creds == {"none", "unknown", "noattrs", "key"}
ExtractAccessKeyPerms(c) == c = "key"

\* One S3 request with the cache contents it reads: the prefixes of its
\* path resolved (slots), the key's permission on each resolved resource,
\* the rule engine's verdict (rules are configured, so any verdict), and
\* reloc: a pull session committed a location for the object (its
\* upsert_object, replication_handler.rs line 456) after the path was
\* resolved and before handle_object reads the location again.
AccessCall(p, b, s, pm, m, c, r, x) ==
    [path |-> p, bucket |-> b, slots |-> s, perm |-> pm, method |-> m,
     creds |-> c, rule |-> r, reloc |-> x]

\* A commit can only matter to a path that ends in an object.
Relocs(p, h) == IF p = "object" /\ h # <<>> /\ h[Len(h)].type = "object"
                THEN BOOLEAN ELSE {FALSE}

\* The key's permission on each resolved resource.  The refused contents
\* (BadContents) fail whatever the permissions are, so one permission
\* function stands for all of them.
Perms(h) == IF h \in BadContents THEN {[i \in 1 .. Len(h) |-> 4]}
            ELSE [1 .. Len(h) -> Levels]

\* S3Path::Root, Bucket (one prefix), and Object with two or three
\* prefixes (key_into_prefix): path kind, bucket and prefix count.
Shapes == {<<"root", "-", 0>>, <<"bucket", "plain", 1>>,
           <<"object", "plain", 2>>, <<"object", "plain", 3>>}

\* Outcomes: a CheckAccessResult, an S3Error, or a panic of the task.
Result(k, e, u, l) == [kind |-> k, err |-> e, user |-> u, loc |-> l]
Ok(u, l) == Result("ok", "-", u, l)
Err(e) == Result("err", e, "-", "-")
Panicked == Result("panic", "-", "-", "-")

-----------------------------------------------------------------------------
(* ResourceStates (spec 3, 4.4): the slots a resolution fills.             *)

Present(q) == {i \in DOMAIN q.slots : q.slots[i].type # "missing"}
HasType(q, t) == \E i \in DOMAIN q.slots : q.slots[i].type = t
TheObject(q) == q.slots[CHOOSE i \in DOMAIN q.slots : q.slots[i].type = "object"]

\* validate(): slot types strictly deeper along the path, a project first.
Rank == [project |-> 1, dataset |-> 2, object |-> 3]
Validate(q) ==
    /\ Present(q) # {} => q.slots[1].type = "project"
    /\ \A i, j \in Present(q) :
           i < j => \/ Rank[q.slots[i].type] < Rank[q.slots[j].type]
                    \/ q.slots[i].type = "dataset" /\ q.slots[j].type = "dataset"

\* disallow_missing: any missing slot is NoSuchKey.
DisallowMissing(q) == Present(q) = DOMAIN q.slots
\* fail_partial_sync(self_id): a partial location of another endpoint.
PartialSync(q) == HasType(q, "object") /\ TheObject(q).loc = "partial"
\* check_permissions: the key holds the level on some resolved ancestor.
CheckPermissions(q) == \E i \in Present(q) : q.perm[i] >= Required(q.method)

\* prefix_into_resource_states (lines 559-600): "-" when it succeeds.
PrefixIntoResourceStates(q) ==
    IF \E i \in DOMAIN q.slots :
           q.slots[i].type \notin {"missing", "project", "dataset", "object"}
    THEN "NoSuchKey"
    ELSE IF ~Validate(q) THEN "InternalError"
    ELSE "-"

-----------------------------------------------------------------------------
(* The handlers.                                                           *)

\* handle_root (lines 251-284).
HandleRoot(q) ==
    IF ~ExtractAccessKeyPerms(q.creds) THEN Err("AccessDenied")
    ELSE IF ~q.rule THEN Err("AccessDenied")
    ELSE Ok("u1", "none")

\* A handle_bucket that forgets check_permissions.
HandleBucketNoPermission(q) ==
    IF ~ExtractAccessKeyPerms(q.creds) THEN Err("AccessDenied")
    ELSE IF PrefixIntoResourceStates(q) # "-" THEN Err(PrefixIntoResourceStates(q))
    ELSE IF ~HasType(q, "project") THEN Err("InternalError")
    ELSE IF ~q.rule THEN Err("AccessDenied")
    ELSE Ok("u1", "none")

\* handle_bucket (lines 286-335).
HandleBucket(q) ==
    IF ~ExtractAccessKeyPerms(q.creds) THEN Err("AccessDenied")
    ELSE IF PrefixIntoResourceStates(q) # "-" THEN Err(PrefixIntoResourceStates(q))
    ELSE IF ~CheckPermissions(q) THEN Err("AccessDenied")
    ELSE IF ~HasType(q, "project") THEN Err("InternalError")
    ELSE IF ~q.rule THEN Err("AccessDenied")
    ELSE Ok("u1", "none")

\* cache.get_location of the object after the rule engine (lines 405-409):
\* a second read of the cache, which a commit may have changed since the
\* resolution fail_partial_sync looked at.
GetLocation(q) ==
    CASE ~HasType(q, "object") -> "none"
      [] q.reloc               -> "here"
      [] OTHER                 -> TheObject(q).loc

\* A handle_object without the fail_partial_sync gate.
HandleObjectNoPartialGate(q) ==
    LET user == ExtractAccessKeyPerms(q.creds) IN
    IF q.bucket \in {"objects", "bundles"}
    THEN IF ~IsMethodRead(q.method) THEN Err("MethodNotAllowed") ELSE Panicked
    ELSE IF PrefixIntoResourceStates(q) # "-" THEN Err(PrefixIntoResourceStates(q))
    ELSE IF IsMethodRead(q.method) /\ ~DisallowMissing(q) THEN Err("NoSuchKey")
    ELSE IF ~HasType(q, "project") THEN Err("InternalError")
    ELSE IF user /\ ~HasType(q, "object") THEN Err("NoSuchKey")
    ELSE IF user /\ TheObject(q).cls # "Public" /\ ~CheckPermissions(q)
    THEN Err("AccessDenied")
    ELSE IF ~q.rule THEN Err("AccessDenied")
    ELSE Ok(IF user THEN "u1" ELSE "none", GetLocation(q))

\* handle_object (lines 337-420); handle_special_objects and
\* handle_bundles (lines 422-440) are todo!().
HandleObject(q) ==
    LET user == ExtractAccessKeyPerms(q.creds) IN
    IF q.bucket \in {"objects", "bundles"}
    THEN IF ~IsMethodRead(q.method) THEN Err("MethodNotAllowed") ELSE Panicked
    ELSE IF PrefixIntoResourceStates(q) # "-" THEN Err(PrefixIntoResourceStates(q))
    ELSE IF IsMethodRead(q.method) /\ ~DisallowMissing(q) THEN Err("NoSuchKey")
    ELSE IF PartialSync(q) THEN Err("ServiceUnavailable")
    ELSE IF ~HasType(q, "project") THEN Err("InternalError")
    ELSE IF user /\ ~HasType(q, "object") THEN Err("NoSuchKey")
    ELSE IF user /\ TheObject(q).cls # "Public" /\ ~CheckPermissions(q)
    THEN Err("AccessDenied")
    ELSE IF ~q.rule THEN Err("AccessDenied")
    ELSE Ok(IF user THEN "u1" ELSE "none", GetLocation(q))

-----------------------------------------------------------------------------
(* Tokens.  A JWT is reduced to its header kid, the serial of the key      *)
(* that really signed it, and its claims.  The intent travels as           *)
(* "<target>_<byte>" and the byte is the Action's discriminant.            *)

\* Action as u8 (lines 61-70) and From<u8> (lines 72-84): a byte above 4
\* panics.
ActionBytes == 0 .. 5
ActionOf(b) ==
    CASE b = 0 -> "All" [] b = 1 -> "CreateSecrets" [] b = 2 -> "Impersonate"
      [] b = 3 -> "FetchInfo" [] b = 4 -> "DpExchange" [] b > 4 -> "panic"

\* The intent claim "<target>_<byte>": sep says whether the string has an
\* underscore, target "bad" is not a ULID, a byte above 255 is not a u8.
NoIntent == [target |-> "-", byte |-> 0, sep |-> TRUE]
Intent(t, b) == [target |-> t, byte |-> b, sep |-> TRUE]
Malformed == {[target |-> Self, byte |-> 0, sep |-> FALSE],
              Intent("bad", 1), Intent(Self, 256)}

\* Intent::deserialize (lines 102-120; caching/auth.rs 73-89): split[0]
\* must parse as a ULID, then split[1] is indexed (a panic when there is
\* no underscore) and must parse as a u8; From<u8> of the engine follows.
DecodeIntent(it) ==
    CASE it = NoIntent      -> "none"
      [] it.target = "bad"  -> "error"
      [] ~it.sep            -> "panic"
      [] it.byte > 255      -> "error"
      [] OTHER              -> "u8"

\* The intent of a token through one engine's From<u8>.
IntentPanics(it, act) ==
    DecodeIntent(it) = "panic" \/ (DecodeIntent(it) = "u8" /\ act = "panic")
Token(k, s, a, sub, tid, it) ==
    [kid |-> k, signer |-> s, aud |-> a, sub |-> sub, tid |-> tid, it |-> it]

\* The serial a proxy signs with (encoding_key.0).
SerialOf(p) == IF p = Self THEN "self" ELSE "other"

\* sign_impersonating_token, sign_notification_token, sign_dataproxy_token
\* (lines 471-542) through sign_token (543-557): kid is the proxy's serial.
SignImpersonatingToken(p) ==
    Token(SerialOf(p), SerialOf(p), "aruna", "user", "t1", Intent(p, 2))
SignNotificationToken(p) ==
    Token(SerialOf(p), SerialOf(p), "aruna", p, "none", Intent(p, 3))
SignDataproxyToken(p, target) ==
    Token(SerialOf(p), SerialOf(p), "proxy", p, "none", Intent(target, 4))

Minted ==
    UNION {{SignImpersonatingToken(p), SignNotificationToken(p)}
             \cup {SignDataproxyToken(p, t) : t \in Proxies} : p \in {Self, Other}}

\* Tokens of the metadata server: any audience and intent, a user subject.
ServerTokens ==
    {Token("server", "server", a, "user", "t1", it) :
        a \in {"aruna", "proxy"},
        it \in {NoIntent} \cup Malformed
                \cup {Intent(t, b) : t \in Proxies, b \in ActionBytes}}

\* Forgeries: any kid, a key the kid does not name.
Forged ==
    {[t EXCEPT !.kid = k, !.signer = "forger"] :
        t \in ServerTokens, k \in {"self", "server", "retired", "none", "nan"}}

\* The Authorization metadata: "Bearer <jwt>", or absent, another scheme,
\* a wrong number of words, an empty token.
Headers == {"bearer", "missing", "scheme", "words", "empty"}

TokenCall(h, t, late) == [header |-> h, tok |-> t, late |-> late]
TokenCalls ==
    {TokenCall("bearer", t, late) : t \in Minted \cup ServerTokens \cup Forged,
                                    late \in BOOLEAN}
        \cup {TokenCall(h, SignDataproxyToken(Other, Self), FALSE) :
                h \in Headers \ {"bearer"}}

\* get_token_from_md (lines 603-631).
GetTokenFromMd(v) == v.header = "bearer"

\* An extract_claims that deserializes the claims before it verifies the
\* signature.
ExtractClaimsDecodeFirst(v) ==
    IF IntentPanics(v.tok.it, ActionOf(v.tok.it.byte)) THEN "panic"
    ELSE IF v.tok.signer # v.tok.kid THEN "reject"
    ELSE IF DecodeIntent(v.tok.it) = "error" THEN "reject"
    ELSE IF v.tok.aud # "proxy" \/ v.late THEN "reject"
    ELSE "claims"

\* extract_claims (lines 207-226): EdDSA signature by the key the kid names,
\* claims deserialized (Intent::deserialize may fail or panic), then
\* audience "proxy" and expiry validated.
ExtractClaims(v) ==
    IF v.tok.signer # v.tok.kid THEN "reject"
    ELSE IF IntentPanics(v.tok.it, ActionOf(v.tok.it.byte)) THEN "panic"
    ELSE IF DecodeIntent(v.tok.it) = "error" THEN "reject"
    ELSE IF v.tok.aud # "proxy" \/ v.late THEN "reject"
    ELSE "claims"

TokenResult(k, sub, tid) == [kind |-> k, sub |-> sub, tid |-> tid]

\* A check_permissions that accepts DpExchange for any target.
CheckTokenAnyTarget(v) ==
    LET t == v.tok
        act == ActionOf(t.it.byte)
    IN
    IF ~GetTokenFromMd(v) \/ t.kid \notin KnownSerials
    THEN TokenResult("reject", "-", "-")
    ELSE IF ExtractClaims(v) # "claims" THEN TokenResult(ExtractClaims(v), "-", "-")
    ELSE IF t.it = NoIntent \/ act = "All" THEN TokenResult("ok", t.sub, t.tid)
    ELSE IF act = "CreateSecrets" /\ t.it.target = Self
    THEN TokenResult("ok", t.sub, t.tid)
    ELSE IF act = "DpExchange" THEN TokenResult("ok", t.sub, "none")
    ELSE TokenResult("reject", "-", "-")

\* check_permissions (lines 150-205): kid present and an i32 the cache
\* holds a key for, claims extracted, then the intent decides.
CheckToken(v) ==
    LET t == v.tok
        act == ActionOf(t.it.byte)
    IN
    IF ~GetTokenFromMd(v) \/ t.kid \notin KnownSerials
    THEN TokenResult("reject", "-", "-")
    ELSE IF ExtractClaims(v) # "claims" THEN TokenResult(ExtractClaims(v), "-", "-")
    ELSE IF t.it = NoIntent \/ act = "All" THEN TokenResult("ok", t.sub, t.tid)
    ELSE IF act = "CreateSecrets" /\ t.it.target = Self
    THEN TokenResult("ok", t.sub, t.tid)
    ELSE IF act = "DpExchange" /\ t.it.target = Self
    THEN TokenResult("ok", t.sub, "none")
    ELSE TokenResult("reject", "-", "-")

-----------------------------------------------------------------------------
(* The second token engine, caching/auth.rs.  It reads the same JWTs but    *)
(* numbers the intent's action byte its own way, sets no audience, and     *)
(* accepts only CreateSecrets for this proxy.  A call carries what the     *)
(* engine reads besides the token: whether the cache lock is poisoned and  *)
(* how the jsonwebtoken release treats a token whose aud the validation   *)
(* does not name (ignored by 8.x, refused by 9.x; no release is pinned).  *)

\* Action and From<u8> of caching/auth.rs (lines 31-49): a byte above 2
\* panics.
CacheActionOf(b) ==
    CASE b = 0 -> "All" [] b = 1 -> "Notifications" [] b = 2 -> "CreateSecrets"
      [] b > 2 -> "panic"

CacheCall(t, late, lax, poisoned) ==
    [tok |-> t, late |-> late, laxAud |-> lax, poisoned |-> poisoned]
CacheCalls ==
    {CacheCall(t, late, lax, p) : t \in Minted \cup ServerTokens \cup Forged,
                                  late, lax, p \in BOOLEAN}

\* extract_claims of caching/auth.rs (lines 117-124): Validation::new(EdDSA)
\* with no audience; the intent deserializes through CacheActionOf.
CacheExtractClaims(v) ==
    IF v.tok.signer # v.tok.kid THEN "reject"
    ELSE IF IntentPanics(v.tok.it, CacheActionOf(v.tok.it.byte)) THEN "panic"
    ELSE IF DecodeIntent(v.tok.it) = "error" THEN "reject"
    ELSE IF v.late \/ ~v.laxAud THEN "reject"
    ELSE "claims"

\* A cached check_permissions that forgets the target comparison.
CacheCheckTokenAnyTarget(v) ==
    LET t == v.tok IN
    IF t.kid \notin KnownSerials \/ v.poisoned THEN TokenResult("reject", "-", "-")
    ELSE IF CacheExtractClaims(v) # "claims"
    THEN TokenResult(CacheExtractClaims(v), "-", "-")
    ELSE IF t.it # NoIntent /\ CacheActionOf(t.it.byte) = "CreateSecrets"
    THEN TokenResult("ok", t.sub, t.tid)
    ELSE TokenResult("reject", "-", "-")

\* check_permissions of caching/auth.rs (lines 96-115): a kid the cache
\* holds a key for, the cache lock readable, claims extracted, then only
\* CreateSecrets addressed to self_id passes.
CacheCheckToken(v) ==
    LET t == v.tok IN
    IF t.kid \notin KnownSerials \/ v.poisoned THEN TokenResult("reject", "-", "-")
    ELSE IF CacheExtractClaims(v) # "claims"
    THEN TokenResult(CacheExtractClaims(v), "-", "-")
    ELSE IF t.it # NoIntent /\ CacheActionOf(t.it.byte) = "CreateSecrets"
            /\ t.it.target = Self
    THEN TokenResult("ok", t.sub, t.tid)
    ELSE TokenResult("reject", "-", "-")

-----------------------------------------------------------------------------
(* The handler serving one call at a time.                                 *)

VARIABLES pc, call, result

vars == <<pc, call, result>>

Idle == /\ pc' = "idle" /\ call' = "-" /\ result' = "-"

Serve(q, r) == pc = "idle" /\ pc' = "busy" /\ call' = q /\ result' = r

Init == pc = "idle" /\ call = "-" /\ result = "-"

\* check_access (lines 230-249) dispatches on the S3 path.
CheckAccessRoot(q) == q.path = "root" /\ Serve(q, HandleRoot(q))
CheckAccessBucket(q) == q.path = "bucket" /\ Serve(q, HandleBucket(q))
CheckAccessObject(q) == q.path = "object" /\ Serve(q, HandleObject(q))

\* A gRPC call authenticated by its bearer token.
CheckPermissionsCall(v) == Serve(v, CheckToken(v))

\* A token checked by the cache-side AuthHandler.
CacheCheckPermissionsCall(v) == Serve(v, CacheCheckToken(v))

\* check_access on one request over one cache content; the reserved
\* buckets "objects" and "bundles" need no cache.
CheckAccess(q) == CheckAccessRoot(q) \/ CheckAccessBucket(q) \/ CheckAccessObject(q)
AccessStep ==
    \/ \E sh \in Shapes, h \in Hierarchies :
          /\ Len(h) <= sh[3]
          /\ \E pm \in Perms(h) : \E m \in Methods, c \in Creds, r \in BOOLEAN :
             \E x \in Relocs(sh[1], h) :
                CheckAccess(AccessCall(sh[1], sh[2], Pad(h, sh[3]), pm, m, c, r, x))
    \/ \E b \in {"objects", "bundles"}, m \in Methods, c \in Creds :
          CheckAccess(AccessCall("object", b, <<>>, <<>>, m, c, TRUE, FALSE))

Return == pc = "busy" /\ Idle

Next ==
    \/ /\ pc = "idle"
       /\ \/ AccessStep
          \/ \E v \in TokenCalls : CheckPermissionsCall(v)
          \/ \E v \in CacheCalls : CacheCheckPermissionsCall(v)
    \/ Return

Spec == Init /\ [][Next]_vars

-----------------------------------------------------------------------------
(* Properties.                                                             *)

Errors == {"AccessDenied", "NoSuchKey", "MethodNotAllowed", "InternalError",
           "ServiceUnavailable"}

\* What a handler may return.  An access result never carries a partial
\* replica's location: fail_partial_sync keeps it from every caller.
TypeOK ==
    /\ pc \in {"idle", "busy"}
    /\ pc = "idle" => call = "-" /\ result = "-"
    /\ pc = "busy" /\ "path" \in DOMAIN call =>
          result \in {Ok(u, l) : u \in {"u1", "none"}, l \in {"none", "here"}}
                       \cup {Err(e) : e \in Errors} \cup {Panicked}
    /\ pc = "busy" /\ "tok" \in DOMAIN call =>
          result \in {TokenResult("ok", s, t) : s \in Proxies \cup {"user"},
                                                t \in {"t1", "none"}}
                       \cup {TokenResult(k, "-", "-") : k \in {"reject", "panic"}}

AccessServed == pc = "busy" /\ "path" \in DOMAIN call /\ result.kind = "ok"
TokenAccepted == pc = "busy" /\ "tok" \in DOMAIN call /\ result.kind = "ok"

\* handle_bucket and handle_object let a request made with an access key
\* through, on a bucket or on an object that is not Public, only if the
\* key holds the method's level on some resource of the path (spec 8.6).
AuthorizedByPermission ==
    AccessServed /\ result.user = "u1" /\ call.path \in {"bucket", "object"}
    /\ ~(\E i \in DOMAIN call.slots : call.slots[i].cls = "Public")
    => \E i \in DOMAIN call.perm : call.perm[i] >= Required(call.method)

\* Either engine accepts a token only if the key its kid names signed it
\* and it is unexpired.  auth.rs's check_permissions further needs audience
\* "proxy" and an intent a proxy accepts: All, or CreateSecrets or
\* DpExchange addressed to this proxy (spec 4.2, 8.1, 8.2); a peer's
\* DpExchange token for a third proxy, and the proxies' own impersonation
\* and notification tokens, are refused.  The cached check_permissions
\* needs a readable cache and an intent addressed to this proxy.
TokenAcceptedOnlyIfAddressed ==
    TokenAccepted =>
        LET t == call.tok IN
        /\ t.signer = t.kid /\ t.kid \in KnownSerials /\ ~call.late
        /\ "header" \in DOMAIN call =>
              /\ t.aud = "proxy"
              /\ t.it # NoIntent =>
                    \/ ActionOf(t.it.byte) = "All"
                    \/ ActionOf(t.it.byte) \in {"CreateSecrets", "DpExchange"}
                       /\ t.it.target = Self
        /\ "poisoned" \in DOMAIN call =>
              ~call.poisoned /\ t.it # NoIntent /\ t.it.target = Self

\* A token check can take the task down (the intent's From<u8> above its
\* last action, or split[1] of an intent without an underscore) only for a
\* token the key its kid names really signed, whose kid the cache knows,
\* and, in the cached engine, only with a readable cache: the claims are
\* deserialized after the signature is verified, so a forger cannot crash
\* either engine.
PanicOnlyOnVerifiedToken ==
    pc = "busy" /\ "tok" \in DOMAIN call /\ result.kind = "panic" =>
        /\ call.tok.signer = call.tok.kid /\ call.tok.kid \in KnownSerials
        /\ "poisoned" \in DOMAIN call => ~call.poisoned
        /\ "header" \in DOMAIN call => GetTokenFromMd(call)

\* Spec 4.5: on an object that is not Public, the gate requires
\* credentials and a permission; only a Public object is served to an
\* anonymous caller, and then only if the rules allow it.
PrivateNeedsCredentials ==
    AccessServed /\ call.path = "object"
    /\ ~(\E i \in DOMAIN call.slots : call.slots[i].cls = "Public")
    => /\ result.user = "u1"
       /\ \E i \in DOMAIN call.perm : call.perm[i] >= Required(call.method)

====
