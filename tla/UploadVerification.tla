-------------------------- MODULE UploadVerification --------------------------
(***************************************************************************)
(* Verified uploads (day49).  A client writes versions of an object under  *)
(* the key of its session; verifiers inspect, scan and commit a Document;  *)
(* cleaners expire the session and delete the version nobody will use.     *)
(* Storage is not under the lock of the session row, and a scan takes any  *)
(* time, so every store call and every inspection is a step of its own.    *)
(* Sessions share neither row nor key: the module follows one.  An object  *)
(* has the bytes the contract expects or others; 0 is no version.          *)
(***************************************************************************)
EXTENDS Integers, FirstMatch

CONSTANTS Verifiers,                         \* finalize_upload callers, each with its token
          Cleaners, Nobody,
          CredentialExpires, SessionExpires, \* deadlines of the row
          HoldTtl,                           \* hold_ttl of a verification lease
          MaxClockSkew, SafetyBuffer,
          CreateOnly,                        \* put_object refuses a key that exists
          MaxPuts, MaxTime                   \* bounds

ASSUME UploadAssumption ==
    /\ Nobody \notin Verifiers
    /\ {CredentialExpires, SessionExpires, HoldTtl, MaxClockSkew, SafetyBuffer, MaxPuts, MaxTime} \subseteq Nat
    /\ CreateOnly \in BOOLEAN

VARIABLES session,   \* UploadSessionRow: [state, bound, owner, hold]
          document,  \* the version of the session's DocumentRow, 0 while there is none
          objects,   \* the versions stored under the key: [version, bytes]
          puts,      \* the storage's version counter
          now,
          verifier,  \* each finalize_upload: [at, t0, seen]
          cleaner    \* each cleanup: [at, bound, seen]

uploadVars == <<session, document, objects, puts, now, verifier, cleaner>>

\* Mutant: an expired session may still be completed.
CompletesExpired == {"uploading", "verifying", "expired"}
COMPLETABLE_STATES == {"uploading", "verifying"}

NoVerification == [at |-> "idle", t0 |-> 0, seen |-> 0]
NoCleanup == [at |-> "idle", bound |-> 0, seen |-> 0]

UploadInit ==
    /\ session \in [state : {"initiated", "uploading"}, bound : {0}, owner : {Nobody}, hold : {0}]
    /\ document = 0 /\ objects = {} /\ puts = 0 /\ now = 0
    /\ verifier = [v \in Verifiers |-> NoVerification]
    /\ cleaner = [c \in Cleaners |-> NoCleanup]

-----------------------------------------------------------------------------
\* The object storage.

Absent == [version |-> 0, bytes |-> "other"]

\* inspect_object: the exact version, or the latest when none is asked for.
inspect_object(version) ==
    LET found == {o \in objects : version \in {0, o.version}} \cup {Absent}
    IN CHOOSE o \in found : \A p \in found : p.version <= o.version

\* The storage honours the presigned grant until its own clock, which lags by MaxClockSkew at
\* most, says that it expired.
GrantHonoured == now < CredentialExpires + MaxClockSkew
put_object(bytes) ==
    /\ puts < MaxPuts /\ GrantHonoured
    /\ CreateOnly => objects = {}
    /\ puts' = puts + 1
    /\ objects' = objects \cup {[version |-> puts + 1, bytes |-> bytes]}
    /\ UNCHANGED <<session, document, now, verifier, cleaner>>

\* verify_object, whose identity and integrity checks are the bytes and the bound version.
verify_object(o) ==
    /\ o # Absent
    /\ session.bound # 0 => o.version = session.bound
    /\ o.bytes = "expected"

-----------------------------------------------------------------------------
\* finalize_upload.

EndsFinalize(v) == verifier' = [verifier EXCEPT ![v] = NoVerification]

\* (1)-(3): state and workflow deadline.  t0 is the time the claim will be made with.
StartFinalize(v) ==
    /\ verifier[v].at = "idle"
    /\ session.state \in COMPLETABLE_STATES /\ now < SessionExpires
    /\ verifier' = [verifier EXCEPT ![v] = [at |-> "inspect", t0 |-> now, seen |-> 0]]
    /\ UNCHANGED <<session, document, objects, puts, now, cleaner>>

\* (4): an object that is missing or does not verify ends the call.
InspectUpload(v) ==
    LET observed == inspect_object(session.bound) IN
    /\ verifier[v].at = "inspect"
    /\ IF verify_object(observed)
       THEN verifier' = [verifier EXCEPT ![v].at = "claim", ![v].seen = observed.version]
       ELSE EndsFinalize(v)
    /\ UNCHANGED <<session, document, objects, puts, now, cleaner>>

\* (5): the lease and the exact version, before the scan.
Claimable(v) ==
    /\ session.state \in COMPLETABLE_STATES /\ verifier[v].t0 < SessionExpires
    /\ ~ (session.state = "verifying" /\ session.owner \notin {Nobody, v} /\ verifier[v].t0 < session.hold)
    /\ session.bound \in {0, verifier[v].seen}
claim_verification(v) ==
    /\ verifier[v].at = "claim"
    /\ IF Claimable(v)
       THEN /\ session' = [state |-> "verifying", bound |-> verifier[v].seen, owner |-> v,
                           hold |-> verifier[v].t0 + HoldTtl]
            /\ verifier' = [verifier EXCEPT ![v].at = "scan"]
       ELSE EndsFinalize(v) /\ UNCHANGED session
    /\ UNCHANGED <<document, objects, puts, now, cleaner>>

\* (6), (7): after a scan of any length, one guarded write, and the call is over.
HoldsSession(v) == session.state = "verifying" /\ session.owner = v
EndScan(v, held, row, doc) ==
    /\ verifier[v].at = "scan"
    /\ session' = IF held THEN row ELSE session
    /\ document' = IF held THEN doc ELSE document
    /\ EndsFinalize(v)
    /\ UNCHANGED <<objects, puts, now, cleaner>>

\* The scanner is down: the caller is told to come back, under a renewed hold.
renew_verification_hold(v) ==
    EndScan(v, HoldsSession(v) /\ now < SessionExpires, [session EXCEPT !.hold = now + HoldTtl], document)
\* The content is unsafe.
fail_verification_if_owner(v) ==
    EndScan(v, HoldsSession(v), [session EXCEPT !.state = "failed", !.owner = Nobody, !.hold = 0], document)
\* The content is safe: the Document and VERIFIED together.
commit_document_if_owner(v) ==
    EndScan(v, HoldsSession(v) /\ now < SessionExpires /\ document = 0,
            [session EXCEPT !.state = "verified", !.owner = Nobody, !.hold = 0, !.bound = verifier[v].seen],
            verifier[v].seen)

\* A verifier dies, or its commit fails before the commit point.
VerifierDies(v) ==
    /\ verifier[v].at # "idle" /\ EndsFinalize(v)
    /\ UNCHANGED <<session, document, objects, puts, now, cleaner>>

-----------------------------------------------------------------------------
\* Cleanup.

cleanup_not_before == CredentialExpires + MaxClockSkew + SafetyBuffer

classify_cleanup ==
    FirstMatch(<< <<session.state = "verified", "KEEP_VERIFIED">>,
                  <<document # 0, "KEEP_HAS_DOCUMENT">>,
                  <<session.state = "verifying" /\ now < session.hold, "KEEP_VERIFICATION_HOLD">>,
                  <<now < cleanup_not_before, "KEEP_TOO_EARLY">>,
                  <<TRUE, "DELETE_ORPHAN">> >>)

\* claim_cleanup: first the durable decision, ...
EndsCleanup(c) == cleaner' = [cleaner EXCEPT ![c] = NoCleanup]
claim_cleanup(c) ==
    /\ cleaner[c].at = "idle" /\ classify_cleanup = "DELETE_ORPHAN"
    /\ session' = [session EXCEPT !.state = "expired", !.owner = Nobody, !.hold = 0]
    /\ cleaner' = [cleaner EXCEPT ![c] = [at |-> "inspect", bound |-> session.bound, seen |-> 0]]
    /\ UNCHANGED <<document, objects, puts, now, verifier>>

\* ... then the exact version, the bound one or else the latest, ...
InspectOrphan(c) ==
    LET observed == inspect_object(cleaner[c].bound) IN
    /\ cleaner[c].at = "inspect"
    /\ IF observed = Absent THEN EndsCleanup(c)
       ELSE cleaner' = [cleaner EXCEPT ![c].seen = observed.version,
                                       ![c].at = IF cleaner[c].bound = 0 THEN "bind" ELSE "delete"]
    /\ UNCHANGED <<session, document, objects, puts, now, verifier>>

\* ... which is persisted unless another version was bound meanwhile.
bind_object_version(c) ==
    /\ cleaner[c].at = "bind"
    /\ session' = IF session.bound = 0 THEN [session EXCEPT !.bound = cleaner[c].seen] ELSE session
    /\ IF session.bound \in {0, cleaner[c].seen}
       THEN cleaner' = [cleaner EXCEPT ![c].at = "delete"] ELSE EndsCleanup(c)
    /\ UNCHANGED <<document, objects, puts, now, verifier>>

\* delete_object of exactly that version.
execute_cleanup_delete(c) ==
    /\ cleaner[c].at = "delete"
    /\ objects' = {o \in objects : o.version # cleaner[c].seen}
    /\ EndsCleanup(c)
    /\ UNCHANGED <<session, document, puts, now, verifier>>

CleanerDies(c) ==
    /\ cleaner[c].at # "idle" /\ EndsCleanup(c)
    /\ UNCHANGED <<session, document, objects, puts, now, verifier>>

Clock == now < MaxTime /\ now' = now + 1 /\ UNCHANGED <<session, document, objects, puts, verifier, cleaner>>

UploadNext ==
    \/ \E bytes \in {"expected", "other"} : put_object(bytes)
    \/ \E v \in Verifiers : \/ StartFinalize(v) \/ InspectUpload(v) \/ claim_verification(v)
                            \/ renew_verification_hold(v) \/ fail_verification_if_owner(v)
                            \/ commit_document_if_owner(v) \/ VerifierDies(v)
    \/ \E c \in Cleaners : \/ claim_cleanup(c) \/ InspectOrphan(c) \/ bind_object_version(c)
                           \/ execute_cleanup_delete(c) \/ CleanerDies(c)
    \/ Clock

-----------------------------------------------------------------------------
\* A Document names the version that was bound before its scan, and that version is stored,
\* with the expected bytes, and on no cleaner's list: whatever verifiers, late PUTs and
\* cleaners did meanwhile, completion and cleanup never both win.
DocumentIsStored ==
    document # 0 =>
        /\ session.state = "verified" /\ session.bound = document
        /\ [version |-> document, bytes |-> "expected"] \in objects
        /\ \A c \in Cleaners : cleaner[c].at \in {"bind", "delete"} => cleaner[c].seen # document
=============================================================================
