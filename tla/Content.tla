-------------------------------- MODULE Content --------------------------------
(***************************************************************************)
(* Encrypted content of creators: tiers with a versioned content key, the  *)
(* contents sealed with it, passes, and the answer that hands a fan one    *)
(* key and all the contents.  Handlers run to the end without an await and *)
(* are one step each.  A key is a fresh number; sealing and wrapping are   *)
(* what they let a holder of that number open.                             *)
(***************************************************************************)
EXTENDS Integers, FiniteSetsExt

CONSTANTS
    Tier, Fan,      \* tiers and fans
    MaxKeys,        \* bound: content keys ever generated
    MaxContents     \* bound: contents ever uploaded

VARIABLES
    tierContentKeys,  \* [tier, keyVersion, key, rotated] records
    creatorContents,  \* [id, tier, keyVersion, sealed] records
    passes,           \* pairs of a fan and a tier
    \* History.
    held,             \* fan -> the keys its answers wrapped
    rotatedPast,      \* contents whose tier was rotated after the upload
    shown             \* the last answer

contentVars == <<tierContentKeys, creatorContents, passes, held, rotatedPast, shown>>

NoAnswer == [key |-> 0, contents |-> {}]

Init ==
    /\ tierContentKeys = {} /\ creatorContents = {} /\ passes = {}
    /\ held = [f \in Fan |-> {}]
    /\ rotatedPast = {}
    /\ shown = NoAnswer

KeysOf(t) == {k \in tierContentKeys : k.tier = t}
ContentsOf(t) == {c \in creatorContents : c.tier = t}

\* findTierContentKeyByTierId: the highest version.
IsLatest(k, t) == k \in KeysOf(t) /\ \A j \in KeysOf(t) : j.keyVersion <= k.keyVersion

\* decryptAesGcm: the tag matches under the key that sealed it, and no other.
Opens(key, c) == c.sealed = key

\* generateAesKey: no key comes twice.
FreshKey == Cardinality(tierContentKeys) + 1

CreateTier(t) ==
    /\ KeysOf(t) = {} /\ FreshKey <= MaxKeys
    /\ tierContentKeys' = tierContentKeys \cup
         {[tier |-> t, keyVersion |-> 1, key |-> FreshKey, rotated |-> FALSE]}
    /\ UNCHANGED <<creatorContents, passes, held, rotatedPast, shown>>

\* By the tier's creator.
UploadContent(t) ==
    /\ Cardinality(creatorContents) < MaxContents
    /\ \E k \in KeysOf(t) :
         /\ IsLatest(k, t)
         /\ creatorContents' = creatorContents \cup
              {[id |-> Cardinality(creatorContents) + 1, tier |-> t,
                keyVersion |-> k.keyVersion, sealed |-> k.key]}
    /\ UNCHANGED <<tierContentKeys, passes, held, rotatedPast, shown>>

\* For a mutant: the new key takes the place of the old one.
RotateInPlace(t) ==
    /\ FreshKey <= MaxKeys
    /\ \E k \in KeysOf(t) :
         /\ IsLatest(k, t)
         /\ tierContentKeys' = (tierContentKeys \ {k}) \cup
              {[tier |-> t, keyVersion |-> k.keyVersion + 1, key |-> MaxKeys + k.key,
                rotated |-> FALSE]}
    /\ rotatedPast' = rotatedPast \cup ContentsOf(t)
    /\ UNCHANGED <<creatorContents, passes, held, shown>>

\* The old key stays, marked; existing contents stay sealed with it.
RotateKey(t) ==
    /\ FreshKey <= MaxKeys
    /\ \E k \in KeysOf(t) :
         /\ IsLatest(k, t)
         /\ tierContentKeys' = (tierContentKeys \ {k}) \cup
              {[k EXCEPT !.rotated = TRUE],
               [tier |-> t, keyVersion |-> k.keyVersion + 1, key |-> FreshKey,
                rotated |-> FALSE]}
    /\ rotatedPast' = rotatedPast \cup ContentsOf(t)
    /\ UNCHANGED <<creatorContents, passes, held, shown>>

\* Neither the fan nor the tier has to exist, and a pass is for ever active.
CreatePass(f, t) ==
    /\ passes' = passes \cup {<<f, t>>}
    /\ UNCHANGED <<tierContentKeys, creatorContents, held, rotatedPast, shown>>

\* The latest key, wrapped for the fan, with every content of the tier.
GetContentKey(f, t) ==
    /\ <<f, t>> \in passes
    /\ \E k \in KeysOf(t) :
         /\ IsLatest(k, t)
         /\ held' = [held EXCEPT ![f] = @ \cup {k.key}]
         /\ shown' = [key |-> k.key, contents |-> ContentsOf(t)]
    /\ UNCHANGED <<tierContentKeys, creatorContents, passes, rotatedPast>>

Next ==
    \E t \in Tier :
        \/ CreateTier(t) \/ UploadContent(t) \/ RotateKey(t)
        \/ \E f \in Fan : CreatePass(f, t) \/ GetContentKey(f, t)

Spec == Init /\ [][Next]_contentVars

-----------------------------------------------------------------------------
(* Properties. *)

\* Whatever the rotations, every content can be opened with the one key the
\* server holds under its tier and version; an answer shows a content that
\* its key does not open only after a rotation; and a fan holds no key of a
\* tier it has no pass for.
ContentStaysReadable ==
    /\ \A c \in creatorContents :
         LET K == {k \in KeysOf(c.tier) : k.keyVersion = c.keyVersion}
         IN  Cardinality(K) = 1 /\ \A k \in K : Opens(k.key, c)
    /\ \A c \in shown.contents : Opens(shown.key, c) \/ c \in rotatedPast
    /\ \A f \in Fan : \A k \in tierContentKeys :
         k.key \in held[f] => <<f, k.tier>> \in passes
===============================================================================
