---------------------------- MODULE MediaStorage ----------------------------
(***************************************************************************)
(* MediaStorageService: a file is looked for by its hash among the rows of *)
(* post_assets; if it is not there it is uploaded under a key of its own.  *)
(* Every upload adds a row, and so does a pre-signed URL, before anything  *)
(* was uploaded with it.                                                   *)
(***************************************************************************)
EXTENDS Callers, Sequences

CONSTANTS Contents,
          MaxKeys,     \* bound: keys that are generated
          MaxAssets    \* bound: rows of post_assets

ASSUME MediaAssumption == MaxKeys \in Nat /\ MaxAssets \in Nat /\ Null \notin Contents

Keys == 1 .. MaxKeys

VARIABLES
  object,     \* what storage holds under each key
  lastKey,    \* the last key generated; each is used once
  assets,     \* the rows of post_assets
  upload,     \* what each caller is about to do
  signed,     \* keys of pre-signed URLs; those that still may be used
  answered,   \* what callers were told: <<content, key>>
  doubled     \* contents that two callers uploaded at once, or that could not
              \* be looked for; not in the code

mediaVars == <<object, lastKey, assets, upload, signed, answered, doubled>>

Asset == [hash : Contents \cup {Null}, key : Keys, pending : BOOLEAN]
Upload == [step : {"idle", "find", "put", "save", "link", "sign"},
           content : Contents \cup {Null}, key : 0 .. MaxKeys]
NoUpload == [step |-> "idle", content |-> Null, key |-> 0]

MediaInit ==
  /\ object = [k \in Keys |-> Null]
  /\ lastKey = 0
  /\ assets = <<>>
  /\ upload = [c \in Callers |-> NoUpload]
  /\ signed = [ever |-> {}, open |-> {}]
  /\ answered = {}
  /\ doubled = {}

(* uploadPostMedia, for each file; uploadMediaFromUrl, once the URL was    *)
(* fetched: the hash is calculated.                                        *)
UploadPostMedia(c, x) ==
  /\ upload[c].step = "idle"
  /\ upload' = [upload EXCEPT ![c] = [step |-> "find", content |-> x, key |-> 0]]
  /\ UNCHANGED <<object, lastKey, assets, signed, answered, doubled>>

UploadMediaFromUrl(c, x) == UploadPostMedia(c, x)

WithHash(x) == {i \in DOMAIN assets : assets[i].hash = x}

(* A row with this hash, pending or not: its key is answered.              *)
FindMediaByHash(c) ==
  /\ upload[c].step = "find"
  /\ \E i \in WithHash(upload[c].content) :
       upload' = [upload EXCEPT ![c].step = "link", ![c].key = assets[i].key]
  /\ UNCHANGED <<object, lastKey, assets, signed, answered, doubled>>

(* generatePostMediaKey: the time and a random number.                     *)
GeneratePostMediaKey(c) ==
  /\ lastKey < MaxKeys
  /\ lastKey' = lastKey + 1
  /\ upload' = [upload EXCEPT ![c].step = "put", ![c].key = lastKey + 1]

(* MUTATION: some rows are not looked at. *)
FindNoOwnMedia(c) ==
  /\ upload[c].step = "find"
  /\ GeneratePostMediaKey(c)
  /\ doubled' = doubled \cup {x \in {upload[c].content} : \E d \in Callers :
                    upload[d].content = x /\ upload[d].step \in {"put", "save"}}
  /\ UNCHANGED <<object, assets, signed, answered>>

(* There is none.                                                          *)
FindNoMedia(c) ==
  /\ upload[c].step = "find"
  /\ WithHash(upload[c].content) = {}
  /\ GeneratePostMediaKey(c)
  /\ doubled' = doubled \cup {x \in {upload[c].content} : \E d \in Callers :
                    upload[d].content = x /\ upload[d].step \in {"put", "save"}}
  /\ UNCHANGED <<object, assets, signed, answered>>

(* The lookup fails: the upload goes on as if there were none.             *)
FindMediaFails(c) ==
  /\ upload[c].step = "find"
  /\ GeneratePostMediaKey(c)
  /\ doubled' = doubled \cup {upload[c].content}
  /\ UNCHANGED <<object, assets, signed, answered>>

(* MUTATION: a failing upload is let go. *)
UploadToS3OrNot(c) ==
  /\ upload[c].step = "put"
  /\ object' \in {object, [object EXCEPT ![upload[c].key] = upload[c].content]}
  /\ upload' = [upload EXCEPT ![c].step = "save"]
  /\ UNCHANGED <<lastKey, assets, signed, answered, doubled>>

UploadToS3(c) ==
  /\ upload[c].step = "put"
  /\ object' = [object EXCEPT ![upload[c].key] = upload[c].content]
  /\ upload' = [upload EXCEPT ![c].step = "save"]
  /\ UNCHANGED <<lastKey, assets, signed, answered, doubled>>

(* saveFile: another row for the file, under the key found or made.        *)
SaveFile(c) ==
  /\ upload[c].step \in {"link", "save"}
  /\ Len(assets) < MaxAssets
  /\ assets' = Append(assets, [hash |-> upload[c].content, key |-> upload[c].key, pending |-> FALSE])
  /\ answered' = answered \cup {<<upload[c].content, upload[c].key>>}
  /\ upload' = [upload EXCEPT ![c] = NoUpload]
  /\ UNCHANGED <<object, lastKey, signed, doubled>>

(* generatePreSignedUrl, with the hash the client claims, or none: the URL *)
(* is signed and a pending row is saved.                                   *)
GeneratePreSignedUrl(c, x) ==
  /\ upload[c].step = "idle"
  /\ lastKey < MaxKeys
  /\ lastKey' = lastKey + 1
  /\ upload' = [upload EXCEPT ![c] = [step |-> "sign", content |-> x, key |-> lastKey + 1]]
  /\ UNCHANGED <<object, assets, signed, answered, doubled>>

SavePendingFile(c) ==
  /\ upload[c].step = "sign"
  /\ Len(assets) < MaxAssets
  /\ assets' = Append(assets, [hash |-> upload[c].content, key |-> upload[c].key, pending |-> TRUE])
  /\ signed' = [ever |-> signed.ever \cup {upload[c].key}, open |-> signed.open \cup {upload[c].key}]
  /\ upload' = [upload EXCEPT ![c] = NoUpload]
  /\ UNCHANGED <<object, lastKey, answered, doubled>>

(* The client uploads what it likes while the URL is valid. *)
ClientPuts(k, x) ==
  /\ k \in signed.open
  /\ object' = [object EXCEPT ![k] = x]
  /\ UNCHANGED <<lastKey, assets, upload, signed, answered, doubled>>

UrlExpires(k) ==
  /\ k \in signed.open
  /\ signed' = [signed EXCEPT !.open = @ \ {k}]
  /\ UNCHANGED <<object, lastKey, assets, upload, answered, doubled>>

(* finalizePendingUpload: storage is not asked.                            *)
FinalizePendingUpload(i) ==
  /\ assets[i].pending
  /\ assets' = [assets EXCEPT ![i].pending = FALSE]
  /\ UNCHANGED <<object, lastKey, upload, signed, answered, doubled>>

(* Storage or the database refuses, or the process dies. *)
UploadFails(c) ==
  /\ upload[c].step # "idle"
  /\ upload' = [upload EXCEPT ![c] = NoUpload]
  /\ UNCHANGED <<object, lastKey, assets, signed, answered, doubled>>

MediaNext ==
  \/ \E c \in Callers :
       \/ \E x \in Contents : UploadPostMedia(c, x) \/ UploadMediaFromUrl(c, x)
       \/ FindMediaByHash(c) \/ FindNoMedia(c) \/ FindMediaFails(c)
       \/ UploadToS3(c) \/ SaveFile(c)
       \/ \E x \in Contents \cup {Null} : GeneratePreSignedUrl(c, x)
       \/ SavePendingFile(c) \/ UploadFails(c)
  \/ \E k \in Keys : UrlExpires(k) \/ \E x \in Contents : ClientPuts(k, x)
  \/ \E i \in DOMAIN assets : FinalizePendingUpload(i)

MediaSpec == MediaInit /\ [][MediaNext]_mediaVars

-----------------------------------------------------------------------------
(* Properties. *)

MediaTypeOK ==
  /\ object \in [Keys -> Contents \cup {Null}]
  /\ lastKey \in 0 .. MaxKeys
  /\ assets \in Seq(Asset) /\ Len(assets) <= MaxAssets
  /\ upload \in [Callers -> Upload]
  /\ signed \in [ever : SUBSET Keys, open : SUBSET Keys] /\ signed.open \subseteq signed.ever
  /\ answered \subseteq Contents \X Keys
  /\ doubled \subseteq Contents

(* uploadPostMedia, uploadMediaFromUrl: the key a caller is answered holds *)
(* the caller's content, now and later, also if it is the key of another's *)
(* upload; the keys of pre-signed URLs hold whatever their clients put.    *)
AnsweredIsStored ==
  \A a \in answered : object[a[2]] = a[1] \/ a[2] \in signed.ever

(* findMediaByHash: a content is stored once.  All rows of a hash name one *)
(* key, unless two callers were uploading it at once, it could not be      *)
(* looked for, or a URL was signed for it.                                 *)
OneKeyPerContent ==
  \A i, j \in DOMAIN assets :
    assets[i].hash = assets[j].hash /\ assets[i].hash # Null /\ assets[i].key # assets[j].key =>
      \/ assets[i].hash \in doubled
      \/ {assets[i].key, assets[j].key} \cap signed.ever # {}
=============================================================================
