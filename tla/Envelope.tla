------------------------------ MODULE Envelope ------------------------------
(***************************************************************************)
(* How an archive gets its keys: the encryption header that                *)
(* write_enc_header makes and read_enc_header opens (zupt_format.c,        *)
(* zupt_crypto.c, zupt_crypto_sdk.c, zupt_crypto_pqbox.c).                 *)
(*                                                                         *)
(* A key is a record of what it is derived from; keys derived from         *)
(* different things differ.  A key file is a record of its kind (the       *)
(* magic), its role, the key pair it belongs to and whether its bytes are  *)
(* all there.                                                              *)
(***************************************************************************)

CONSTANTS
  NoKey,   \* no credential given, no key in force
  Built    \* the optional libraries compiled in, of "sdk" and "pqbox"

KeyKinds == {"ZKEY", "ZPQK", "BOX", "SDK"}

KeyOf(type, secret, salt) == [type |-> type, secret |-> secret, salt |-> salt]

\* load_native_key_blob: magic, version, role, exact size and checksum.  A
\* private file may stand in where only the public part is needed.
LoadsNative(kf, magic, needPrivate) ==
  kf # NoKey /\ kf.kind = magic /\ kf.whole /\ (needPrivate => kf.private)

\* pqbox_read_keyfile: the role has to be the very one asked for.
LoadsBox(kf, private) ==
  "pqbox" \in Built /\ kf # NoKey /\ kf.kind = "BOX" /\ kf.whole /\ kf.private = private

\* libvuptsdk's own key files.
LoadsSdk(kf, private) ==
  "sdk" \in Built /\ kf # NoKey /\ kf.kind = "SDK" /\ kf.whole /\ kf.private = private

\* write_enc_header: which envelope the options select, in this order.
EnvelopeType(opts) ==
  IF opts.pq /\ opts.box THEN "box"
  ELSE IF opts.pq /\ opts.sdk THEN "sdk"
  ELSE IF opts.pqonly THEN "pqonly"
  ELSE IF opts.pq THEN "hybrid"
  ELSE IF "sdk" \in Built /\ ~opts.pbkdf2 THEN "argon2"
  ELSE "pbkdf2"

\* Can the writer use its key file for an envelope of this type?
CanSeal(type, opts) ==
  CASE type = "box" -> LoadsBox(opts.keyfile, FALSE)
    [] type = "sdk" -> LoadsSdk(opts.keyfile, FALSE)
    [] type = "pqonly" -> LoadsNative(opts.keyfile, "ZPQK", FALSE)
    [] type = "hybrid" -> LoadsNative(opts.keyfile, "ZKEY", FALSE)
    [] OTHER -> TRUE

\* What the key comes from: a secret sealed to a key pair, or a password.
Secret(type, opts) ==
  IF type \in {"argon2", "pbkdf2"} THEN opts.password ELSE opts.keyfile.id

\* The key of a new archive and the envelope that hides it; salt stands for
\* the fresh randomness (salt, encapsulation or session key).
SealedKey(opts, salt) ==
  KeyOf(EnvelopeType(opts), Secret(EnvelopeType(opts), opts), salt)

EnvelopeOf(key) == [type |-> key.type, to |-> key.secret, salt |-> key.salt]

\* zupt_sdk_hybrid_decrypt_init and zupt_pqbox_decrypt_init: only the
\* recipient gets the session key out.
CanUnseal(env, opts) ==
  /\ opts.pq /\ opts.keyfile # NoKey
  /\ IF env.type = "box" THEN LoadsBox(opts.keyfile, TRUE) ELSE LoadsSdk(opts.keyfile, TRUE)
  /\ opts.keyfile.id = env.to

\* zupt_hybrid_decrypt_init and zupt_pq_decrypt_init.  Decapsulation never
\* fails: with another private key it yields another secret.
CanDecapsulate(env, opts) ==
  /\ env.type = "hybrid" => opts.pq
  /\ LoadsNative(opts.keyfile, IF env.type = "hybrid" THEN "ZKEY" ELSE "ZPQK", TRUE)

\* zupt_derive_keys and zupt_sdk_password_decrypt_init: any password gives
\* some key.
CanDerive(env, opts) ==
  opts.password # NoKey /\ (env.type = "argon2" => "sdk" \in Built)

\* read_enc_header, once its frame is known to be sound.
OpenEnvelope(env, opts) ==
  CASE env.type \in {"box", "sdk"} /\ CanUnseal(env, opts) ->
         KeyOf(env.type, env.to, env.salt)
    [] env.type \in {"hybrid", "pqonly"} /\ CanDecapsulate(env, opts) ->
         KeyOf(env.type, opts.keyfile.id, env.salt)
    [] env.type \in {"argon2", "pbkdf2"} /\ CanDerive(env, opts) ->
         KeyOf(env.type, opts.password, env.salt)
    [] OTHER -> NoKey
=============================================================================
