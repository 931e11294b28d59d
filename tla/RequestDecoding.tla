--------------------------- MODULE RequestDecoding ---------------------------
(***************************************************************************)
(* How the JSON of a guest input becomes headers, transactions, proposals  *)
(* and carry data (decode.go, guestinput_carry.go).  Every decoder is a    *)
(* table of its fields: the names a field may have, in the order in which  *)
(* they are looked up, the type it is parsed to, and what a field that is  *)
(* missing or null stands for.                                             *)
(*                                                                         *)
(* Integers are scaled: Width[t] is the limit of type t.  A quantity has   *)
(* the same value as a number, as a decimal string and as a hex string, so *)
(* the form is left out.  Hashes, addresses, bytes and lists are opaque.   *)
(***************************************************************************)
EXTENDS Integers, Sequences, FiniteSetsExt

CONSTANTS
  Width,     \* limits of "u8", "u24", "u48", "u64", "u128" and "u256"
  ChainID,   \* of the chain that is proved
  None,      \* a field that an object does not have
  Null,      \* JSON null
  Junk,      \* JSON that cannot be parsed to the type of its field
  Required,  \* marks a field without a default
  Error      \* an error is returned

ASSUME WidthAssumption ==
  /\ Width \in [{"u8", "u24", "u48", "u64", "u128", "u256"} -> Nat]
  /\ 2 < Width.u8 /\ Width.u8 < Width.u24 /\ Width.u24 < Width.u48
  /\ Width.u48 < Width.u64 /\ Width.u64 < Width.u128 /\ Width.u128 < Width.u256
  /\ ChainID \in 1..(Width.u64 - 1)

\* The marks are not values, and differ.
ASSUME MarkAssumption ==
  /\ None \notin Int /\ Null \notin Int /\ Junk \notin Int /\ Required \notin Int
  /\ Error \notin Int
  /\ None # Null /\ None # Junk /\ None # Required /\ None # Error
  /\ Null # Junk /\ Null # Error /\ Junk # Error /\ Required # Error

VARIABLES
  kind,    \* which decoder is called
  object,  \* what the producer of the document means
  doc,     \* the document: from names to values
  edited,  \* the document is not the producer's
  result   \* None, Error or the object that was decoded

decodingVars == <<kind, object, doc, edited, result>>

-----------------------------------------------------------------------------
(* The fields of each document *)

\* The entries of both, and those of the first where they share a name.
Joined(first, second) ==
  [x \in DOMAIN first \cup DOMAIN second |-> IF x \in DOMAIN first THEN first[x] ELSE second[x]]

Req(type, names) == [names |-> names, type |-> type, default |-> Required]
Opt(type, default, names) == [names |-> names, type |-> type, default |-> default]

\* decodeSignature, and what all transactions have.
TxFields(type) ==
  [nonce |-> Req("u64", <<"nonce">>),
   gas |-> Req("u64", <<"gas_limit", "gas">>),
   value |-> Opt(type, 0, <<"value">>),
   input |-> Req("opaque", <<"input", "data">>),
   r |-> Req(type, <<"r">>), s |-> Req(type, <<"s">>), v |-> Req(type, <<"yParity", "v">>)]

LegacyFields ==
  Joined(TxFields("big"),
    [gasPrice |-> Req("big", <<"gas_price", "gasPrice">>),
     to |-> Opt("opaque", None, <<"to">>),
     chain |-> Opt("big", None, <<"chain_id", "chainId">>)])

AccessListFields ==
  Joined(TxFields("big"),
    [chain |-> Req("big", <<"chain_id", "chainId">>),
     gasPrice |-> Req("big", <<"gas_price", "gasPrice">>),
     to |-> Opt("opaque", None, <<"to">>),
     accessList |-> Opt("opaque", 0, <<"access_list", "accessList">>)])

FeeFields(type) ==
  [chain |-> Req(type, <<"chain_id", "chainId">>),
   tip |-> Req(type, <<"max_priority_fee_per_gas", "maxPriorityFeePerGas">>),
   fee |-> Req(type, <<"max_fee_per_gas", "maxFeePerGas">>),
   accessList |-> Opt("opaque", 0, <<"access_list", "accessList">>)]

DynamicFeeFields ==
  Joined(TxFields("big"), Joined(FeeFields("big"), [to |-> Opt("opaque", None, <<"to">>)]))

SetCodeFields ==
  Joined(TxFields("u256"), Joined(FeeFields("u256"),
    [to |-> Req("opaque", <<"to">>),
     authorizations |-> Req("opaque", <<"authorization_list", "authorizationList">>)]))

\* One entry of the authorization list, with its inner object.
AuthorizationFields ==
  [chain |-> Req("u256", <<"chain_id", "chainId">>), address |-> Req("opaque", <<"address">>),
   nonce |-> Req("u64", <<"nonce">>), v |-> Req("u8", <<"yParity", "v">>),
   r |-> Req("u256", <<"r">>), s |-> Req("u256", <<"s">>)]

HeaderFields ==
  [number |-> Req("u64", <<"number">>), time |-> Req("u64", <<"timestamp">>),
   gasLimit |-> Req("u64", <<"gas_limit", "gasLimit">>),
   gasUsed |-> Req("u64", <<"gas_used", "gasUsed">>),
   difficulty |-> Req("big", <<"difficulty">>),
   bloom |-> Req("opaque", <<"logs_bloom", "logsBloom">>),
   extra |-> Req("opaque", <<"extra_data", "extraData">>),
   parentHash |-> Req("opaque", <<"parent_hash", "parentHash">>),
   uncleHash |-> Req("opaque", <<"ommers_hash", "sha3Uncles", "uncleHash">>),
   root |-> Req("opaque", <<"state_root", "stateRoot">>),
   txHash |-> Req("opaque", <<"transactions_root", "transactionsRoot">>),
   receiptHash |-> Req("opaque", <<"receipts_root", "receiptsRoot">>),
   coinbase |-> Req("opaque", <<"beneficiary", "miner">>),
   mixDigest |-> Req("opaque", <<"mix_hash", "mixHash">>),
   nonce |-> Req("opaque", <<"nonce">>),
   baseFee |-> Opt("big", None, <<"base_fee_per_gas", "baseFeePerGas">>),
   withdrawalsHash |-> Opt("opaque", None, <<"withdrawals_root", "withdrawalsRoot">>),
   blobGasUsed |-> Opt("u64", None, <<"blob_gas_used", "blobGasUsed">>),
   excessBlobGas |-> Opt("u64", None, <<"excess_blob_gas", "excessBlobGas">>),
   beaconRoot |-> Opt("opaque", None, <<"parent_beacon_block_root", "parentBeaconBlockRoot">>),
   requestsHash |-> Opt("opaque", None, <<"requests_hash", "requestsHash">>),
   slotNumber |-> Opt("u64", None, <<"slot_number", "slotNumber">>),
   accessListHash |-> Opt("opaque", None, <<"block_access_list_hash", "blockAccessListHash">>)]

WithdrawalFields ==
  [index |-> Req("u64", <<"index">>), address |-> Req("opaque", <<"address">>),
   validator |-> Req("u64", <<"validatorIndex", "validator_index">>),
   amount |-> Req("u64", <<"amount">>)]

ProposalFields ==
  [id |-> Req("u48", <<"id">>), timestamp |-> Req("u48", <<"timestamp">>),
   windowEnd |-> Req("u48", <<"endOfSubmissionWindowTimestamp",
                              "end_of_submission_window_timestamp">>),
   proposer |-> Req("opaque", <<"proposer">>),
   parentHash |-> Req("opaque", <<"parentProposalHash", "parent_proposal_hash">>),
   originNumber |-> Req("u48", <<"originBlockNumber", "origin_block_number">>),
   originHash |-> Req("opaque", <<"originBlockHash", "origin_block_hash">>),
   basefeeSharing |-> Req("u8", <<"basefeeSharingPctg", "basefee_sharing_pctg">>),
   sources |-> Req("opaque", <<"sources">>)]

\* Mutation: an offset is any 64-bit number.
SourceFieldsWide ==
  [isForcedInclusion |-> Req("opaque", <<"isForcedInclusion", "is_forced_inclusion">>),
   blobHashes |-> Req("opaque", <<"blobHashes", "blob_hashes">>),
   offset |-> Req("u64", <<"offset">>), timestamp |-> Req("u48", <<"timestamp">>)]

\* A derivation source, with its blob slice.
SourceFields ==
  [isForcedInclusion |-> Req("opaque", <<"isForcedInclusion", "is_forced_inclusion">>),
   blobHashes |-> Req("opaque", <<"blobHashes", "blob_hashes">>),
   offset |-> Req("u24", <<"offset">>), timestamp |-> Req("u48", <<"timestamp">>)]

\* decodeCarryStrict: no other names are accepted.
CarryFields ==
  [chain |-> Req("u64", <<"chain_id">>), verifier |-> Req("opaque", <<"verifier">>),
   id |-> Req("u48", <<"proposal_id">>), proposalHash |-> Req("opaque", <<"proposal_hash">>),
   parentProposal |-> Req("opaque", <<"parent_proposal_hash">>),
   parentBlock |-> Req("opaque", <<"parent_block_hash">>),
   actualProver |-> Req("opaque", <<"actual_prover">>),
   proposer |-> Req("opaque", <<"proposer">>), timestamp |-> Req("u48", <<"timestamp">>),
   blockNumber |-> Req("u48", <<"blockNumber">>), blockHash |-> Req("opaque", <<"blockHash">>),
   stateRoot |-> Req("opaque", <<"stateRoot">>)]

\* A blob transaction has a sidecar in its network form only.
BlobTxFields ==
  Joined(TxFields("u256"), Joined(FeeFields("u256"),
    [to |-> Req("opaque", <<"to">>), blobFee |-> Req("u256", <<"max_fee_per_blob_gas">>),
     sidecar |-> Opt("opaque", None, <<"sidecar">>)]))

TxKinds == {"Legacy", "Eip2930", "Eip1559", "Eip7702", "Eip4844"}
Kinds == TxKinds \cup {"Authorization", "L1Header", "L2Header", "Withdrawal", "Proposal",
                       "Source", "Carry"}

Table ==
  [k \in Kinds |->
     CASE k = "Legacy" -> LegacyFields
       [] k = "Eip2930" -> AccessListFields
       [] k = "Eip1559" -> DynamicFeeFields
       [] k = "Eip7702" -> SetCodeFields
       [] k = "Eip4844" -> BlobTxFields
       [] k = "Authorization" -> AuthorizationFields
       [] k \in {"L1Header", "L2Header"} -> HeaderFields
       [] k = "Withdrawal" -> WithdrawalFields
       [] k = "Proposal" -> ProposalFields
       [] k = "Source" -> SourceFields
       [] k = "Carry" -> CarryFields]

-----------------------------------------------------------------------------
(* Decoding *)

\* Mutation: a percentage or a parity is converted without a look at its size.
InRangeOf64(type, value) ==
  IF type = "u8" THEN 0 <= value /\ value < Width.u64
  ELSE type \in DOMAIN Width => 0 <= value /\ value < Width[type]

\* The checks of requireUint8, requireUint24, requireUint48, parseUint64JSON and
\* bigIntToUint256.  An integer without a width may be negative.
InRange(type, value) ==
  type \in DOMAIN Width => 0 <= value /\ value < Width[type]

\* The conversions to uint8 and to uint256 drop what does not fit.
Converted(type, value) ==
  IF type \in {"u8", "u256"} THEN value % Width[type] ELSE value

\* lookupField: the first of the names that is there.
Found(d, names) == {i \in DOMAIN names : names[i] \in DOMAIN d}
lookupField(d, names) == d[names[Min(Found(d, names))]]

\* requireUint64, optionalBigInt and the like.
DecodeField(d, field) ==
  IF Found(d, field.names) = {} \/ lookupField(d, field.names) = Null
    THEN IF field.default = Required THEN Error ELSE field.default
    ELSE LET raw == lookupField(d, field.names)
         IN  IF raw = Junk \/ ~InRange(field.type, raw) THEN Error ELSE Converted(field.type, raw)

\* Mutation: a chain ID that is missing counts as zero.
legacyVReplayProtected(chain, parity) ==
  IF chain = None THEN 35 + parity ELSE 2 * chain + 35 + parity

legacyV(chain, parity) ==
  IF chain = None \/ chain = 0 THEN 27 + parity ELSE 2 * chain + 35 + parity

\* decodeTransaction for the variant k, decodeHeader, decodeL1Header, and the others.
\* There is no decoder for blob transactions.
Decode(k, d) ==
  LET got == [f \in DOMAIN Table[k] |-> DecodeField(d, Table[k][f])]
  IN  IF k = "Eip4844" \/ \E f \in DOMAIN got : got[f] = Error THEN Error
      ELSE CASE k = "Legacy" -> [f \in DOMAIN got \ {"chain"} |->
                                   IF f = "v" THEN legacyV(got.chain, got.v) ELSE got[f]]
             [] k = "L2Header" -> IF got.accessListHash = None THEN got ELSE Error
             [] OTHER -> got

-----------------------------------------------------------------------------
(* Transactions of a manifest *)

LegacyChain(v) == IF v \in {27, 28} THEN None ELSE (v - 35) \div 2

\* validateManifestTransactionEncoding returns no error.
ValidEncoding(k, tx) ==
  /\ IF k \in {"Legacy", "Eip2930"} THEN InRange("u128", tx.gasPrice)
     ELSE InRange("u128", tx.fee) /\ InRange("u128", tx.tip)
  /\ InRange("u256", tx.value) /\ InRange("u256", tx.r) /\ InRange("u256", tx.s)
  /\ IF k = "Legacy" THEN tx.v \in {27, 28} \/ (tx.v >= 35 /\ InRange("u64", LegacyChain(tx.v)))
     ELSE InRange("u64", tx.chain) /\ tx.v \in {0, 1}
  /\ k = "Eip4844" => InRange("u128", tx.blobFee) /\ tx.sidecar = None

\* manifestCandidateTransactions keeps it: not a blob transaction, and signed for
\* this chain or, in the old form, for any.
IsCandidate(k, tx) ==
  /\ k # "Eip4844"
  /\ IF k = "Legacy" THEN LegacyChain(tx.v) \in {None, ChainID} ELSE tx.chain = ChainID

-----------------------------------------------------------------------------
(* Documents *)

\* The fields that are written for an object; a legacy transaction is written with
\* its chain ID and its parity.
Written(k, o) ==
  IF k # "Legacy" THEN o
  ELSE Joined([o EXCEPT !.v = IF o.v < 35 THEN o.v - 27 ELSE (o.v - 35) % 2],
              [chain |-> LegacyChain(o.v)])

NameIn(style, field) == field.names[IF style <= Len(field.names) THEN style ELSE 1]

FieldNamed(k, fields, style, name) == CHOOSE f \in fields : NameIn(style, Table[k][f]) = name

\* What is not there is left out or written as null.
WrittenFields(values, omit) == {f \in DOMAIN values : ~(omit /\ values[f] = None)}
Entry(value) == IF value = None THEN Null ELSE value

\* An object in one style of names.
Document(k, o, style, omit) ==
  LET values == Written(k, o)
      fields == WrittenFields(values, omit)
  IN  [name \in {NameIn(style, Table[k][f]) : f \in fields} |->
         Entry(values[FieldNamed(k, fields, style, name)])]

ObjectFields(k) == DOMAIN Table[k] \ (IF k = "Legacy" THEN {"chain"} ELSE {})

\* An object in the middle of every range.
Plain(k) ==
  [f \in ObjectFields(k) |->
     IF f = "v" /\ k = "Legacy" THEN 36 + 2 * ChainID
     ELSE IF f = "chain" THEN ChainID ELSE IF f = "sidecar" THEN None ELSE 1]

\* The v of legacy transactions, for chain IDs that fit and one that does not.
LegacyEdges ==
  {26, 27, 28, 35, 36}
    \cup {35 + 2 * c + p : c \in {ChainID, Width.u64 - 1, Width.u64}, p \in 0..1}

\* What one field of an object may be: the edges of its type and, in manifests,
\* of the types of the other decoder.
Edges(k, f) ==
  LET field == Table[k][f]
      none == IF field.default = None THEN {None} ELSE {}
  IN  IF f = "v" /\ k = "Legacy" THEN LegacyEdges
      ELSE CASE field.type = "big" ->
                  {0, 1, 2} \cup {Width[t] - 1 : t \in {"u64", "u128", "u256"}}
                    \cup {Width[t] : t \in {"u64", "u128", "u256"}} \cup none
             [] field.type = "u256" ->
                  {0, 1, 2} \cup {Width[t] - 1 : t \in {"u64", "u128", "u256"}} \cup none
             [] field.type = "opaque" -> {0, 1} \cup none
             [] OTHER -> {0, Width[field.type] - 1} \cup none

Objects(k) ==
  {Plain(k)} \cup UNION {{[Plain(k) EXCEPT ![f] = e] : e \in Edges(k, f)} : f \in ObjectFields(k)}

DecodingInit ==
  /\ kind \in Kinds
  /\ object \in Objects(kind)
  /\ \E style \in 1..3, omit \in BOOLEAN : doc = Document(kind, object, style, omit)
  /\ edited = FALSE
  /\ result = None

\* One entry of the document is not what its producer would write.
Edit(name, raw) ==
  /\ ~edited /\ result = None
  /\ doc' = [n \in DOMAIN doc \cup {name} |-> IF n = name THEN raw ELSE doc[n]]
  /\ edited' = TRUE
  /\ UNCHANGED <<kind, object, result>>

Remove(name) ==
  /\ ~edited /\ result = None
  /\ doc' = [n \in DOMAIN doc \ {name} |-> doc[n]]
  /\ edited' = TRUE
  /\ UNCHANGED <<kind, object, result>>

DecodeDocument ==
  /\ result = None
  /\ result' = Decode(kind, doc)
  /\ UNCHANGED <<kind, object, doc, edited>>

\* Another request begins with the same document.
Forget ==
  /\ result # None
  /\ result' = None
  /\ UNCHANGED <<kind, object, doc, edited>>

Values(field) ==
  {Null, Junk} \cup
  IF field.type = "opaque" THEN {0, 1}
  ELSE {-1, 0, 1} \cup {Width[t] - 1 : t \in DOMAIN Width} \cup {Width[t] : t \in DOMAIN Width}

DecodingNext ==
  \/ \E f \in DOMAIN Table[kind] :
       \E i \in DOMAIN Table[kind][f].names, raw \in Values(Table[kind][f]) :
         object = Plain(kind) /\ Edit(Table[kind][f].names[i], raw)
  \/ \E name \in DOMAIN doc : Remove(name)
  \/ DecodeDocument
  \/ Forget

DecodingSpec == DecodingInit /\ [][DecodingNext]_decodingVars

-----------------------------------------------------------------------------
(* Properties *)

\* The objects that appear in honest requests: transactions that the manifest
\* decoder and the execution both let through, L2 headers without an access list
\* hash, and any other object.
Honest(k, o) ==
  /\ k \in TxKinds => ValidEncoding(k, o) /\ IsCandidate(k, o)
  /\ k = "L2Header" => o.accessListHash = None

\* The two decoders of transactions agree: a transaction that is derived from a
\* manifest, and executed there, decodes from the witness to the same transaction,
\* however its document is written; so do headers, with the fields they do not have.
HonestDecodes ==
  ~edited /\ result # None /\ Honest(kind, object) => result = object

\* Nothing is cut on the way: what is decoded from any document is, field by
\* field, a value of the document or the default.
ValuesKept ==
  result \notin {None, Error} =>
    \A f \in DOMAIN result :
      (kind = "Legacy" /\ f = "v") \/
      LET field == Table[kind][f]
      IN  result[f] \in {field.default} \cup {doc[n] : n \in DOMAIN doc \cap {field.names[i] : i \in DOMAIN field.names}}

\* The types that proposals and carry data have in the contracts' hashes.
AbiType ==
  [Proposal |-> [id |-> "u48", timestamp |-> "u48", windowEnd |-> "u48",
                 originNumber |-> "u48", basefeeSharing |-> "u8"],
   Source |-> [offset |-> "u24", timestamp |-> "u48"],
   Carry |-> [chain |-> "u64", id |-> "u48", timestamp |-> "u48", blockNumber |-> "u48"]]

\* What is decoded is hashed as it is: it fits the types of the contracts.
FitsAbi ==
  result \notin {None, Error} /\ kind \in DOMAIN AbiType =>
    \A f \in DOMAIN AbiType[kind] : result[f] \in 0..(Width[AbiType[kind][f]] - 1)

=============================================================================
