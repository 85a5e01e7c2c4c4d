--------------------------- MODULE Authentication ---------------------------
(***************************************************************************)
(* The authenticators' instructions: upload_auth_report and                *)
(* attest_authentication.                                                  *)
(*                                                                         *)
(* Both accounts structs say #[instruction(nonce: u64)], while the         *)
(* handlers' one argument is not a nonce (lib.rs:85-96).  The nonce that   *)
(* names the auction account is therefore decoded from the first 8 bytes   *)
(* of the same data the argument is decoded from, whose own encoding is    *)
(* one byte for a bool and a 4-byte length with the bytes for a string.    *)
(* Data that is too short is refused, trailing data is not looked at.      *)
(***************************************************************************)
EXTENDS Auction

CONSTANTS
    Reports,    \* bound: the report hashes uploaded, as sequences of bytes
    Trailings   \* bound: the bytes that follow the encoded argument

ASSUME AuthenticationAssumption ==
    /\ Reports \subseteq Seq(0 .. 255)
    /\ Trailings \subseteq Seq(0 .. 255)
    /\ MaxAuctions <= 256
    /\ \A report \in Reports : Len(report) <= 255

NonceBytes == 8     \* width of a u64

LengthBytes == 4    \* width of the length of a borsh String

\* n < 256 in little-endian order: the values met here fit in the first byte.
LittleEndian(n, width) == [i \in 1 .. width |-> IF i = 1 THEN n ELSE 0]

EncodedBool(flag) == <<IF flag THEN 1 ELSE 0>>

EncodedString(bytes) == LittleEndian(Len(bytes), LengthBytes) \o bytes

\* The nonce decoded from the data is the one the auction account is seeded with.
NamesNonce(data, nonce) ==
    /\ Len(data) >= NonceBytes
    /\ SubSeq(data, 1, NonceBytes) = LittleEndian(nonce, NonceBytes)

\* A plausible slip: the caller is not looked up in the registry.
IsAuthenticatorAny(u, admin) == admin \in platforms

\* The signer is in the registry that is passed, whosever platform that is.
IsAuthenticator(u, admin) == admin \in platforms /\ Contains(registry[admin], u)

\* upload_auth_report: the caller becomes the authentication's authenticator.
UploadAuthReport(a, u, admin, report, trailing) ==
    /\ NamesNonce(EncodedString(report) \o trailing, a[2])
    /\ IsAuthenticator(u, admin)
    /\ authStatus[a] = "Pending"
    /\ authentication[a].filled
    /\ authentication' = [authentication EXCEPT ![a].authenticator = u,
                                                ![a].reportHash = report]
    /\ UNCHANGED <<platformVars, now, auctionCount, itemAt, status, authStatus, terms,
                   highestBid, highestBidder, bids, amount, vaults, escrow>>

\* A plausible slip: a verdict needs no report.
MayAttestUnread(a, u) == authentication[a].authenticator = u

MayAttest(a, u) ==
    /\ authentication[a].authenticator = u
    /\ authentication[a].reportHash # <<>>

\* attest_authentication.  The handler also sets the auction's auth_status and
\* auction_status, in memory: Anchor writes back the accounts declared `mut` only, and
\* `auction` is not.
AttestAuthentication(a, u, admin, approved, trailing) ==
    /\ NamesNonce(EncodedBool(approved) \o trailing, a[2])
    /\ IsAuthenticator(u, admin)
    /\ MayAttest(a, u)
    /\ authentication' = [authentication EXCEPT ![a].authStatus =
                            IF approved THEN "Verified" ELSE "Rejected"]
    /\ UNCHANGED <<platformVars, now, auctionCount, itemAt, status, authStatus, terms,
                   highestBid, highestBidder, bids, amount, vaults, escrow>>

AuthenticationNext ==
    \E a \in AuctionIds, u \in Users, admin \in Admins, trailing \in Trailings :
        \/ \E report \in Reports : UploadAuthReport(a, u, admin, report, trailing)
        \/ \E approved \in BOOLEAN : AttestAuthentication(a, u, admin, approved, trailing)

=============================================================================
