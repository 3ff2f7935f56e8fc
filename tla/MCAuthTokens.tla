---------------------------- MODULE MCAuthTokens ----------------------------
(* Three requests on one email are enough for two registrations that race, for *)
(* two refreshes or a refresh and a logout of one token, and for an account    *)
(* that is deleted and made again under the same email.                         *)
EXTENDS AuthTokens
=============================================================================
