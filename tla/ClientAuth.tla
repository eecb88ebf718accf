----------------------------- MODULE ClientAuth -----------------------------
(***************************************************************************)
(* How OAuth2Validator authenticates a client: HTTP Basic first, then      *)
(* client_id and client_secret of the body.  A request is a record of its  *)
(* Basic credentials, its body credentials and its grant type; "stored" is *)
(* the secret of each application, which may be blank.  Decoding of the    *)
(* header, hashing and constant-time comparison are abstracted to equality *)
(* of secrets.                                                             *)
(***************************************************************************)
CONSTANTS
  Application,  \* the client_ids of the Application table
  Public,       \* those of the public client type; the others are confidential
  NoClient,     \* no client_id, or a client_id no application has
  NoSecret      \* the blank secret; a client_secret that is missing is taken for it

ASSUME PublicApplications == Public \subseteq Application
ASSUME NoClientIsNone == NoClient \notin Application

DeviceCodeGrant == "urn:ietf:params:oauth:grant-type:device_code"

Credentials(secrets) == [id : Application \cup {NoClient}, secret : secrets \cup {NoSecret}]
Unauthenticated == [id |-> NoClient, secret |-> NoSecret]

\* The header is there, has two parts, and the first is "Basic".
ExtractBasicAuth(request) == request.basic # Unauthenticated

\* request.client is reused only if it has this client_id; otherwise it is
\* reset and the application looked up.
LoadApplication(id) == IF id \in Application THEN id ELSE NoClient

\* A blank secret, or none, is right where the stored one is blank.
CheckSecret(provided, stored) == provided = stored

\* A public client shows no secret when it polls with a device code.
NeedsNoSecret(request, client) == client \in Public /\ request.grant = DeviceCodeGrant

AuthenticateBasicAuth(request, stored) ==
  LET client == LoadApplication(request.basic.id) IN
  /\ ExtractBasicAuth(request)
  /\ client # NoClient
  /\ NeedsNoSecret(request, client) \/ CheckSecret(request.basic.secret, stored[client])

AuthenticateRequestBody(request, stored) ==
  LET client == LoadApplication(request.body.id) IN
  /\ client # NoClient
  /\ NeedsNoSecret(request, client) \/ CheckSecret(request.body.secret, stored[client])

AuthenticateClient(request, stored) ==
  AuthenticateBasicAuth(request, stored) \/ AuthenticateRequestBody(request, stored)

\* The credentials of the client that authenticate_client leaves in request.client.
AuthenticatingCredentials(request, stored) ==
  IF AuthenticateBasicAuth(request, stored) THEN request.basic ELSE request.body

\* Credentials are always checked; without any, only a public client that
\* exists need not authenticate.
ClientAuthenticationRequired(request) ==
  \/ ExtractBasicAuth(request)
  \/ request.body.id # NoClient /\ request.body.secret # NoSecret
  \/ LoadApplication(request.body.id) \notin Public

AuthenticateClientId(request) == LoadApplication(request.body.id) \in Public

\* oauthlib's DeviceCodeGrant.create_token_response: the check every grant
\* type makes, and authenticate_client once more.
DeviceClientAccepted(request, stored) ==
  /\ IF ClientAuthenticationRequired(request) THEN AuthenticateClient(request, stored)
     ELSE AuthenticateClientId(request)
  /\ AuthenticateClient(request, stored)
=============================================================================
