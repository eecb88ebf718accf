----------------------------- MODULE RedirectURI -----------------------------
(***************************************************************************)
(* What an application may register, and which redirect URIs its           *)
(* registration admits.  A URI is a record of the parts the code compares, *)
(* of whether it has a fragment, and of the rest, which is matched with    *)
(* nothing: user and password, ";" parameters, query parameters without a  *)
(* value.  Host names are opaque, and Under gives for every wildcard host  *)
(* the hosts that end with what follows its "*", itself among them.        *)
(***************************************************************************)
EXTENDS FiniteSets

CONSTANTS
  RedirectScheme,  \* ALLOWED_REDIRECT_URI_SCHEMES
  OriginScheme,    \* ALLOWED_SCHEMES
  Wildcards,       \* ALLOW_URI_WILDCARDS
  Under,           \* the hosts under each wildcard host
  OddWildcard,     \* a second "*", not in front, or of a top or second level domain
  SigningKey       \* OIDC_RSA_PRIVATE_KEY is set

ASSUME WildcardsIsBoolean == Wildcards \in BOOLEAN
ASSUME WildcardsAreUnderThemselves == \A host \in DOMAIN Under : host \in Under[host]

AuthorizationCode == "authorization-code"
Implicit == "implicit"
Hybrid == "openid-hybrid"
NeedsRedirectURI == {AuthorizationCode, Implicit, Hybrid}

\* AllowedURIValidator: query and path only where they are allowed, never a
\* fragment; a wildcard host only with the setting, and of the right form.
ValidURI(uri, schemes, pathAndQuery) ==
  /\ uri.scheme \in schemes
  /\ pathAndQuery \/ (uri.path = "" /\ uri.query = {})
  /\ ~uri.fragment
  /\ uri.host \in DOMAIN Under \cup OddWildcard => Wildcards /\ uri.host \notin OddWildcard

CleanAnyScheme(reg) ==                                \* mutant: schemes are not compared
  /\ \A u \in reg.uris : ValidURI(u, {u.scheme}, TRUE)
  /\ reg.grant \in NeedsRedirectURI => reg.uris # {}

\* The redirect URIs of Application.clean.
CleanURIs(reg) ==
  /\ \A u \in reg.uris : ValidURI(u, RedirectScheme, TRUE)
  /\ reg.grant \in NeedsRedirectURI => reg.uris # {}

\* Application.clean: every form and createapplication call it before they save.
Clean(reg) ==
  /\ CleanURIs(reg)
  /\ \A o \in reg.origins : ValidURI(o, OriginScheme, FALSE)
  /\ reg.algorithm = "RS256" => SigningKey
  /\ reg.algorithm = "HS256" => ~reg.public /\ reg.grant \notin {Implicit, Hybrid}

HostAllowed(allowed, host) ==
  IF Wildcards /\ allowed \in DOMAIN Under THEN host \in Under[allowed] ELSE allowed = host

\* RFC 8252: a native application listens on a port the system chose.
IsLoopback(uri) == uri.scheme = "http" /\ uri.host \in {"127.0.0.1", "::1"}

AllowedWithFewer(uri, allowed) ==                     \* mutant: issubset the other way round
  \E a \in allowed :
    /\ a.scheme = uri.scheme
    /\ HostAllowed(a.host, uri.host)
    /\ IsLoopback(a) \/ a.port = uri.port
    /\ a.path = uri.path
    /\ uri.query \subseteq a.query

\* redirect_to_uri_allowed: the rest of the URI is not looked at.
RedirectToUriAllowed(uri, allowed) ==
  \E a \in allowed :
    /\ a.scheme = uri.scheme
    /\ HostAllowed(a.host, uri.host)
    /\ IsLoopback(a) \/ a.port = uri.port
    /\ a.path = uri.path
    /\ a.query \subseteq uri.query

\* default_redirect_uri: only an application with one URI has a default.
HasDefault(reg) == Cardinality(reg.uris) = 1
=============================================================================
