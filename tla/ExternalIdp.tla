------------------------------ MODULE ExternalIdp ------------------------------
(***************************************************************************)
(* What the Microsoft login (auth/microsoft_sso.go of the Kiro CLI pool    *)
(* proxy) accepts as scopes, issuers and endpoints.                        *)
(*                                                                         *)
(* A URL is a record of what the checks look at: `plain` stands for an     *)
(* absolute https URL with a host name, the default port and neither user  *)
(* information nor a fragment; `tenant` is its first path segment,         *)
(* unescaped, and `path` is the rest of its path.  A scope names the       *)
(* resource it belongs to, which is a client ID or Standard.               *)
(***************************************************************************)
EXTENDS FiniteSets

CONSTANTS
  Hosts,         \* host names
  LoginHosts,    \* the Entra login clouds among them
  Tenants,       \* first path segments
  TenantIds,     \* those that uuid.Parse takes for a UUID
  Braced,        \* those of them in braces
  Clients,       \* client IDs that are UUIDs
  Standard,      \* the resource of the OpenID Connect scopes
  NoConfiguration

ASSUME IdpAssumption == /\ LoginHosts \subseteq Hosts
                        /\ TenantIds \subseteq Tenants
                        /\ Braced \subseteq TenantIds
                        /\ Standard \notin Clients

IssuerPath == "/v2.0"
TokenPath == "/oauth2/v2.0/token"
AuthorizePath == "/oauth2/v2.0/authorize"

Scope(resource, name) == [resource |-> resource, name |-> name]
StandardScopes == {Scope(Standard, n) : n \in {"openid", "profile", "email", "offline_access"}}
KiroScopes(client) ==
  {Scope(client, n) : n \in {"completions", "analysis", "conversations",
                             "transformations", "taskassist"}}

\* validateMicrosoftScopes: known scopes only, among them a refresh and a Kiro scope.
ValidScopes(scopes, client) ==
  /\ scopes \subseteq StandardScopes \cup KiroScopes(client)
  /\ Scope(Standard, "offline_access") \in scopes
  /\ scopes \cap KiroScopes(client) # {}

\* ValidateExternalIdpEndpoint.
ValidEndpoint(url) == url.plain /\ url.host \in LoginHosts

\* parseMicrosoftIssuer: https://<login host>/<tenant>/v2.0.
ValidIssuer(url) ==
  /\ ValidEndpoint(url)
  /\ ~url.query
  /\ url.path = IssuerPath
  /\ url.tenant \in TenantIds

\* The first segment of EscapedPath, which escapes braces.
EscapedSegment(tenant) == IF tenant \in Braced THEN <<"%7B", tenant, "%7D">> ELSE <<tenant>>

\* validateMicrosoftDiscoveredEndpoint: an endpoint of the issuer's own tenant.  What it
\* compares the escaped path with is made from the tenant as parseMicrosoftIssuer has
\* unescaped it, so that no endpoint of a tenant in braces passes.
BelongsTo(url, issuer, path) ==
  /\ ValidEndpoint(url)
  /\ url.host = issuer.host
  /\ ~url.query
  /\ EscapedSegment(url.tenant) = <<issuer.tenant>>
  /\ url.path = path

\* discoverMicrosoftOIDC: what is kept of the answer to a discovery request.
\* (sameNormalizedURL compares all of the two issuers.)
DiscoveryAccepted(issuer, document) ==
  /\ document.issuer = issuer
  /\ BelongsTo(document.authorize, issuer, AuthorizePath)
  /\ BelongsTo(document.token, issuer, TokenPath)

\* ValidateExternalIdpConfiguration, and NormalizeExternalIdpScopes in it.
ValidConfiguration(c) ==
  /\ c.client \in Clients
  /\ ValidScopes(c.scopes, c.client)
  /\ ValidIssuer(c.issuer)
  /\ BelongsTo(c.token, c.issuer, TokenPath)

\* postExternalIdpToken checks once more before it sends a code or a refresh token.
MaySendTo(token, issuer) == ValidIssuer(issuer) /\ BelongsTo(token, issuer, TokenPath)
================================================================================
