------------------------------- MODULE MC_OAuth ------------------------------
\* One request after another (or an administrator's refresh) beside quota samples,
\* logins, flights and faults: MC_OAuth.cfg.
EXTENDS OAuthCredentials
=============================================================================
