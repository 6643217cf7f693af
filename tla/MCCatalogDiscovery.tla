------------------------- MODULE MCCatalogDiscovery -------------------------
(* Instances of CatalogDiscovery for TLC. *)
EXTENDS CatalogDiscovery, FiniteSets

CONSTANTS c1, c2

MCCatalog == {c1, c2}

Full == {"schema", "exact", "alike"}
Contents == {{}, {"schema"}, {"schema", "alike"}, Full}

CaughtFailures == Failure \ {"uncaught"}
PermanentFailures == {"denied", "internal", "uncaught"}

\* Every server of two catalogs whose execution default is the one catalog it
\* lists, if it lists one, with these failures or those.
ServersFailing(kinds) ==
  {s \in [listed : SUBSET MCCatalog, default : MCCatalog, reports : BOOLEAN,
          scopedOnly : BOOLEAN, includes : BOOLEAN, fails : kinds,
          holds : [MCCatalog -> Contents]] :
     \A c \in MCCatalog : s.listed = {c} => s.default = c}

\* Servers that fail in every way a handler catches.
TroubledServers == ServersFailing({CaughtFailures})

\* Those of them that can become one another in ways discovery may notice:
\* catalogs appear, the default moves, tables appear in either catalog.
ChangingServers ==
  {s \in TroubledServers : /\ s.listed # {} /\ s.includes
                           /\ s.holds[c1] \in {{}, Full} /\ s.holds[c2] \in {{}, Full}}

\* One catalog has no schema, one without tables or tables of every kind, the
\* other may have a table that matches only as a pattern.
Various(servers) ==
  {s \in servers : s.holds[c1] \in {{}, {"schema"}, Full} /\ s.holds[c2] \in {{}, {"schema", "alike"}}}

\* Servers that never fail.
QuietServers == Various(ServersFailing({{}}))

\* Servers that fail for good, also in the way no handler catches.
BrokenServers ==
  {s \in Various(ServersFailing({PermanentFailures})) : s.listed # {} /\ ~s.reports}

\* A set of its own, so that TLC evaluates it once.
AllServers == {s : s \in ChangingServers \cup QuietServers \cup BrokenServers}
MCServers == AllServers
=============================================================================
