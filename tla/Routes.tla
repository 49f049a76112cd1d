------------------------------- MODULE Routes -------------------------------
(***************************************************************************)
(* The routes of the controllers and their two readers: PermissionsGuard,  *)
(* which asks at every request for the keys of a route, and the discovery  *)
(* of the synchronisation, which collects the keys to grant.  Each reads   *)
(* the metadata of the decorators in its own way.                          *)
(*                                                                         *)
(* A key is a pair <<resource, action>>.  keys are those of                *)
(* @RequirePermissions, none if it is absent; auth and skip are what holds *)
(* for the route when its own decorator overrides that of its controller.  *)
(* No controller declares keys for all its routes: the guard would read    *)
(* them, the discovery would not.                                          *)
(***************************************************************************)

\* METHOD_ACTION_MAP of the guard, REQUEST_METHOD_ACTION of the discovery.
METHOD_ACTION_MAP ==
    [m \in {"GET", "POST", "PATCH", "PUT", "DELETE"} |->
        CASE m = "GET" -> "read" [] m = "POST" -> "create" [] m = "DELETE" -> "delete"
          [] OTHER -> "update"]

REQUEST_METHOD_ACTION ==
    [m \in {"GET", "POST", "PUT", "DELETE", "PATCH"} |->
        CASE m = "GET" -> "read" [] m = "POST" -> "create" [] m = "DELETE" -> "delete"
          [] OTHER -> "update"]

Route(resource, method, keys) ==
    [resource |-> resource, method |-> method, keys |-> keys, auth |-> "Bearer", skip |-> FALSE]

\* Routes without keys of their own, and one with the key resource:action.
Derived(resource, methods)         == {Route(resource, m, {}) : m \in methods}
Declared(resource, method, action) == {Route(resource, method, {<<resource, action>>})}

Public(routes)  == {[r EXCEPT !.auth = "None"] : r \in routes}
Skipped(routes) == {[r EXCEPT !.skip = TRUE] : r \in routes}

-----------------------------------------------------------------------------
(* The controllers.                                                        *)

RoleRoutes ==
    Derived("roles", {"POST", "GET", "PATCH", "DELETE"})
    \cup Declared("roles", "PATCH", "restore")
    \cup UNION {Declared("roles", m, "manage-permissions") : m \in {"POST", "GET", "DELETE"}}

PermissionRoutes == Derived("permissions", {"POST", "GET", "PATCH", "DELETE"})

UserRoutes ==
    Derived("users", {"POST", "DELETE"})
    \cup UNION {Declared("users", "GET", a) : a \in {"list", "me", "detail"}}
    \cup UNION {Declared("users", "PATCH", a) :
                   a \in {"update-me", "update", "restore", "activate", "deactivate",
                          "upload-avatar"}}

\* Who signs in has no token yet; the others are for every account.
SignInRoutes     == Skipped(Public(Derived("auth", {"POST"})))
OwnSessionRoutes == Skipped(Derived("auth", {"PATCH", "GET", "DELETE", "POST"}))

ActivityLogRoutes   == Derived("activity-log", {"GET"})
ErrorTrackingRoutes == Derived("error-tracking", {"GET", "PATCH", "DELETE"})
HealthRoutes        == Public(Derived("health", {"GET"}))
StatusRoutes        == Public(Derived("app", {"GET"}))

AppRoutes == UNION {RoleRoutes, PermissionRoutes, UserRoutes, SignInRoutes, OwnSessionRoutes,
                    ActivityLogRoutes, ErrorTrackingRoutes, HealthRoutes, StatusRoutes}

-----------------------------------------------------------------------------
\* The methods that reach a handler: Express answers HEAD with the GET route.
RequestMethods(r) == {r.method} \cup IF r.method = "GET" THEN {"HEAD"} ELSE {}

Required(r, m) ==
    IF r.keys # {} THEN r.keys
    ELSE {<<r.resource, IF m \in DOMAIN METHOD_ACTION_MAP THEN METHOD_ACTION_MAP[m] ELSE "read">>}

\* PermissionsGuard lets a request of method m with these permissions pass.
CanActivate(r, m, permissions) ==
    \/ r.auth = "None"
    \/ r.skip
    \/ Required(r, m) \subseteq permissions

\* Mutant of DiscoveredOf: routes that declare keys are passed over.
DiscoveredOf_NoDeclared(r) ==
    IF r.skip \/ r.keys # {} \/ r.resource = "" \/ r.method \notin DOMAIN REQUEST_METHOD_ACTION
    THEN {} ELSE {<<r.resource, REQUEST_METHOD_ACTION[r.method]>>}

\* What the discovery collects from a route, public or not.
DiscoveredOf(r) ==
    IF r.skip THEN {}
    ELSE IF r.keys # {} THEN r.keys
    ELSE IF r.resource = "" \/ r.method \notin DOMAIN REQUEST_METHOD_ACTION THEN {}
    ELSE {<<r.resource, REQUEST_METHOD_ACTION[r.method]>>}

DiscoverPermissionKeys(routes) == UNION {DiscoveredOf(r) : r \in routes}
=============================================================================
