SPECIFICATION Spec
CONSTANTS
    Deployments = {d1}
    Versions = {v1}
    Version = v1
    Defaults = {default1}
    Nil = Nil
    Objects <- MCTagged
    Requests = {r1}
    MaxChanges = 0
    MaxPods = 0
INVARIANT TemplateHasVersionLabel
CHECK_DEADLOCK FALSE
