\* Two classes and three kinds of middleware; any override of the three names, two
\* of which are private and one shared.  Two open contexts of a name are nested or
\* overlap; three layers repeat a name and have one on either side of another.
CONSTANTS
    Types = {"udp"}
    Layers = {"log", "rd"}
    Classes = {Udp, Tcp}
    Kinds = {"log", "rd", "wr"}
    Shared = {"rd"}
    MaxContexts = 2
    MaxLayers = 3
    Nothing = Nothing
SPECIFICATION FactorySpec
PROPERTY ImplementsScopedNames
